------------------------- MODULE RegistrationProofs -------------------------
(***************************************************************************)
(* Proofs about Registration for every set of registrations, however they  *)
(* share ids and names, for every queue, limit and number of generations,  *)
(* and for both wire modes.                                                *)
(***************************************************************************)
EXTENDS Registration, FiniteSetTheorems, SequenceTheorems, TLAPS

(***************************************************************************)
(* Types.                                                                  *)
(***************************************************************************)
TableTypes ==
  /\ client \in {"down", "init", "ready", "stopped"}
  /\ gen \in 0..MaxGen /\ mode \in {"legacy", "correlated"}
  /\ todo \subseteq Reg /\ asked \in Reg \cup {None}
  /\ desired \subseteq Reg /\ active \subseteq Reg
  /\ slot \in Reg \cup {None} /\ inFlight \subseteq Reg /\ armed \subseteq Reg

\* A Session has a number, and so has every transaction begun in it.
Numbered ==
  /\ Connected => gen \in Gen
  /\ born \in [Reg -> 0..MaxGen]
  /\ \A r \in Unacknowledged : born[r] \in Gen
  /\ tombs \subseteq ServiceId \X Gen

CallTypes ==
  /\ reply \in [Reg -> Replies]
  /\ commands \in Seq(Command) /\ asks \in 0..MaxUnregisters

BindTypes ==
  /\ binds \subseteq Reg \X Reg /\ leaked \subseteq ServiceId
  /\ cause \in [why : Causes, reg : Reg \cup {None}]

ServerTypes ==
  /\ srv \in [Gen -> {"none", "up", "closing", "gone"}]
  /\ services \in [Gen -> SUBSET Reg]
  /\ bound \subseteq Gen \X Reg

WireTypes ==
  /\ toServer \in [Gen -> Seq(ToServer)]
  /\ toClient \in [Gen -> Seq(ToClient)]

Types == TableTypes /\ Numbered /\ CallTypes /\ BindTypes /\ ServerTypes /\ WireTypes

\* The bounds are natural numbers.
LEMMA Bounds ==
  /\ MaxGen \in Nat /\ MaxInFlight \in Nat /\ ClientLimit \in Nat /\ ServerLimit \in Nat
  /\ MaxTombs \in Nat /\ MaxUnregisters \in Nat
  BY BoundAssumption

\* What a connected client reads next.
LEMMA ReadTypes ==
  ASSUME Types, Connected, toClient[gen] # <<>>
  PROVE  /\ gen \in Gen
         /\ Head(toClient[gen]) \in ToClient
         /\ Tail(toClient[gen]) \in Seq(ToClient)
  <1>1. gen \in Gen BY DEF Types, Numbered
  <1>2. toClient[gen] \in Seq(ToClient) BY <1>1 DEF Types, WireTypes
  <1> QED BY <1>1, <1>2

\* Messages about a registration name one.
LEMMA MessageTypes ==
  /\ \A m \in ToClient : m.kind # "drain" => m.reg \in Reg /\ IdOf[m.reg] \in ServiceId
  /\ \A m \in ToClient : m.kind \in {"error", "reject"} => m.code \in Codes
  /\ \A m \in ToServer : m.kind = "register" => m.reg \in Reg /\ IdOf[m.reg] \in ServiceId
  /\ \A m \in ToServer : m.kind = "unregister" => m.id \in ServiceId
  /\ \A c \in Command : c.op = "register" => c.reg \in Reg
  /\ \A c \in Command : c.op = "unregister" => c.id \in ServiceId
  BY RegAssumption DEF ToClient, ToServer, Command

\* The command taken next.
LEMMA CommandTypes ==
  ASSUME Types, commands # <<>>
  PROVE  /\ Head(commands) \in Command /\ Tail(commands) \in Seq(Command)
         /\ Head(commands).op = "register" => Head(commands).reg \in Reg
         /\ Head(commands).op = "unregister" => Head(commands).id \in ServiceId
         /\ Head(commands).op \in {"register", "unregister"}
  <1>1. commands \in Seq(Command) BY DEF Types, CallTypes
  <1>2. Head(commands) \in Command /\ Tail(commands) \in Seq(Command) BY <1>1
  <1>3. \A c \in Command : c.op \in {"register", "unregister"} BY DEF Command
  <1> QED BY <1>2, <1>3, MessageTypes

\* An answer is given to callers that wait.
LEMMA AnswerTypes ==
  ASSUME Types, NEW R, NEW result \in Replies, Answer(R, result)
  PROVE  reply' \in [Reg -> Replies]
  BY DEF Types, CallTypes, Answer

\* Releasing transactions makes them fewer.
LEMMA ReleaseTypes ==
  ASSUME Types, NEW R, Release(R)
  PROVE  /\ slot' \in Reg \cup {None} /\ inFlight' \subseteq inFlight /\ armed' \subseteq armed
         /\ Unacknowledged' = Unacknowledged \ R
         /\ slot' \in {slot, None}
  <1>1. /\ slot' \in Reg \cup {None} /\ inFlight' \subseteq inFlight /\ armed' \subseteq armed
        /\ slot' \in {slot, None}
    BY DEF Types, TableTypes, Release
  <1>2. Unacknowledged' = Unacknowledged \ R BY DEF Release, Unacknowledged
  <1> QED BY <1>1, <1>2

\* What is found for an id is being registered.
LEMMA FoundTypes ==
  ASSUME Types, NEW id
  PROVE  /\ Found(id) \subseteq Unacknowledged /\ Unacknowledged \subseteq Reg
         /\ \A r \in Found(id) : IdOf[r] = id
  BY RegAssumption DEF Types, TableTypes, Found, ById, Unacknowledged

\* A tombstone carries the generation of what was abandoned.
LEMMA TombTypes ==
  ASSUME Types, NEW id \in ServiceId, NEW g \in Gen
  PROVE  /\ WithTomb(id, g) \subseteq ServiceId \X Gen
         /\ WithTomb(id, g) \subseteq tombs \cup {<<id, g>>}
  BY DEF Types, Numbered, WithTomb, TombsOf

\* Refusals of a legacy or a correlated server are failures.
LEMMA ErrorTypes == \A code : ErrorOf(code) \in Failures
  BY DEF ErrorOf, Failures

(***************************************************************************)
(* What steps do to the tables of ServiceState.                            *)
(***************************************************************************)

\* Nothing is added: transactions end, Services are forgotten.
Shrinks ==
  /\ desired' \subseteq desired
  /\ Unacknowledged' \subseteq Unacknowledged
  /\ inFlight' \subseteq inFlight
  /\ \A r \in Reg : born'[r] = born[r]

\* A transaction begins, though it may end in the same step.
Grows(r) ==
  /\ Begins(r) /\ desired' = desired
  /\ Unacknowledged' \subseteq Unacknowledged \cup {r}
  /\ \/ inFlight' \subseteq inFlight
     \/ mode # "legacy" /\ inFlight' = inFlight \cup {r}
  /\ \A q \in Reg : born'[q] = IF q = r THEN gen ELSE born[q]

\* A transaction is committed.
Moves(r) ==
  /\ r \in Unacknowledged
  /\ reply'[r] \in {"ok", "missed"}
  /\ desired' = desired \cup {r}
  /\ Unacknowledged' = Unacknowledged \ {r}
  /\ inFlight' \subseteq inFlight
  /\ UNCHANGED born

\* unregister, whatever the state of the Service.
LEMMA UnregisterEffect ==
  ASSUME Types, NEW id \in ServiceId, Unregister(id)
  PROVE  /\ desired' \subseteq desired /\ active' \subseteq active
         /\ slot' \in Reg \cup {None} /\ inFlight' \subseteq inFlight /\ armed' \subseteq armed
         /\ Unacknowledged' \subseteq Unacknowledged
         /\ reply' \in [Reg -> Replies]
         /\ tombs' \subseteq ServiceId \X Gen
         /\ \/ tombs' \subseteq tombs
            \/ slot \in Unacknowledged /\ tombs' \subseteq tombs \cup {<<id, born[slot]>>}
  <1> DEFINE cancelled == ById(Unacknowledged, id)
  <1>1. Release(cancelled) /\ Answer(cancelled, "cancelled") BY DEF Unregister
  <1>2. "cancelled" \in Replies BY DEF Replies, Failures
  <1>3. reply' \in [Reg -> Replies] BY <1>1, <1>2, AnswerTypes
  <1>4. desired' \subseteq desired /\ active' \subseteq active BY DEF Unregister
  <1>5. tombs' = IF slot \in cancelled THEN WithTomb(id, born[slot]) ELSE tombs
    BY DEF Unregister
  <1>6. slot \in cancelled => slot \in Unacknowledged /\ born[slot] \in Gen
    BY DEF ById, Types, Numbered
  <1>7. /\ tombs' \subseteq ServiceId \X Gen
        /\ \/ tombs' \subseteq tombs
           \/ slot \in Unacknowledged /\ tombs' \subseteq tombs \cup {<<id, born[slot]>>}
    <2>1. CASE slot \in cancelled BY <2>1, <1>5, <1>6, TombTypes
    <2>2. CASE slot \notin cancelled BY <2>2, <1>5 DEF Types, Numbered
    <2> QED BY <2>1, <2>2
  <1>8. /\ slot' \in Reg \cup {None} /\ inFlight' \subseteq inFlight /\ armed' \subseteq armed
        /\ Unacknowledged' = Unacknowledged \ cancelled
    BY <1>1, ReleaseTypes
  <1> QED BY <1>3, <1>4, <1>7, <1>8

\* A Session left with break.
LEMMA LeaveCleanEffect ==
  ASSUME Types, NEW R, NEW result \in Replies, NEW why \in Causes, LeaveClean(R, result, why)
  PROVE  /\ client' = "down" /\ active' = {} /\ tombs' = {} /\ binds' = {}
         /\ slot' \in Reg \cup {None} /\ inFlight' \subseteq inFlight /\ armed' \subseteq armed
         /\ Unacknowledged' = {}
         /\ reply' \in [Reg -> Replies]
         /\ cause' \in [why : Causes, reg : Reg \cup {None}]
  <1>1. reply' \in [Reg -> Replies] BY AnswerTypes DEF LeaveClean
  <1>2. /\ slot' \in Reg \cup {None} /\ inFlight' \subseteq inFlight /\ armed' \subseteq armed
        /\ Unacknowledged' = Unacknowledged \ Unacknowledged
    BY ReleaseTypes DEF LeaveClean
  <1>3. cause' = [why |-> why, reg |-> None] BY DEF LeaveClean
  <1>4. cause' \in [why : Causes, reg : Reg \cup {None}] BY <1>3
  <1> QED BY <1>1, <1>2, <1>4 DEF LeaveClean

\* Sessions left by an error.
LEMMA LeaveErrorEffect ==
  ASSUME Types, NEW why \in Causes, NEW r \in Reg \cup {None},
         LeaveDirty(why, r) \/ LeaveForGood(why, r)
  PROVE  /\ client' \in {"down", "stopped"} /\ binds' = {}
         /\ cause' \in [why : Causes, reg : Reg \cup {None}]
         /\ LeaveForGood(why, r) => reply' \in [Reg -> Replies]
  <1>1. "disconnected" \in Replies BY DEF Replies, Failures
  <1>2. LeaveForGood(why, r) => reply' \in [Reg -> Replies] BY <1>1, AnswerTypes DEF LeaveForGood
  <1>3. cause' = [why |-> why, reg |-> r] BY DEF LeaveDirty, LeaveForGood
  <1>4. cause' \in [why : Causes, reg : Reg \cup {None}] BY <1>3
  <1> QED BY <1>2, <1>4 DEF LeaveDirty, LeaveForGood

\* What holds after a step of the client.
Kept ==
  /\ TableTypes' /\ Numbered' /\ CallTypes' /\ BindTypes' /\ CurrentGeneration'
  /\ Shrinks \/ (\E r \in Reg : Grows(r)) \/ (\E r \in Reg : Moves(r))

\* A step within a Session, or out of it, that begins and commits nothing.
Ends ==
  /\ UNCHANGED <<gen, mode, born>>
  /\ \/ client' \in {client, "down", "stopped"}
     \/ client = "init" /\ client' = "ready"
  /\ todo' \subseteq todo /\ asked' \in todo \cup {asked, None}
  /\ desired' \subseteq desired /\ active' \subseteq active \cup desired
  /\ slot' \in {slot, None} /\ inFlight' \subseteq inFlight /\ armed' \subseteq armed
  /\ \/ tombs' \subseteq tombs
     \/ /\ slot \in Unacknowledged
        /\ \E id \in ServiceId : tombs' \subseteq tombs \cup {<<id, born[slot]>>}

\* Ending transactions and forgetting Services keeps everything in order.
LEMMA EndsKept ==
  ASSUME Types, CurrentGeneration, Ends, CallTypes', BindTypes'
  PROVE  Kept
  <1>1. TableTypes'
    BY DEF Types, TableTypes, Ends
  <1>2. Unacknowledged' \subseteq Unacknowledged /\ Unacknowledged \subseteq Reg
    BY DEF Types, TableTypes, Ends, Unacknowledged
  <1>3. Connected' => Connected BY DEF Ends, Connected
  <1>4. tombs' \subseteq ServiceId \X Gen
    BY DEF Types, Numbered, Ends
  <1>5. Numbered'
    BY <1>2, <1>3, <1>4 DEF Types, Numbered, Ends
  <1>6. CurrentGeneration'
    <2> SUFFICES ASSUME Connected'
                 PROVE  (\A r \in Unacknowledged' : born[r] = gen) /\ (\A t \in tombs' : t[2] = gen)
      BY DEF CurrentGeneration, Ends
    <2>1. (\A r \in Unacknowledged : born[r] = gen) /\ (\A t \in tombs : t[2] = gen)
      BY <1>3 DEF CurrentGeneration
    <2>2. CASE tombs' \subseteq tombs BY <1>2, <2>1, <2>2
    <2>3. CASE /\ slot \in Unacknowledged
               /\ \E id \in ServiceId : tombs' \subseteq tombs \cup {<<id, born[slot]>>}
      BY <1>2, <2>1, <2>3
    <2> QED BY <2>2, <2>3 DEF Ends
  <1>7. Shrinks BY <1>2 DEF Shrinks, Ends
  <1> QED BY <1>1, <1>5, <1>6, <1>7 DEF Kept

\* Best-effort cleanup.
LEMMA CleanupTypes ==
  ASSUME Types, NEW id \in ServiceId, Cleanup(id)
  PROVE  leaked' \subseteq ServiceId
  BY DEF Types, BindTypes, Cleanup

\* The initial registration and the end of a Session.
LEMMA KeptInit ==
  ASSUME Types, CurrentGeneration,
         InitStep \/ GenerationSpent \/ LoseConnection \/ Shutdown
  PROVE  Kept
  <1> USE DEF clientVars, txnVars, stateVars, callVars
  <1>1. ASSUME NEW r \in Reg, InitRegister(r) PROVE Kept
    <2>1. Ends BY <1>1 DEF InitRegister, Ends
    <2>2. CallTypes' /\ BindTypes' BY <1>1 DEF InitRegister, Types, CallTypes, BindTypes
    <2> QED BY <2>1, <2>2, EndsKept
  <1>2. CASE InitAck
    <2> DEFINE m == Head(toClient[gen])
    <2>1. Connected /\ toClient[gen] # <<>> /\ m.kind = "ack" BY <1>2 DEF InitAck, Incoming, Connected
    <2>2. m.reg \in Reg BY <2>1, ReadTypes, MessageTypes
    <2>3. asked \in Reg BY <1>2 DEF InitAck, Types, TableTypes
    <2>4. UNCHANGED <<gen, mode, txnVars, desired, active, tombs, leaked, commands, asks>>
      BY <1>2 DEF InitAck
    <2> HIDE DEF m
    <2>5. CASE /\ binds' = binds \cup {<<asked, m.reg>>}
               /\ todo' = todo \ {asked} /\ asked' = None
               /\ UNCHANGED <<client, reply, cause>>
      <3>1. Ends BY <2>4, <2>5 DEF Ends
      <3>2. CallTypes' /\ BindTypes' BY <2>2, <2>3, <2>4, <2>5 DEF Types, CallTypes, BindTypes
      <3> QED BY <3>1, <3>2, EndsKept
    <2>6. CASE LeaveForGood("unexpected", m.reg) /\ UNCHANGED <<todo, asked>>
      <3>1. "unexpected" \in Causes BY DEF Causes
      <3>2. /\ client' \in {"down", "stopped"} /\ binds' = {}
            /\ cause' \in [why : Causes, reg : Reg \cup {None}]
            /\ reply' \in [Reg -> Replies]
        BY <2>2, <2>6, <3>1, LeaveErrorEffect
      <3>3. Ends BY <2>4, <2>6, <3>2 DEF Ends
      <3>4. CallTypes' /\ BindTypes' BY <2>4, <3>2 DEF Types, CallTypes, BindTypes
      <3> QED BY <3>3, <3>4, EndsKept
    <2> QED BY <1>2, <2>5, <2>6 DEF InitAck, m
  <1>3. CASE InitOther
    <2>1. PICK why \in Causes : LeaveForGood(why, asked)
      BY <1>3 DEF InitOther, Incoming, Causes
    <2>2. asked \in Reg \cup {None} BY DEF Types, TableTypes
    <2>3. /\ client' \in {"down", "stopped"} /\ binds' = {}
          /\ cause' \in [why : Causes, reg : Reg \cup {None}]
          /\ reply' \in [Reg -> Replies]
      BY <2>1, <2>2, LeaveErrorEffect
    <2>4. Ends BY <1>3, <2>3 DEF InitOther, Ends
    <2>5. CallTypes' /\ BindTypes' BY <1>3, <2>3 DEF InitOther, Types, CallTypes, BindTypes
    <2> QED BY <2>4, <2>5, EndsKept
  <1>4. CASE Activate
    <2>1. Ends BY <1>4 DEF Activate, Ends
    <2>2. CallTypes' /\ BindTypes' BY <1>4 DEF Activate, Types, CallTypes, BindTypes
    <2> QED BY <2>1, <2>2, EndsKept
  <1>5. CASE GenerationSpent
    <2>1. "spent" \in Causes BY DEF Causes
    <2>2. LeaveForGood("spent", None) BY <1>5 DEF GenerationSpent
    <2>3. /\ client' \in {"down", "stopped"} /\ binds' = {}
          /\ cause' \in [why : Causes, reg : Reg \cup {None}]
          /\ reply' \in [Reg -> Replies]
      BY <2>1, <2>2, LeaveErrorEffect
    <2>4. Ends BY <1>5, <2>3 DEF GenerationSpent, Ends
    <2>5. CallTypes' /\ BindTypes' BY <1>5, <2>3 DEF GenerationSpent, Types, CallTypes, BindTypes
    <2> QED BY <2>4, <2>5, EndsKept
  <1>6. CASE LoseConnection
    <2>1. "left" \in Causes BY DEF Causes
    <2>2. LeaveDirty("left", None) BY <1>6 DEF LoseConnection
    <2>3. /\ client' \in {"down", "stopped"} /\ binds' = {}
          /\ cause' \in [why : Causes, reg : Reg \cup {None}]
      BY <2>1, <2>2, LeaveErrorEffect
    <2>4. Ends BY <1>6, <2>3 DEF LoseConnection, Ends
    <2>5. CallTypes' /\ BindTypes' BY <1>6, <2>3 DEF LoseConnection, Types, CallTypes, BindTypes
    <2> QED BY <2>4, <2>5, EndsKept
  <1>7. CASE Shutdown
    <2>1. "cancelled" \in Replies /\ "cancelled" \in Causes BY DEF Replies, Failures, Causes
    <2>2. reply' \in [Reg -> Replies] BY <1>7, <2>1, AnswerTypes DEF Shutdown
    <2>3. cause' \in [why : Causes, reg : Reg \cup {None}]
      <3>1. cause' = [why |-> "cancelled", reg |-> None] BY <1>7 DEF Shutdown
      <3> QED BY <2>1, <3>1
    <2>4. Ends BY <1>7 DEF Shutdown, Ends
    <2>5. CallTypes' /\ BindTypes' BY <1>7, <2>2, <2>3 DEF Shutdown, Types, CallTypes, BindTypes
    <2> QED BY <2>4, <2>5, EndsKept
  <1> QED BY <1>1, <1>2, <1>3, <1>4, <1>5, <1>6, <1>7 DEF InitStep

\* Answers of the server.
LEMMA KeptRead ==
  ASSUME Types, CurrentGeneration, ReadMessage
  PROVE  Kept
  <1> USE DEF clientVars, txnVars, stateVars, callVars
  <1> DEFINE m == Head(toClient[gen])
             id == IdOf[m.reg]
  <1>0. /\ client = "ready" /\ Connected /\ gen \in Gen /\ toClient[gen] # <<>>
        /\ m.kind \in {"ack", "error", "reject", "open", "drain"}
        /\ m.kind # "drain" => m.reg \in Reg /\ id \in ServiceId
    <2>1. client = "ready" /\ toClient[gen] # <<>> /\ m.kind \in {"ack", "error", "reject", "open", "drain"}
      BY DEF ReadMessage, AckFound, AckMissing, ReadError, ReadReject, ReadOpen, ReadDrain, Incoming
    <2>2. Connected BY <2>1 DEF Connected
    <2> QED BY <2>1, <2>2, ReadTypes, MessageTypes
  <1>1. CASE AckFound
    <2>0. m.kind = "ack" BY <1>1 DEF AckFound, Incoming
    <2> HIDE DEF m
    <2>1. UNCHANGED <<clientVars, born, tombs, commands, asks, cause>> BY <1>1 DEF AckFound
    <2>2. PICK r \in Found(id) :
            /\ Release({r})
            /\ \/ /\ Answer({r}, "disconnected")
                  /\ UNCHANGED <<desired, active, binds, leaked>>
               \/ Commits(r) /\ Commit(r, m) /\ UNCHANGED leaked
               \/ Cleanup(id) /\ UNCHANGED <<desired, active, binds, reply>>
      BY <1>1 DEF AckFound, m
    <2>3. r \in Reg /\ r \in Unacknowledged BY <2>2, FoundTypes
    <2>4. /\ slot' \in Reg \cup {None} /\ inFlight' \subseteq inFlight /\ armed' \subseteq armed
          /\ Unacknowledged' = Unacknowledged \ {r} /\ slot' \in {slot, None}
      BY <2>2, ReleaseTypes
    <2>5. CASE Answer({r}, "disconnected") /\ UNCHANGED <<desired, active, binds, leaked>>
      <3>1. "disconnected" \in Replies BY DEF Replies, Failures
      <3>2. reply' \in [Reg -> Replies] BY <2>5, <3>1, AnswerTypes
      <3>3. Ends BY <2>1, <2>4, <2>5 DEF Ends
      <3>4. CallTypes' /\ BindTypes' BY <2>1, <2>5, <3>2 DEF Types, CallTypes, BindTypes
      <3> QED BY <3>3, <3>4, EndsKept
    <2>6. CASE Commits(r) /\ Commit(r, m) /\ UNCHANGED leaked
      <3>1. reply' \in [Reg -> Replies]
        <4>1. "ok" \in Replies /\ "missed" \in Replies BY DEF Replies
        <4>2. PICK result \in {"ok", "missed"} : Answer({r}, result) BY <2>6 DEF Commit
        <4> QED BY <4>1, <4>2, AnswerTypes
      <3>2. /\ active' = active \cup {r} /\ desired' = desired \cup {r}
            /\ binds' = binds \cup {<<r, m.reg>>}
        BY <2>6 DEF Commit
      <3>3. m.reg \in Reg BY <1>0, <2>0
      <3>4. TableTypes' BY <2>1, <2>3, <2>4, <3>2 DEF Types, TableTypes
      <3>5. Numbered' BY <2>1, <2>4 DEF Types, Numbered, Connected
      <3>6. CallTypes' BY <2>1, <3>1 DEF Types, CallTypes
      <3>7. BindTypes' BY <2>1, <2>3, <2>6, <3>2, <3>3 DEF Types, BindTypes
      <3>8. CurrentGeneration' BY <2>1, <2>4 DEF CurrentGeneration, Connected
      <3>9. reply'[r] \in {"ok", "missed"}
        <4>1. PICK result \in {"ok", "missed"} : Answer({r}, result) BY <2>6 DEF Commit
        <4> QED BY <2>3, <2>6, <4>1 DEF Answer, Commits
      <3>10. Moves(r) BY <2>1, <2>3, <2>4, <3>2, <3>9 DEF Moves
      <3> QED BY <2>3, <3>4, <3>5, <3>6, <3>7, <3>8, <3>10 DEF Kept
    <2>7. CASE Cleanup(id) /\ UNCHANGED <<desired, active, binds, reply>>
      <3>1. leaked' \subseteq ServiceId BY <1>0, <2>0, <2>7, CleanupTypes
      <3>2. Ends BY <2>1, <2>4, <2>7 DEF Ends
      <3>3. CallTypes' /\ BindTypes' BY <2>1, <2>7, <3>1 DEF Types, CallTypes, BindTypes
      <3> QED BY <3>2, <3>3, EndsKept
    <2> QED BY <2>2, <2>5, <2>6, <2>7
  <1>2. CASE AckMissing
    <2>0. m.kind = "ack" BY <1>2 DEF AckMissing, Incoming
    <2> HIDE DEF m
    <2>1. /\ UNCHANGED <<gen, mode, todo, asked, txnVars, desired, active, callVars>>
          /\ tombs' \subseteq tombs
          /\ \/ LeaveDirty("unexpected", m.reg) /\ UNCHANGED leaked
             \/ Cleanup(id) /\ UNCHANGED <<client, binds, cause>>
             \/ UNCHANGED <<leaked, client, binds, cause>>
      BY <1>2 DEF AckMissing, m
    <2>2. CallTypes' BY <2>1 DEF Types, CallTypes
    <2>3. CASE LeaveDirty("unexpected", m.reg) /\ UNCHANGED leaked
      <3>1. "unexpected" \in Causes /\ m.reg \in Reg BY <1>0, <2>0 DEF Causes
      <3>2. /\ client' \in {"down", "stopped"} /\ binds' = {}
            /\ cause' \in [why : Causes, reg : Reg \cup {None}]
        BY <2>3, <3>1, LeaveErrorEffect
      <3>3. Ends BY <2>1, <3>2 DEF Ends
      <3>4. BindTypes' BY <2>3, <3>2 DEF Types, BindTypes
      <3> QED BY <2>2, <3>3, <3>4, EndsKept
    <2>4. CASE (Cleanup(id) \/ UNCHANGED leaked) /\ UNCHANGED <<client, binds, cause>>
      <3>1. leaked' \subseteq ServiceId
        BY <1>0, <2>0, <2>4, CleanupTypes DEF Types, BindTypes
      <3>2. Ends BY <2>1, <2>4 DEF Ends
      <3>3. BindTypes' BY <2>4, <3>1 DEF Types, BindTypes
      <3> QED BY <2>2, <3>2, <3>3, EndsKept
    <2> QED BY <2>1, <2>3, <2>4
  <1>3. CASE ReadError
    <2>0. m.kind = "error" BY <1>3 DEF ReadError, Incoming
    <2> HIDE DEF m
    <2>1. /\ UNCHANGED <<gen, mode, todo, asked, born, desired, active, tombs, leaked, commands, asks>>
          /\ \/ /\ Release({slot}) /\ Answer({slot}, ErrorOf(m.code))
                /\ UNCHANGED <<client, binds, cause>>
             \/ /\ LeaveForGood("unattributed", m.reg)
                /\ UNCHANGED <<slot, inFlight, armed>>
      BY <1>3 DEF ReadError, m
    <2>2. CASE /\ Release({slot}) /\ Answer({slot}, ErrorOf(m.code))
               /\ UNCHANGED <<client, binds, cause>>
      <3>1. ErrorOf(m.code) \in Replies BY ErrorTypes DEF Replies
      <3>2. reply' \in [Reg -> Replies] BY <2>2, <3>1, AnswerTypes
      <3>3. /\ inFlight' \subseteq inFlight /\ armed' \subseteq armed /\ slot' \in {slot, None}
        BY <2>2, ReleaseTypes
      <3>4. Ends BY <2>1, <2>2, <3>3 DEF Ends
      <3>5. CallTypes' /\ BindTypes' BY <2>1, <2>2, <3>2 DEF Types, CallTypes, BindTypes
      <3> QED BY <3>4, <3>5, EndsKept
    <2>3. CASE /\ LeaveForGood("unattributed", m.reg)
               /\ UNCHANGED <<slot, inFlight, armed>>
      <3>1. "unattributed" \in Causes /\ m.reg \in Reg BY <1>0, <2>0 DEF Causes
      <3>2. /\ client' \in {"down", "stopped"} /\ binds' = {}
            /\ cause' \in [why : Causes, reg : Reg \cup {None}]
            /\ reply' \in [Reg -> Replies]
        BY <2>3, <3>1, LeaveErrorEffect
      <3>3. Ends BY <2>1, <2>3, <3>2 DEF Ends
      <3>4. CallTypes' /\ BindTypes' BY <2>1, <3>2 DEF Types, CallTypes, BindTypes
      <3> QED BY <3>3, <3>4, EndsKept
    <2> QED BY <2>1, <2>2, <2>3
  <1>4. CASE ReadReject
    <2>0. m.kind = "reject" BY <1>4 DEF ReadReject, Incoming
    <2> HIDE DEF m
    <2> DEFINE found == Found(id)
    <2>1. /\ UNCHANGED <<gen, mode, todo, asked, born, desired, active, leaked, commands, asks>>
          /\ Release(found)
          /\ Answer(found, ErrorOf(m.code)) \/ Answer(found, "disconnected")
          /\ tombs' \subseteq tombs
          /\ LeaveDirty("unexpected", m.reg) \/ UNCHANGED <<client, binds, cause>>
      BY <1>4 DEF ReadReject, m
    <2>2. ErrorOf(m.code) \in Replies /\ "disconnected" \in Replies
      BY ErrorTypes DEF Replies, Failures
    <2>3. reply' \in [Reg -> Replies] BY <2>1, <2>2, AnswerTypes
    <2>4. /\ inFlight' \subseteq inFlight /\ armed' \subseteq armed /\ slot' \in {slot, None}
      BY <2>1, ReleaseTypes
    <2>5. CallTypes' BY <2>1, <2>3 DEF Types, CallTypes
    <2>6. CASE LeaveDirty("unexpected", m.reg)
      <3>1. "unexpected" \in Causes /\ m.reg \in Reg BY <1>0, <2>0 DEF Causes
      <3>2. /\ client' \in {"down", "stopped"} /\ binds' = {}
            /\ cause' \in [why : Causes, reg : Reg \cup {None}]
        BY <2>6, <3>1, LeaveErrorEffect
      <3>3. Ends BY <2>1, <2>4, <3>2 DEF Ends
      <3>4. BindTypes' BY <2>1, <3>2 DEF Types, BindTypes
      <3> QED BY <2>5, <3>3, <3>4, EndsKept
    <2>7. CASE UNCHANGED <<client, binds, cause>>
      <3>1. Ends BY <2>1, <2>4, <2>7 DEF Ends
      <3>2. BindTypes' BY <2>1, <2>7 DEF Types, BindTypes
      <3> QED BY <2>5, <3>1, <3>2, EndsKept
    <2> QED BY <2>1, <2>6, <2>7
  <1>5. CASE ReadOpen
    <2>1. Ends BY <1>5 DEF ReadOpen, Ends
    <2>2. CallTypes' /\ BindTypes' BY <1>5 DEF ReadOpen, Types, CallTypes, BindTypes
    <2> QED BY <2>1, <2>2, EndsKept
  <1>6. CASE ReadDrain
    <2>1. "disconnected" \in Replies /\ "drain" \in Causes BY DEF Replies, Failures, Causes
    <2>2. /\ LeaveClean({}, "disconnected", "drain")
          /\ UNCHANGED <<gen, mode, todo, asked, born, desired, leaked, commands, asks>>
      BY <1>6 DEF ReadDrain
    <2>3. /\ client' = "down" /\ active' = {} /\ tombs' = {} /\ binds' = {}
          /\ inFlight' \subseteq inFlight /\ armed' \subseteq armed
          /\ reply' \in [Reg -> Replies]
          /\ cause' \in [why : Causes, reg : Reg \cup {None}]
      BY <2>1, <2>2, LeaveCleanEffect
    <2>4. slot' \in {slot, None} BY <2>2, ReleaseTypes DEF LeaveClean
    <2>5. Ends BY <2>2, <2>3, <2>4 DEF Ends
    <2>6. CallTypes' /\ BindTypes' BY <2>2, <2>3 DEF Types, CallTypes, BindTypes
    <2> QED BY <2>5, <2>6, EndsKept
  <1> QED BY <1>1, <1>2, <1>3, <1>4, <1>5, <1>6 DEF ReadMessage

\* Deadlines.
LEMMA KeptExpire ==
  ASSUME Types, CurrentGeneration, NEW R \in SUBSET Reg, ExpireOverdue(R)
  PROVE  Kept
  <1>0. "timeout" \in Replies /\ "left" \in Causes BY DEF Replies, Failures, Causes
  <1>1. UNCHANGED <<gen, mode, todo, asked, born, desired, leaked, commands, asks>>
    BY DEF ExpireOverdue
  <1>2. CASE LeaveClean({}, "timeout", "left")
    <2>1. /\ client' = "down" /\ active' = {} /\ tombs' = {} /\ binds' = {}
          /\ inFlight' \subseteq inFlight /\ armed' \subseteq armed
          /\ reply' \in [Reg -> Replies]
          /\ cause' \in [why : Causes, reg : Reg \cup {None}]
      BY <1>0, <1>2, LeaveCleanEffect
    <2>2. slot' \in {slot, None} BY <1>2, ReleaseTypes DEF LeaveClean
    <2>3. Ends BY <1>1, <2>1, <2>2 DEF Ends
    <2>4. CallTypes' /\ BindTypes' BY <1>1, <2>1 DEF Types, CallTypes, BindTypes
    <2> QED BY <2>3, <2>4, EndsKept
  <1>3. CASE /\ Release(R) /\ Answer(R, "timeout")
             /\ UNCHANGED <<client, active, tombs, binds, cause>>
    <2>1. reply' \in [Reg -> Replies] BY <1>0, <1>3, AnswerTypes
    <2>2. inFlight' \subseteq inFlight /\ armed' \subseteq armed /\ slot' \in {slot, None}
      BY <1>3, ReleaseTypes
    <2>3. Ends BY <1>1, <1>3, <2>2 DEF Ends
    <2>4. CallTypes' /\ BindTypes' BY <1>1, <1>3, <2>1 DEF Types, CallTypes, BindTypes
    <2> QED BY <2>3, <2>4, EndsKept
  <1> QED BY <1>2, <1>3 DEF ExpireOverdue

\* begin, whether or not the write succeeds.
LEMMA KeptBegin ==
  ASSUME Types, CurrentGeneration, NEW r \in Reg,
         Register(r) \/ RegisterWriteError(r) \/ RegisterWriteTimeout(r)
  PROVE  Kept
  <1> USE DEF clientVars, txnVars, stateVars, callVars
  <1>1. /\ Begins(r) /\ client = "ready" /\ Connected /\ gen \in Gen
        /\ commands' = Tail(commands) /\ commands # <<>>
        /\ born' = [born EXCEPT ![r] = gen]
        /\ UNCHANGED <<gen, mode, todo, asked, desired, leaked, asks>>
    <2>1. /\ Begins(r) /\ commands' = Tail(commands) /\ born' = [born EXCEPT ![r] = gen]
          /\ UNCHANGED <<gen, mode, todo, asked, desired, leaked, asks>>
      BY DEF Register, RegisterWriteError, RegisterWriteTimeout
    <2>2. client = "ready" /\ commands # <<>> BY <2>1 DEF Begins, NextCommand
    <2>3. Connected BY <2>2 DEF Connected
    <2> QED BY <2>1, <2>2, <2>3 DEF Types, Numbered
  <1>2. commands' \in Seq(Command) BY <1>1, CommandTypes
  <1>3. /\ born' \in [Reg -> 0..MaxGen]
        /\ \A q \in Reg : born'[q] = IF q = r THEN gen ELSE born[q]
    BY <1>1, Bounds DEF Types, Numbered, Gen
  <1>4. "timeout" \in Replies /\ "waiting" \in Replies /\ "left" \in Causes
    BY DEF Replies, Failures, Causes, Waiting
  <1>5. IdOf[r] \in ServiceId BY RegAssumption
  <1>6. ASSUME /\ client' \in {client, "down"}
               /\ slot' \in {slot, None, r} /\ armed' \subseteq armed \cup {r}
               /\ \/ inFlight' \subseteq inFlight
                  \/ mode # "legacy" /\ inFlight' = inFlight \cup {r}
               /\ tombs' \subseteq tombs \cup {<<IdOf[r], gen>>}
               /\ active' \subseteq active
               /\ reply' \in [Reg -> Replies]
               /\ BindTypes'
        PROVE  Kept
    <2>1. TableTypes' BY <1>1, <1>6 DEF Types, TableTypes
    <2>2. Unacknowledged' \subseteq Unacknowledged \cup {r} /\ Unacknowledged \subseteq Reg
      BY <1>6 DEF Unacknowledged, Types, TableTypes
    <2>3. tombs' \subseteq ServiceId \X Gen BY <1>1, <1>5, <1>6 DEF Types, Numbered
    <2>4. \A q \in Unacknowledged' : born'[q] \in Gen
      BY <1>1, <1>3, <2>2 DEF Types, Numbered
    <2>5. Numbered' BY <1>1, <1>3, <2>3, <2>4 DEF Numbered
    <2>6. CallTypes' BY <1>1, <1>2, <1>6 DEF Types, CallTypes
    <2>7. CurrentGeneration' BY <1>1, <1>3, <1>6, <2>2 DEF CurrentGeneration
    <2>8. Grows(r) BY <1>1, <1>3, <1>6, <2>2 DEF Grows
    <2> QED BY <1>6, <2>1, <2>5, <2>6, <2>7, <2>8 DEF Kept
  <1>7. CASE Register(r)
    <2>1. reply' \in [Reg -> Replies] BY <1>4, <1>7 DEF Register, Types, CallTypes
    <2>2. BindTypes' BY <1>7 DEF Register, Types, BindTypes
    <2>3. /\ client' = client /\ active' = active /\ tombs' \subseteq tombs
          /\ slot' \in {slot, r} /\ armed' = armed \cup {r}
          /\ \/ inFlight' \subseteq inFlight
             \/ mode # "legacy" /\ inFlight' = inFlight \cup {r}
      BY <1>7 DEF Register, Armed
    <2> QED BY <1>6, <2>1, <2>2, <2>3
  <1>8. CASE RegisterWriteError(r)
    <2>1. reply' \in [Reg -> Replies] BY <1>4, <1>8 DEF RegisterWriteError, Types, CallTypes
    <2>2. /\ client' = "down" /\ binds' = {} /\ cause' \in [why : Causes, reg : Reg \cup {None}]
      <3>1. cause' = [why |-> "left", reg |-> r] /\ client' = "down" /\ binds' = {}
        BY <1>8 DEF RegisterWriteError, LeaveDirty
      <3> QED BY <1>4, <3>1
    <2>3. BindTypes' BY <1>1, <2>2 DEF Types, BindTypes
    <2>4. /\ active' = active /\ tombs' \subseteq tombs
          /\ slot' \in {slot, r} /\ armed' = armed
          /\ \/ inFlight' \subseteq inFlight
             \/ mode # "legacy" /\ inFlight' = inFlight \cup {r}
      BY <1>8 DEF RegisterWriteError
    <2> QED BY <1>6, <2>1, <2>2, <2>3, <2>4
  <1>9. CASE RegisterWriteTimeout(r)
    <2>1. CASE LeaveClean({r}, "timeout", "left")
      <3>1. /\ client' = "down" /\ active' = {} /\ tombs' = {} /\ binds' = {}
            /\ inFlight' \subseteq inFlight /\ armed' \subseteq armed
            /\ reply' \in [Reg -> Replies]
            /\ cause' \in [why : Causes, reg : Reg \cup {None}]
        BY <1>4, <2>1, LeaveCleanEffect
      <3>2. slot' \in {slot, None} BY <2>1, ReleaseTypes DEF LeaveClean
      <3>3. BindTypes' BY <1>1, <3>1 DEF Types, BindTypes
      <3> QED BY <1>6, <3>1, <3>2, <3>3
    <2>2. CASE /\ tombs' = WithTomb(IdOf[r], gen) /\ Answer({r}, "timeout")
               /\ UNCHANGED <<client, active, binds, cause, slot, inFlight, armed>>
      <3>1. reply' \in [Reg -> Replies] BY <1>4, <2>2, AnswerTypes
      <3>2. tombs' \subseteq tombs \cup {<<IdOf[r], gen>>} BY <1>1, <1>5, <2>2, TombTypes
      <3>3. BindTypes' BY <1>1, <2>2 DEF Types, BindTypes
      <3> QED BY <1>6, <2>2, <3>1, <3>2, <3>3
    <2> QED BY <1>9, <2>1, <2>2 DEF RegisterWriteTimeout
  <1> QED BY <1>7, <1>8, <1>9

\* Refusals, unregistration and commands without a Session.
LEMMA KeptCommand ==
  ASSUME Types, CurrentGeneration,
         RefuseRegister \/ UnregisterActive \/ UnregisterOther \/ OfflineCommand
  PROVE  Kept
  <1> USE DEF clientVars, txnVars, stateVars, callVars
  <1>1. commands # <<>> /\ commands' = Tail(commands)
    BY DEF RefuseRegister, UnregisterActive, UnregisterOther, OfflineCommand, NextCommand
  <1>2. commands' \in Seq(Command) BY <1>1, CommandTypes
  <1>3. /\ "exhausted" \in Replies /\ "exists" \in Replies /\ "disconnected" \in Replies
        /\ "left" \in Causes
    BY DEF Replies, Failures, Causes
  <1>4. CASE RefuseRegister
    <2> DEFINE r == Head(commands).reg
    <2>1. /\ UNCHANGED <<clientVars, txnVars, desired, active, binds, leaked, asks, cause>>
          /\ tombs' \subseteq tombs
          /\ Answer({r}, "exhausted") \/ Answer({r}, "exists") \/ UNCHANGED reply
      BY <1>4 DEF RefuseRegister
    <2>2. reply' \in [Reg -> Replies] BY <1>3, <2>1, AnswerTypes DEF Types, CallTypes
    <2>3. Ends BY <2>1 DEF Ends
    <2>4. CallTypes' /\ BindTypes' BY <1>2, <2>1, <2>2 DEF Types, CallTypes, BindTypes
    <2> QED BY <2>3, <2>4, EndsKept
  <1>5. ASSUME NEW id \in ServiceId, Unregister(id), UNCHANGED <<gen, mode, todo, asked, born, asks>>,
               client' \in {client, "down"}, BindTypes'
        PROVE  Kept
    <2>1. /\ desired' \subseteq desired /\ active' \subseteq active
          /\ inFlight' \subseteq inFlight /\ armed' \subseteq armed
          /\ reply' \in [Reg -> Replies]
          /\ \/ tombs' \subseteq tombs
             \/ slot \in Unacknowledged /\ tombs' \subseteq tombs \cup {<<id, born[slot]>>}
      BY <1>5, UnregisterEffect
    <2>2. slot' \in {slot, None} BY <1>5, ReleaseTypes DEF Unregister
    <2>3. Ends BY <1>5, <2>1, <2>2 DEF Ends
    <2>4. CallTypes' BY <1>2, <1>5, <2>1 DEF Types, CallTypes
    <2> QED BY <1>5, <2>3, <2>4, EndsKept
  <1>6. CASE UnregisterActive
    <2> DEFINE id == Head(commands).id
    <2>1. id \in ServiceId BY <1>6, CommandTypes DEF UnregisterActive, NextCommand
    <2>2. /\ Unregister(id) /\ UNCHANGED <<gen, mode, todo, asked, born, asks, leaked>>
          /\ \/ binds' \subseteq binds /\ UNCHANGED <<client, cause>>
             \/ LeaveDirty("left", None)
      BY <1>6 DEF UnregisterActive
    <2>3. client' \in {client, "down"} /\ BindTypes'
      <3>1. CASE binds' \subseteq binds /\ UNCHANGED <<client, cause>>
        BY <2>2, <3>1 DEF Types, BindTypes
      <3>2. CASE LeaveDirty("left", None)
        <4>1. client' = "down" /\ binds' = {} /\ cause' \in [why : Causes, reg : Reg \cup {None}]
          BY <1>3, <3>2, LeaveErrorEffect DEF LeaveDirty
        <4> QED BY <2>2, <4>1 DEF Types, BindTypes
      <3> QED BY <2>2, <3>1, <3>2
    <2> QED BY <1>5, <2>1, <2>2, <2>3
  <1>7. CASE UnregisterOther
    <2> DEFINE id == Head(commands).id
    <2>1. id \in ServiceId BY <1>7, CommandTypes DEF UnregisterOther, NextCommand
    <2>2. Unregister(id) /\ Cleanup(id) /\ UNCHANGED <<clientVars, born, binds, asks, cause>>
      BY <1>7 DEF UnregisterOther
    <2>3. leaked' \subseteq ServiceId BY <2>1, <2>2, CleanupTypes
    <2>4. BindTypes' BY <2>2, <2>3 DEF Types, BindTypes
    <2> QED BY <1>5, <2>1, <2>2, <2>4
  <1>8. CASE OfflineCommand
    <2> DEFINE c == Head(commands)
    <2>1. UNCHANGED <<clientVars, born, binds, leaked, asks, cause>> BY <1>8 DEF OfflineCommand
    <2>2. BindTypes' BY <2>1 DEF Types, BindTypes
    <2>3. CASE c.op = "register"
      <3>1. Answer({c.reg}, "disconnected") /\ UNCHANGED <<slot, inFlight, armed, tombs, desired, active>>
        BY <1>8, <2>3 DEF OfflineCommand
      <3>2. reply' \in [Reg -> Replies] BY <1>3, <3>1, AnswerTypes
      <3>3. Ends BY <2>1, <3>1 DEF Ends
      <3>4. CallTypes' BY <1>2, <2>1, <3>2 DEF Types, CallTypes
      <3> QED BY <2>2, <3>3, <3>4, EndsKept
    <2>4. CASE c.op # "register"
      <3>1. c.id \in ServiceId BY <1>1, <2>4, CommandTypes
      <3>2. Unregister(c.id) BY <1>8, <2>4 DEF OfflineCommand
      <3> QED BY <1>5, <2>1, <2>2, <3>1, <3>2
    <2> QED BY <2>3, <2>4
  <1> QED BY <1>4, <1>6, <1>7, <1>8

\* What the application does.
LEMMA KeptCall ==
  ASSUME Types, CurrentGeneration,
         \/ \E r \in Reg : CallRegister(r) \/ GiveUp(r)
         \/ \E id \in ServiceId : CallUnregister(id)
  PROVE  Kept
  <1> USE DEF clientVars, txnVars, stateVars, callVars
  <1>1. ASSUME NEW r \in Reg, CallRegister(r) PROVE Kept
    <2>1. Ends BY <1>1 DEF CallRegister, Ends
    <2>2. BindTypes' BY <1>1 DEF CallRegister, Types, BindTypes
    <2>3. "queued" \in Replies /\ "disconnected" \in Replies BY DEF Replies, Failures, Waiting
    <2>4. reply' \in [Reg -> Replies] BY <1>1, <2>3 DEF CallRegister, Types, CallTypes
    <2>5. [op |-> "register", reg |-> r] \in Command BY DEF Command
    <2>6. commands' \in Seq(Command) BY <1>1, <2>5 DEF CallRegister, Types, CallTypes
    <2>7. CallTypes' BY <1>1, <2>4, <2>6 DEF CallRegister, Types, CallTypes
    <2> QED BY <2>1, <2>2, <2>7, EndsKept
  <1>2. ASSUME NEW r \in Reg, GiveUp(r) PROVE Kept
    <2>1. Ends BY <1>2 DEF GiveUp, Ends
    <2>2. BindTypes' BY <1>2 DEF GiveUp, Types, BindTypes
    <2>3. "dropped" \in Replies BY DEF Replies
    <2>4. CallTypes' BY <1>2, <2>3 DEF GiveUp, Types, CallTypes
    <2> QED BY <2>1, <2>2, <2>4, EndsKept
  <1>3. ASSUME NEW id \in ServiceId, CallUnregister(id) PROVE Kept
    <2>1. Ends BY <1>3 DEF CallUnregister, Ends
    <2>2. BindTypes' BY <1>3 DEF CallUnregister, Types, BindTypes
    <2>3. [op |-> "unregister", id |-> id] \in Command BY DEF Command
    <2>4. commands' \in Seq(Command) BY <1>3, <2>3 DEF CallUnregister, Types, CallTypes
    <2>5. asks' \in 0..MaxUnregisters BY <1>3, Bounds DEF CallUnregister, Types, CallTypes
    <2>6. reply' \in [Reg -> Replies] BY <1>3 DEF CallUnregister, Types, CallTypes
    <2>7. CallTypes' BY <2>4, <2>5, <2>6 DEF CallTypes
    <2> QED BY <2>1, <2>2, <2>7, EndsKept
  <1> QED BY <1>1, <1>2, <1>3

\* A new Session starts from nothing.
LEMMA KeptConnect ==
  ASSUME Types, CurrentGeneration, NEW m \in Modes, Connect(m)
  PROVE  Kept /\ Shrinks
  <1>1. "disconnected" \in Replies BY DEF Replies, Failures
  <1>2. reply' \in [Reg -> Replies] BY <1>1, AnswerTypes DEF Connect, SetMode
  <1>3. /\ slot' \in Reg \cup {None} /\ inFlight' \subseteq inFlight /\ armed' \subseteq armed
        /\ Unacknowledged' = {}
    BY ReleaseTypes DEF Connect, SetMode
  <1>4. gen' = gen + 1 /\ gen' \in Gen
    BY Bounds DEF Connect, CanNumber, Types, TableTypes, Gen
  <1>5. TableTypes'
    <2>1. gen' \in 0..MaxGen BY <1>4, Bounds DEF Gen
    <2>2. mode' \in {"legacy", "correlated"} BY RegAssumption DEF Connect, SetMode
    <2> QED BY <1>3, <2>1, <2>2 DEF Connect, Types, TableTypes
  <1>6. Numbered' BY <1>3, <1>4 DEF Connect, SetMode, Types, Numbered
  <1>7. CallTypes' BY <1>2 DEF Connect, Types, CallTypes
  <1>8. BindTypes' BY DEF Connect, Types, BindTypes
  <1>9. CurrentGeneration' BY <1>3 DEF CurrentGeneration, Connect, SetMode
  <1>10. Shrinks BY <1>3 DEF Shrinks, Connect
  <1> QED BY <1>5, <1>6, <1>7, <1>8, <1>9, <1>10 DEF Kept

(***************************************************************************)
(* The server and the stream.                                              *)
(***************************************************************************)

\* What a connected client writes.
LEMMA SendTypes ==
  ASSUME Types, Connected, NEW msgs \in Seq(ToServer), Send(msgs)
  PROVE  toServer' \in [Gen -> Seq(ToServer)]
  <1>1. gen \in Gen /\ toServer \in [Gen -> Seq(ToServer)] BY DEF Types, Numbered, WireTypes
  <1>2. toServer[gen] \o msgs \in Seq(ToServer) BY <1>1
  <1> QED BY <1>1, <1>2 DEF Send

\* The messages a client writes, and what a timeout leaves of them.
LEMMA WrittenTypes ==
  /\ \A r \in Reg : [kind |-> "register", reg |-> r] \in ToServer
  /\ \A id \in ServiceId : [kind |-> "unregister", id |-> id] \in ToServer
  /\ [kind |-> "drain"] \in ToServer /\ [kind |-> "garbled"] \in ToServer
  /\ \A m \in ToServer : <<m>> \in Seq(ToServer)
  /\ \A m \in ToServer : LateWrites(m) \subseteq Seq(ToServer)
  <1>1. /\ \A r \in Reg : [kind |-> "register", reg |-> r] \in ToServer
        /\ \A id \in ServiceId : [kind |-> "unregister", id |-> id] \in ToServer
        /\ [kind |-> "drain"] \in ToServer /\ [kind |-> "garbled"] \in ToServer
    BY DEF ToServer
  <1>2. \A m \in ToServer : <<m>> \in Seq(ToServer) OBVIOUS
  <1>3. <<>> \in Seq(ToServer) OBVIOUS
  <1> QED BY <1>1, <1>2, <1>3 DEF LateWrites

LEMMA CleanupWrites ==
  ASSUME Types, Connected, NEW id \in ServiceId, Cleanup(id)
  PROVE  toServer' \in [Gen -> Seq(ToServer)]
  <1> DEFINE m == [kind |-> "unregister", id |-> id]
  <1>1. <<m>> \in Seq(ToServer) /\ LateWrites(m) \subseteq Seq(ToServer) BY WrittenTypes
  <1> HIDE DEF m
  <1>2. Send(<<m>>) \/ \E late \in LateWrites(m) : Send(late) BY DEF Cleanup, m
  <1> QED BY <1>1, <1>2, SendTypes

\* Reading and hanging up shorten what a client has received.
LEMMA ReadShortens ==
  ASSUME Types,
         \/ UNCHANGED toClient
         \/ HangUp
         \/ Connected /\ toClient[gen] # <<>> /\ Consume
  PROVE  toClient' \in [Gen -> Seq(ToClient)]
  <1>0. toClient \in [Gen -> Seq(ToClient)] BY DEF Types, WireTypes
  <1>1. CASE UNCHANGED toClient BY <1>0, <1>1
  <1>2. CASE HangUp
    <2>1. <<>> \in Seq(ToClient) OBVIOUS
    <2>2. gen # 0 => gen \in Gen BY Bounds DEF Types, TableTypes, Gen
    <2> QED BY <1>0, <1>2, <2>1, <2>2 DEF HangUp
  <1>3. CASE Connected /\ toClient[gen] # <<>> /\ Consume
    <2>1. Tail(toClient[gen]) \in Seq(ToClient) /\ gen \in Gen BY <1>3, ReadTypes
    <2>2. <<>> \in Seq(ToClient) OBVIOUS
    <2> QED BY <1>0, <1>3, <2>1, <2>2 DEF Consume
  <1> QED BY <1>1, <1>2, <1>3

ClientStep ==
  \/ GenerationSpent \/ InitStep \/ ReadMessage \/ TakeCommand \/ LoseConnection \/ Shutdown
  \/ \E R \in SUBSET Reg : ExpireOverdue(R)
  \/ \E r \in Reg : CallRegister(r) \/ GiveUp(r)
  \/ \E id \in ServiceId : CallUnregister(id)

\* A client's step leaves the server alone and writes what it may write.
LEMMA WireClient ==
  ASSUME Types, ClientStep
  PROVE  ServerTypes' /\ WireTypes' /\ UNCHANGED serverVars
  <1> USE DEF clientVars, txnVars, stateVars, callVars, wireVars
  <1>0. UNCHANGED serverVars
    <2>1. GenerationSpent \/ InitStep \/ LoseConnection \/ Shutdown => UNCHANGED serverVars
      BY DEF GenerationSpent, InitStep, InitRegister, InitAck, InitOther, Activate, LoseConnection, Shutdown
    <2>2. ReadMessage => UNCHANGED serverVars
      BY DEF ReadMessage, AckFound, AckMissing, ReadError, ReadReject, ReadOpen, ReadDrain
    <2>3. TakeCommand => UNCHANGED serverVars
      BY DEF TakeCommand, RefuseRegister, Register, RegisterWriteError, RegisterWriteTimeout,
             UnregisterActive, UnregisterOther, OfflineCommand
    <2>4. (\E R \in SUBSET Reg : ExpireOverdue(R)) \/ (\E r \in Reg : CallRegister(r) \/ GiveUp(r))
            \/ (\E id \in ServiceId : CallUnregister(id)) => UNCHANGED serverVars
      BY DEF ExpireOverdue, CallRegister, GiveUp, CallUnregister
    <2> QED BY <2>1, <2>2, <2>3, <2>4 DEF ClientStep
  <1>1. ServerTypes' BY <1>0 DEF Types, ServerTypes, serverVars
  <1>2. \/ UNCHANGED toClient
        \/ HangUp
        \/ Connected /\ toClient[gen] # <<>> /\ Consume
    <2>1. GenerationSpent \/ InitStep \/ LoseConnection \/ Shutdown
            => UNCHANGED toClient \/ HangUp \/ (Connected /\ toClient[gen] # <<>> /\ Consume)
      BY DEF GenerationSpent, InitStep, InitRegister, InitAck, InitOther, Activate, LoseConnection,
             Shutdown, Incoming, Connected
    <2>2. ReadMessage => Connected /\ toClient[gen] # <<>> /\ Consume
      BY DEF ReadMessage, AckFound, AckMissing, ReadError, ReadReject, ReadOpen, ReadDrain,
             Incoming, Connected
    <2>3. TakeCommand => UNCHANGED toClient \/ HangUp
      BY DEF TakeCommand, RefuseRegister, Register, RegisterWriteError, RegisterWriteTimeout,
             UnregisterActive, UnregisterOther, OfflineCommand
    <2>4. (\E R \in SUBSET Reg : ExpireOverdue(R)) \/ (\E r \in Reg : CallRegister(r) \/ GiveUp(r))
            \/ (\E id \in ServiceId : CallUnregister(id)) => UNCHANGED toClient \/ HangUp
      BY DEF ExpireOverdue, CallRegister, GiveUp, CallUnregister
    <2> QED BY <2>1, <2>2, <2>3, <2>4 DEF ClientStep
  <1>3. toClient' \in [Gen -> Seq(ToClient)] BY <1>2, ReadShortens
  <1>4. \/ UNCHANGED toServer
        \/ Connected /\ \E r \in Reg : Send(<<[kind |-> "register", reg |-> r]>>)
        \/ Connected /\ \E r \in Reg : \E late \in LateWrites([kind |-> "register", reg |-> r]) : Send(late)
        \/ Connected /\ \E id \in ServiceId : Cleanup(id) \/ Send(<<[kind |-> "unregister", id |-> id]>>)
        \/ Connected /\ Send(<<[kind |-> "drain"]>>)
    <2>1. GenerationSpent \/ InitAck \/ InitOther \/ Activate \/ LoseConnection => UNCHANGED toServer
      BY DEF GenerationSpent, InitAck, InitOther, Activate, LoseConnection
    <2>2. ASSUME NEW r \in Reg, InitRegister(r)
          PROVE  Connected /\ Send(<<[kind |-> "register", reg |-> r]>>)
      BY <2>2 DEF InitRegister, Connected
    <2>3. Shutdown => UNCHANGED toServer \/ (Connected /\ Send(<<[kind |-> "drain"]>>))
      BY DEF Shutdown, Connected
    <2>4. ReadError \/ ReadReject \/ ReadOpen \/ ReadDrain => UNCHANGED toServer
      BY DEF ReadError, ReadReject, ReadOpen, ReadDrain
    <2>5. AckFound \/ AckMissing =>
            UNCHANGED toServer \/ (Connected /\ \E id \in ServiceId : Cleanup(id))
      <3> SUFFICES ASSUME AckFound \/ AckMissing
                   PROVE  UNCHANGED toServer \/ (Connected /\ \E id \in ServiceId : Cleanup(id))
        OBVIOUS
      <3> DEFINE m == Head(toClient[gen])
      <3>1. Connected /\ toClient[gen] # <<>> /\ m.kind = "ack"
        BY DEF AckFound, AckMissing, Incoming, Connected
      <3>2. IdOf[m.reg] \in ServiceId BY <3>1, ReadTypes, MessageTypes
      <3>3. UNCHANGED toServer \/ Cleanup(IdOf[m.reg]) BY DEF AckFound, AckMissing
      <3> QED BY <3>1, <3>2, <3>3
    <2>6. RefuseRegister \/ OfflineCommand => UNCHANGED toServer
      BY DEF RefuseRegister, OfflineCommand
    <2>7. ASSUME NEW r \in Reg, Register(r) \/ RegisterWriteError(r) \/ RegisterWriteTimeout(r)
          PROVE  \/ UNCHANGED toServer
                 \/ Connected /\ Send(<<[kind |-> "register", reg |-> r]>>)
                 \/ Connected /\ \E late \in LateWrites([kind |-> "register", reg |-> r]) : Send(late)
      BY <2>7 DEF Register, RegisterWriteError, RegisterWriteTimeout, Begins, Connected
    <2>8. UnregisterActive \/ UnregisterOther =>
            \/ UNCHANGED toServer
            \/ Connected /\ \E id \in ServiceId : Cleanup(id) \/ Send(<<[kind |-> "unregister", id |-> id]>>)
      <3> SUFFICES ASSUME UnregisterActive \/ UnregisterOther
                   PROVE  \/ UNCHANGED toServer
                          \/ Connected /\ \E id \in ServiceId :
                                            Cleanup(id) \/ Send(<<[kind |-> "unregister", id |-> id]>>)
        OBVIOUS
      <3> DEFINE id == Head(commands).id
      <3>1. id \in ServiceId BY CommandTypes DEF UnregisterActive, UnregisterOther, NextCommand
      <3>2. UNCHANGED toServer \/ Cleanup(id) \/ Send(<<[kind |-> "unregister", id |-> id]>>)
        BY DEF UnregisterActive, UnregisterOther
      <3>3. Connected BY DEF UnregisterActive, UnregisterOther, Connected
      <3> QED BY <3>1, <3>2, <3>3
    <2>9. (\E R \in SUBSET Reg : ExpireOverdue(R)) \/ (\E r \in Reg : CallRegister(r) \/ GiveUp(r))
            \/ (\E id \in ServiceId : CallUnregister(id)) => UNCHANGED toServer
      BY DEF ExpireOverdue, CallRegister, GiveUp, CallUnregister
    <2> QED BY <2>1, <2>2, <2>3, <2>4, <2>5, <2>6, <2>7, <2>8, <2>9
            DEF ClientStep, InitStep, ReadMessage, TakeCommand
  <1>5. toServer' \in [Gen -> Seq(ToServer)]
    <2>1. CASE UNCHANGED toServer BY <2>1 DEF Types, WireTypes
    <2>2. ASSUME Connected, NEW m \in ToServer, Send(<<m>>) PROVE toServer' \in [Gen -> Seq(ToServer)]
      BY <2>2, SendTypes, WrittenTypes
    <2>3. ASSUME Connected, NEW m \in ToServer, \E late \in LateWrites(m) : Send(late)
          PROVE  toServer' \in [Gen -> Seq(ToServer)]
      BY <2>3, SendTypes, WrittenTypes
    <2> QED BY <1>4, <2>1, <2>2, <2>3, CleanupWrites, WrittenTypes
  <1> QED BY <1>0, <1>1, <1>3, <1>5 DEF WireTypes

ServerStep(g) ==
  \/ ServerReads(g) \/ SrvShutdown(g) \/ SrvStop(g) \/ SrvGone(g)
  \/ \E r \in Reg : CloseListener(g, r) \/ SrvOpen(g, r)

\* The next step is the client's, its next Session, or one of a server.
LEMMA NextCases ==
  Next <=> (\E m \in Modes : Connect(m)) \/ ClientStep \/ (\E g \in Gen : ServerStep(g))
  BY DEF Next, ClientStep, ServerStep

\* A server never holds more Services than services_per_session allows.
ServerWithin == \A g \in Gen : Cardinality(services[g]) <= ServerLimit

\* A server's step leaves the client's tables alone.
LEMMA ServerKept ==
  ASSUME Types, CurrentGeneration, NEW g \in Gen, ServerStep(g)
  PROVE  /\ Kept /\ Shrinks
         /\ UNCHANGED <<clientVars, txnVars, stateVars, callVars, cause>>
  <1>1. UNCHANGED <<clientVars, txnVars, stateVars, callVars, cause>>
    BY DEF ServerStep, ServerReads, SrvAdmit, SrvRefuse, SrvUnregister, SrvShutdown, SrvStop,
           SrvGone, CloseListener, SrvOpen
  <1> USE DEF clientVars, txnVars, stateVars, callVars
  <1>2. Ends BY <1>1 DEF Ends
  <1>3. CallTypes' /\ BindTypes' BY <1>1 DEF Types, CallTypes, BindTypes
  <1>4. Shrinks BY <1>1 DEF Shrinks, Unacknowledged
  <1> QED BY <1>1, <1>2, <1>3, <1>4, EndsKept

\* What a server writes.
LEMMA ReplyTypes ==
  ASSUME Types, NEW g \in Gen, NEW m \in ToClient, Reply(g, m)
  PROVE  toClient' \in [Gen -> Seq(ToClient)]
  <1>1. toClient \in [Gen -> Seq(ToClient)] BY DEF Types, WireTypes
  <1>2. Append(toClient[g], m) \in Seq(ToClient) BY <1>1
  <1> QED BY <1>1, <1>2 DEF Reply

\* What a server reads next.
LEMMA ReceivedTypes ==
  ASSUME Types, NEW g \in Gen, toServer[g] # <<>>
  PROVE  /\ Head(toServer[g]) \in ToServer
         /\ Took(g) => toServer' \in [Gen -> Seq(ToServer)]
  <1>1. toServer \in [Gen -> Seq(ToServer)] BY DEF Types, WireTypes
  <1>2. Head(toServer[g]) \in ToServer /\ Tail(toServer[g]) \in Seq(ToServer) BY <1>1
  <1> QED BY <1>1, <1>2 DEF Took

\* Servers keep their types and their limit.
LEMMA WireServer ==
  ASSUME Types, ServerWithin, NEW g \in Gen, ServerStep(g)
  PROVE  ServerTypes' /\ WireTypes' /\ ServerWithin'
  <1> USE DEF serverVars, wireVars
  <1> DEFINE r == Head(toServer[g]).reg
  <1>0. /\ toServer \in [Gen -> Seq(ToServer)] /\ toClient \in [Gen -> Seq(ToClient)]
        /\ ServerTypes
    BY DEF Types, WireTypes
  <1>1. CASE SrvAdmit(g)
    <2>1. r \in Reg BY <1>1, ReceivedTypes, MessageTypes DEF SrvAdmit, Received
    <2>2. /\ services' = [services EXCEPT ![g] = @ \cup {r}]
          /\ bound' = bound \cup {<<g, r>>} /\ UNCHANGED srv
          /\ Reply(g, [kind |-> "ack", reg |-> r]) /\ Took(g) /\ toServer[g] # <<>>
          /\ ~CapacityReached(g)
      BY <1>1 DEF SrvAdmit, Received, Verdict
    <2>3. [kind |-> "ack", reg |-> r] \in ToClient BY <2>1 DEF ToClient
    <2>4. WireTypes' BY <2>2, <2>3, ReplyTypes, ReceivedTypes DEF WireTypes
    <2>5. ServerTypes' BY <1>0, <2>1, <2>2 DEF ServerTypes
    <2>6. services[g] \subseteq Reg /\ IsFiniteSet(services[g]) /\ Cardinality(services[g]) \in Nat
      BY <1>0, FS_Subset, FS_CardinalityType, RegAssumption DEF ServerTypes
    <2>7. Cardinality(services[g] \cup {r}) <= ServerLimit
      <3>1. Cardinality(services[g]) < ServerLimit BY <2>2, <2>6, Bounds DEF CapacityReached
      <3>2. \/ Cardinality(services[g] \cup {r}) = Cardinality(services[g])
            \/ Cardinality(services[g] \cup {r}) = Cardinality(services[g]) + 1
        BY <2>6, FS_AddElement
      <3> QED BY <2>6, <3>1, <3>2, Bounds
    <2>8. \A k \in Gen : services'[k] = IF k = g THEN services[g] \cup {r} ELSE services[k]
      BY <1>0, <2>2 DEF ServerTypes
    <2>9. ServerWithin' BY <2>7, <2>8 DEF ServerWithin
    <2> QED BY <2>4, <2>5, <2>9
  <1>2. CASE SrvRefuse(g)
    <2>1. r \in Reg BY <1>2, ReceivedTypes, MessageTypes DEF SrvRefuse, Received
    <2>2. /\ UNCHANGED serverVars /\ Took(g) /\ toServer[g] # <<>>
          /\ \E kind \in {"error", "reject"}, code \in Codes :
               Reply(g, [kind |-> kind, reg |-> r, code |-> code])
      <3>1. Verdict(g, r) \in Codes BY <1>2 DEF SrvRefuse, Verdict, Codes
      <3> QED BY <1>2, <3>1 DEF SrvRefuse, Received
    <2>3. \A kind \in {"error", "reject"}, code \in Codes :
            [kind |-> kind, reg |-> r, code |-> code] \in ToClient
      BY <2>1 DEF ToClient
    <2>4. WireTypes' BY <2>2, <2>3, ReplyTypes, ReceivedTypes DEF WireTypes
    <2> QED BY <1>0, <2>2, <2>4 DEF ServerTypes, ServerWithin
  <1>3. CASE SrvUnregister(g)
    <2> DEFINE id == Head(toServer[g]).id
    <2>1. /\ services' = [services EXCEPT ![g] = @ \ ById(@, id)]
          /\ UNCHANGED <<srv, bound, toClient>> /\ Took(g) /\ toServer[g] # <<>>
      BY <1>3 DEF SrvUnregister, Received, Forget
    <2>2. WireTypes' BY <1>0, <2>1, ReceivedTypes DEF WireTypes
    <2>3. ServerTypes' BY <1>0, <2>1 DEF ServerTypes
    <2>4. \A k \in Gen : services'[k] \subseteq services[k] BY <1>0, <2>1 DEF ServerTypes
    <2>5. ServerWithin'
      <3> SUFFICES ASSUME NEW k \in Gen PROVE Cardinality(services'[k]) <= ServerLimit
        BY DEF ServerWithin
      <3>1. IsFiniteSet(services[k]) /\ Cardinality(services[k]) \in Nat
        BY <1>0, FS_Subset, FS_CardinalityType, RegAssumption DEF ServerTypes
      <3>2. Cardinality(services'[k]) <= Cardinality(services[k]) /\ Cardinality(services'[k]) \in Nat
        BY <2>4, <3>1, FS_Subset, FS_CardinalityType
      <3> QED BY <3>1, <3>2, Bounds DEF ServerWithin
    <2> QED BY <2>2, <2>3, <2>5
  <1>4. CASE SrvShutdown(g)
    <2>1. [kind |-> "drain"] \in ToClient BY DEF ToClient
    <2>2. toClient' \in [Gen -> Seq(ToClient)] BY <1>4, <2>1, ReplyTypes DEF SrvShutdown
    <2>3. <<>> \in Seq(ToServer) OBVIOUS
    <2>4. toServer' \in [Gen -> Seq(ToServer)] BY <1>0, <1>4, <2>3 DEF SrvShutdown
    <2>5. ServerTypes' BY <1>0, <1>4 DEF SrvShutdown, ServerTypes
    <2> QED BY <1>4, <2>2, <2>4, <2>5 DEF SrvShutdown, WireTypes, ServerWithin
  <1>5. CASE SrvStop(g)
    <2>1. <<>> \in Seq(ToServer) OBVIOUS
    <2>2. toServer' \in [Gen -> Seq(ToServer)] BY <1>0, <1>5, <2>1 DEF SrvStop
    <2>3. ServerTypes' BY <1>0, <1>5 DEF SrvStop, ServerTypes
    <2> QED BY <1>0, <1>5, <2>2, <2>3 DEF SrvStop, WireTypes, ServerWithin
  <1>6. CASE SrvGone(g)
    <2>1. WireTypes' BY <1>0, <1>6 DEF SrvGone, WireTypes
    <2>2. ServerTypes' BY <1>0, <1>6 DEF SrvGone, ServerTypes
    <2>3. \A k \in Gen : services'[k] = IF k = g THEN {} ELSE services[k]
      BY <1>0, <1>6 DEF SrvGone, ServerTypes
    <2>4. ServerWithin' BY <2>3, FS_EmptySet, Bounds DEF ServerWithin
    <2> QED BY <2>1, <2>2, <2>4
  <1>7. ASSUME NEW q \in Reg, CloseListener(g, q) PROVE ServerTypes' /\ WireTypes' /\ ServerWithin'
    BY <1>0, <1>7 DEF CloseListener, ServerTypes, WireTypes, ServerWithin
  <1>8. ASSUME NEW q \in Reg, SrvOpen(g, q) PROVE ServerTypes' /\ WireTypes' /\ ServerWithin'
    <2>1. [kind |-> "open", reg |-> q] \in ToClient BY DEF ToClient
    <2>2. WireTypes' BY <1>0, <1>8, <2>1, ReplyTypes DEF SrvOpen, WireTypes
    <2> QED BY <1>0, <1>8, <2>2 DEF SrvOpen, ServerTypes, ServerWithin
  <1> QED BY <1>1, <1>2, <1>3, <1>4, <1>5, <1>6, <1>7, <1>8 DEF ServerStep, ServerReads

\* A client that connects finds a server.
LEMMA WireConnect ==
  ASSUME Types, ServerWithin, NEW m \in Modes, Connect(m)
  PROVE  ServerTypes' /\ WireTypes' /\ ServerWithin'
  <1>1. gen + 1 \in Gen BY Bounds DEF Connect, CanNumber, Types, TableTypes, Gen
  <1>2. ServerTypes' BY <1>1 DEF Connect, Types, ServerTypes
  <1> QED BY <1>2 DEF Connect, Types, WireTypes, ServerWithin, wireVars

(***************************************************************************)
(* The tables stay sound.                                                  *)
(***************************************************************************)

\* begin compares a registration with everything it could be confused with.
LEMMA DistinctStep ==
  ASSUME Types, Distinct, Kept
  PROVE  Distinct'
  <1>0. Unacknowledged \subseteq Reg /\ desired \subseteq Reg
    BY FoundTypes DEF Types, TableTypes
  <1>1. CASE Shrinks BY <1>1 DEF Shrinks, Distinct
  <1>2. ASSUME NEW r \in Reg, Grows(r) PROVE Distinct'
    <2>1. \A q \in desired \cup Unacknowledged : ~Same(r, q) BY <1>2 DEF Grows, Begins, Clash
    <2>2. \A q \in Reg : Same(q, r) <=> Same(r, q) BY DEF Same
    <2> QED BY <1>0, <1>2, <2>1, <2>2 DEF Grows, Distinct
  <1>3. ASSUME NEW r \in Reg, Moves(r) PROVE Distinct'
    BY <1>3 DEF Moves, Distinct
  <1> QED BY <1>1, <1>2, <1>3 DEF Kept

\* Cardinalities of sets of registrations.
LEMMA RegFinite == \A S \in SUBSET Reg : IsFiniteSet(S) /\ Cardinality(S) \in Nat
  BY FS_Subset, FS_CardinalityType, RegAssumption

LEMMA RegSmaller ==
  ASSUME NEW S \in SUBSET Reg, NEW U \in SUBSET S
  PROVE  Cardinality(U) <= Cardinality(S) /\ Cardinality(U) \in Nat /\ Cardinality(S) \in Nat
  <1>1. IsFiniteSet(S) /\ U \in SUBSET Reg BY RegFinite
  <1>2. Cardinality(U) <= Cardinality(S) BY <1>1, FS_Subset
  <1> QED BY <1>1, <1>2, RegFinite

LEMMA RegOneMore ==
  ASSUME NEW S \in SUBSET Reg, NEW r \in Reg
  PROVE  /\ Cardinality(S \cup {r}) <= Cardinality(S) + 1
         /\ Cardinality(S) \in Nat /\ Cardinality(S \cup {r}) \in Nat
  <1>1. IsFiniteSet(S) /\ Cardinality(S) \in Nat BY RegFinite
  <1>2. \/ Cardinality(S \cup {r}) = Cardinality(S)
        \/ Cardinality(S \cup {r}) = Cardinality(S) + 1
    BY <1>1, FS_AddElement
  <1> QED BY <1>1, <1>2

LEMMA RegOneLess ==
  ASSUME NEW S \in SUBSET Reg, NEW r \in S
  PROVE  Cardinality(S \ {r}) = Cardinality(S) - 1 /\ Cardinality(S) \in Nat
  <1>1. IsFiniteSet(S) BY RegFinite
  <1> QED BY <1>1, RegFinite, FS_RemoveElement

ClientWithin ==
  /\ Cardinality(desired) + Cardinality(Unacknowledged) <= ClientLimit
  /\ Cardinality(inFlight) <= MaxInFlight

\* A commit moves a registration between tables that are counted together.
LEMMA WithinStep ==
  ASSUME Types, ClientWithin, Kept
  PROVE  ClientWithin'
  <1>0. /\ Unacknowledged \in SUBSET Reg /\ desired \in SUBSET Reg /\ inFlight \in SUBSET Reg
        /\ Cardinality(Unacknowledged) \in Nat /\ Cardinality(desired) \in Nat
        /\ Cardinality(inFlight) \in Nat
    BY FoundTypes, RegFinite DEF Types, TableTypes
  <1>i. ASSUME inFlight' \subseteq inFlight PROVE Cardinality(inFlight') <= MaxInFlight
    <2>1. Cardinality(inFlight') <= Cardinality(inFlight) /\ Cardinality(inFlight') \in Nat
      BY <1>0, <1>i, RegSmaller
    <2> QED BY <1>0, <2>1, Bounds DEF ClientWithin
  <1>1. CASE Shrinks
    <2>1. /\ Cardinality(desired') <= Cardinality(desired) /\ Cardinality(desired') \in Nat
          /\ Cardinality(Unacknowledged') <= Cardinality(Unacknowledged)
          /\ Cardinality(Unacknowledged') \in Nat
      BY <1>0, <1>1, RegSmaller DEF Shrinks
    <2>2. Cardinality(inFlight') <= MaxInFlight BY <1>1, <1>i DEF Shrinks
    <2> QED BY <1>0, <2>1, <2>2, Bounds DEF ClientWithin
  <1>2. ASSUME NEW r \in Reg, Grows(r) PROVE ClientWithin'
    <2>1. /\ Cardinality(Unacknowledged \cup {r}) <= Cardinality(Unacknowledged) + 1
          /\ Cardinality(Unacknowledged \cup {r}) \in Nat
      BY <1>0, RegOneMore
    <2>2. Unacknowledged \cup {r} \in SUBSET Reg /\ Unacknowledged' \in SUBSET (Unacknowledged \cup {r})
      BY <1>0, <1>2 DEF Grows
    <2>3. /\ Cardinality(Unacknowledged') <= Cardinality(Unacknowledged \cup {r})
          /\ Cardinality(Unacknowledged') \in Nat
      BY <2>2, RegSmaller
    <2>4. Cardinality(desired) + Cardinality(Unacknowledged) < ClientLimit
      BY <1>0, <1>2, Bounds DEF Grows, Begins, LimitReached
    <2>5. desired' = desired BY <1>2 DEF Grows
    <2>6. Cardinality(inFlight') <= MaxInFlight
      <3>1. CASE inFlight' \subseteq inFlight BY <3>1, <1>i
      <3>2. CASE mode # "legacy" /\ inFlight' = inFlight \cup {r}
        <4>1. Cardinality(inFlight) < MaxInFlight
          BY <1>0, <1>2, <3>2, Bounds DEF Grows, Begins, NoRoom
        <4>2. /\ Cardinality(inFlight \cup {r}) <= Cardinality(inFlight) + 1
              /\ Cardinality(inFlight \cup {r}) \in Nat
          BY <1>0, RegOneMore
        <4> QED BY <1>0, <3>2, <4>1, <4>2, Bounds
      <3> QED BY <1>2, <3>1, <3>2 DEF Grows
    <2>7. Cardinality(desired') + Cardinality(Unacknowledged') <= ClientLimit
      BY <1>0, <2>1, <2>3, <2>4, <2>5, Bounds
    <2> QED BY <2>6, <2>7 DEF ClientWithin
  <1>3. ASSUME NEW r \in Reg, Moves(r) PROVE ClientWithin'
    <2>1. r \in Unacknowledged /\ desired' = desired \cup {r} /\ Unacknowledged' = Unacknowledged \ {r}
      BY <1>3 DEF Moves
    <2>2. Cardinality(Unacknowledged') = Cardinality(Unacknowledged) - 1 BY <1>0, <2>1, RegOneLess
    <2>3. Cardinality(desired') <= Cardinality(desired) + 1 /\ Cardinality(desired') \in Nat
      BY <1>0, <2>1, RegOneMore
    <2>4. Cardinality(inFlight') <= MaxInFlight BY <1>3, <1>i DEF Moves
    <2>5. Cardinality(desired') + Cardinality(Unacknowledged') <= ClientLimit
      BY <1>0, <2>2, <2>3, Bounds DEF ClientWithin
    <2> QED BY <2>4, <2>5 DEF ClientWithin
  <1> QED BY <1>1, <1>2, <1>3 DEF Kept

\* A caller that has its answer keeps it, unless it begins anew.
AnswersKept ==
  \A r \in Reg : reply[r] \in {"ok", "missed"} => reply'[r] = reply[r] \/ Begins(r)

LEMMA AnswerKept ==
  ASSUME Types, NEW R, NEW result, Answer(R, result)
  PROVE  AnswersKept
  BY DEF Answer, AnswersKept, Waiting

LEMMA AnswersStep ==
  ASSUME Types, Next
  PROVE  AnswersKept
  <1> USE DEF callVars
  <1>0. CASE UNCHANGED reply BY <1>0 DEF AnswersKept
  <1>1. CASE \E R, result : Answer(R, result) BY <1>1, AnswerKept
  <1>2. ASSUME NEW m \in Modes, Connect(m) PROVE AnswersKept
    BY <1>2, AnswerKept DEF Connect, SetMode
  <1>3. GenerationSpent \/ InitOther \/ Shutdown => \E R, result : Answer(R, result)
    BY DEF GenerationSpent, InitOther, LeaveForGood, Shutdown
  <1>4. InitAck \/ LoseConnection \/ Activate \/ (\E r \in Reg : InitRegister(r))
          => UNCHANGED reply \/ \E R, result : Answer(R, result)
    BY DEF InitAck, LoseConnection, Activate, InitRegister, LeaveForGood
  <1>5. AckFound => UNCHANGED reply \/ \E R, result : Answer(R, result)
    BY DEF AckFound, Commit
  <1>6. AckMissing \/ ReadOpen => UNCHANGED reply BY DEF AckMissing, ReadOpen
  <1>7. ReadError \/ ReadReject \/ ReadDrain => \E R, result : Answer(R, result)
    BY DEF ReadError, ReadReject, ReadDrain, LeaveClean, LeaveForGood
  <1>8. (\E R \in SUBSET Reg : ExpireOverdue(R)) => \E R, result : Answer(R, result)
    BY DEF ExpireOverdue, LeaveClean
  <1>9. RefuseRegister \/ OfflineCommand => UNCHANGED reply \/ \E R, result : Answer(R, result)
    BY DEF RefuseRegister, OfflineCommand, Unregister
  <1>10. ASSUME NEW r \in Reg, Register(r) \/ RegisterWriteError(r) PROVE AnswersKept
    BY <1>10 DEF Register, RegisterWriteError, AnswersKept, Types, CallTypes
  <1>11. (\E r \in Reg : RegisterWriteTimeout(r)) => \E R, result : Answer(R, result)
    BY DEF RegisterWriteTimeout, LeaveClean
  <1>12. UnregisterActive \/ UnregisterOther => \E R, result : Answer(R, result)
    BY DEF UnregisterActive, UnregisterOther, Unregister
  <1>13. ASSUME NEW r \in Reg, CallRegister(r) \/ GiveUp(r) PROVE AnswersKept
    BY <1>13 DEF CallRegister, GiveUp, AnswersKept, Types, CallTypes, Waiting
  <1>14. ASSUME NEW id \in ServiceId, CallUnregister(id) PROVE UNCHANGED reply
    BY <1>14 DEF CallUnregister
  <1>15. ASSUME NEW g \in Gen, ServerStep(g) PROVE UNCHANGED reply
    BY <1>15 DEF ServerStep, ServerReads, SrvAdmit, SrvRefuse, SrvUnregister, SrvShutdown, SrvStop,
                 SrvGone, CloseListener, SrvOpen
  <1> QED
    BY <1>0, <1>1, <1>2, <1>3, <1>4, <1>5, <1>6, <1>7, <1>8, <1>9, <1>10, <1>11, <1>12, <1>13,
       <1>14, <1>15, NextCases DEF ClientStep, InitStep, ReadMessage, TakeCommand

\* Only a commit makes a dynamic registration desired, and it answers its caller.
LEMMA DesiredStep ==
  ASSUME Types, DesiredWasAcknowledged, Kept, AnswersKept
  PROVE  DesiredWasAcknowledged'
  <1>0. desired \subseteq Reg BY DEF Types, TableTypes
  <1>1. ASSUME NEW r \in desired \ Boot PROVE reply'[r] \in {"ok", "missed"}
    <2>1. reply[r] \in {"ok", "missed"} BY DEF DesiredWasAcknowledged
    <2>2. ~Begins(r) BY <1>1 DEF Begins, Clash, Same
    <2> QED BY <1>0, <2>1, <2>2 DEF AnswersKept
  <1>2. CASE Shrinks BY <1>1, <1>2 DEF Shrinks, DesiredWasAcknowledged
  <1>3. ASSUME NEW r \in Reg, Grows(r) PROVE DesiredWasAcknowledged'
    BY <1>1, <1>3 DEF Grows, DesiredWasAcknowledged
  <1>4. ASSUME NEW r \in Reg, Moves(r) PROVE DesiredWasAcknowledged'
    BY <1>1, <1>4 DEF Moves, DesiredWasAcknowledged
  <1> QED BY <1>2, <1>3, <1>4 DEF Kept

(***************************************************************************)
(* The inductive invariant.                                                *)
(***************************************************************************)
IInv ==
  /\ Types
  /\ Distinct
  /\ CurrentGeneration
  /\ ClientWithin
  /\ ServerWithin
  /\ DesiredWasAcknowledged

\* It holds before the first Session: the configuration has been validated.
LEMMA IInvInit == Init => IInv
  <1> SUFFICES ASSUME Init PROVE IInv OBVIOUS
  <1> USE DEF Init
  <1>1. Unacknowledged = {} BY DEF Unacknowledged
  <1>2. TableTypes BY Bounds, RegAssumption DEF TableTypes
  <1>3. Numbered BY <1>1, Bounds DEF Numbered, Connected
  <1>4. CallTypes
    <2>1. "idle" \in Replies BY DEF Replies
    <2> QED BY <2>1, Bounds DEF CallTypes
  <1>5. BindTypes
    <2>1. "none" \in Causes BY DEF Causes
    <2> QED BY <2>1 DEF BindTypes
  <1>6. ServerTypes /\ WireTypes BY DEF ServerTypes, WireTypes
  <1>7. Distinct BY <1>1, BootAssumption DEF Distinct, Same
  <1>8. CurrentGeneration BY DEF CurrentGeneration, Connected
  <1>9. ClientWithin
    <2>1. Cardinality(Boot) \in Nat /\ Cardinality(Boot) <= ClientLimit
      BY RegFinite, RegAssumption, BoundAssumption
    <2>2. Cardinality(Unacknowledged) = 0 /\ Cardinality(inFlight) = 0 BY <1>1, FS_EmptySet
    <2>3. desired = Boot OBVIOUS
    <2> HIDE DEF Init
    <2> QED BY <2>1, <2>2, <2>3, Bounds DEF ClientWithin
  <1>10. ServerWithin BY FS_EmptySet, Bounds DEF ServerWithin
  <1>11. DesiredWasAcknowledged BY DEF DesiredWasAcknowledged
  <1> QED BY <1>2, <1>3, <1>4, <1>5, <1>6, <1>7, <1>8, <1>9, <1>10, <1>11 DEF IInv, Types

\* Every step keeps it.
LEMMA IInvNext == IInv /\ [Next]_vars => IInv'
  <1> SUFFICES ASSUME IInv, [Next]_vars PROVE IInv' OBVIOUS
  <1>a. Types /\ CurrentGeneration /\ ServerWithin BY DEF IInv
  <1>1. ASSUME NEW m \in Modes, Connect(m)
        PROVE  Kept /\ ServerTypes' /\ WireTypes' /\ ServerWithin'
    BY <1>a, <1>1, KeptConnect, WireConnect
  <1>2. ASSUME ClientStep
        PROVE  Kept /\ ServerTypes' /\ WireTypes' /\ ServerWithin'
    <2>1. Kept
      BY <1>a, <1>2, KeptInit, KeptRead, KeptExpire, KeptBegin, KeptCommand, KeptCall
      DEF ClientStep, TakeCommand
    <2>2. ServerTypes' /\ WireTypes' /\ UNCHANGED serverVars BY <1>a, <1>2, WireClient
    <2> QED BY <1>a, <2>1, <2>2 DEF ServerWithin, serverVars
  <1>3. ASSUME NEW g \in Gen, ServerStep(g)
        PROVE  Kept /\ ServerTypes' /\ WireTypes' /\ ServerWithin'
    BY <1>a, <1>3, ServerKept, WireServer
  <1>4. CASE Next
    <2>1. Kept /\ ServerTypes' /\ WireTypes' /\ ServerWithin' BY <1>1, <1>2, <1>3, <1>4, NextCases
    <2>2. Types' /\ CurrentGeneration' BY <2>1 DEF Kept, Types
    <2>3. Distinct' BY <1>a, <2>1, DistinctStep DEF IInv
    <2>4. ClientWithin' BY <1>a, <2>1, WithinStep DEF IInv
    <2>5. DesiredWasAcknowledged' BY <1>a, <1>4, <2>1, AnswersStep, DesiredStep DEF IInv
    <2> QED BY <2>1, <2>2, <2>3, <2>4, <2>5 DEF IInv
  <1>5. CASE UNCHANGED vars
    <2> USE <1>5 DEF vars, clientVars, txnVars, stateVars, callVars, serverVars, wireVars
    <2>1. Unacknowledged' = Unacknowledged BY DEF Unacknowledged
    <2>2. TableTypes' /\ CallTypes' /\ BindTypes' /\ ServerTypes' /\ WireTypes'
      BY <1>a DEF Types, TableTypes, CallTypes, BindTypes, ServerTypes, WireTypes
    <2>3. Numbered' BY <1>a, <2>1 DEF Types, Numbered, Connected
    <2>4. Distinct' /\ ClientWithin' BY <2>1 DEF IInv, Distinct, ClientWithin
    <2>5. CurrentGeneration' BY <1>a, <2>1 DEF CurrentGeneration, Connected
    <2>6. ServerWithin' /\ DesiredWasAcknowledged'
      BY DEF IInv, ServerWithin, DesiredWasAcknowledged
    <2> QED BY <2>2, <2>3, <2>4, <2>5, <2>6 DEF IInv, Types
  <1> QED BY <1>4, <1>5

\* The inductive invariant holds throughout.
THEOREM Invariance == Spec => []IInv
  BY IInvInit, IInvNext, PTL DEF Spec

\* Every variable keeps its type: Session numbers, queues, tables and streams.
THEOREM TypeCorrect == Spec => []TypeOK
  <1>1. IInv => TypeOK
    BY DEF IInv, Types, TableTypes, Numbered, CallTypes, BindTypes, ServerTypes, WireTypes, TypeOK
  <1> QED BY <1>1, Invariance, PTL

\* The tables of client/service_state.rs never hold one id or name twice, never
\* a transaction or tombstone of an earlier Session, and never more than
\* services_per_session and the wire mode allow, at either end.
THEOREM TablesAlwaysSound == Spec => []TablesSound
  <1>1. IInv => TablesSound
    BY DEF IInv, TablesSound, WithinLimits, ClientWithin, ServerWithin
  <1> QED BY <1>1, Invariance, PTL

\* What is registered again in every Session was acknowledged to its caller
\* (client/service_state.rs, take_ack and commit).
THEOREM DesiredAcknowledged == Spec => []DesiredWasAcknowledged
  <1>1. IInv => DesiredWasAcknowledged BY DEF IInv
  <1> QED BY <1>1, Invariance, PTL

(***************************************************************************)
(* Why client and server agree whenever the control stream is quiet.       *)
(***************************************************************************)

(***************************************************************************)
(* What a stream holds.                                                    *)
(***************************************************************************)
In(s, m) == \E i \in 1..Len(s) : s[i] = m

LEMMA InTail ==
  ASSUME NEW S, NEW s \in Seq(S), s # <<>>, NEW m
  PROVE  In(s, m) <=> m = Head(s) \/ In(Tail(s), m)
  <1>1. /\ Len(Tail(s)) = Len(s) - 1 /\ Len(s) \in Nat \ {0}
        /\ \A j \in 1..Len(Tail(s)) : Tail(s)[j] = s[j + 1]
        /\ Head(s) = s[1]
    BY HeadTailProperties, EmptySeq
  <1>2. ASSUME In(s, m) PROVE m = Head(s) \/ In(Tail(s), m)
    <2>1. PICK i \in 1..Len(s) : s[i] = m BY <1>2 DEF In
    <2>2. CASE i = 1 BY <1>1, <2>1, <2>2
    <2>3. CASE i # 1
      <3>1. i - 1 \in 1..Len(Tail(s)) BY <1>1, <2>3
      <3>2. Tail(s)[i - 1] = m BY <1>1, <2>1, <3>1
      <3> QED BY <3>1, <3>2 DEF In
    <2> QED BY <2>2, <2>3
  <1>3. ASSUME In(Tail(s), m) PROVE In(s, m)
    <2>1. PICK j \in 1..Len(Tail(s)) : Tail(s)[j] = m BY <1>3 DEF In
    <2>2. j + 1 \in 1..Len(s) /\ s[j + 1] = m BY <1>1, <2>1
    <2> QED BY <2>2 DEF In
  <1>4. m = Head(s) => In(s, m) BY <1>1 DEF In
  <1> QED BY <1>2, <1>3, <1>4

LEMMA InAppend ==
  ASSUME NEW S, NEW s \in Seq(S), NEW e \in S, NEW m
  PROVE  In(Append(s, e), m) <=> m = e \/ In(s, m)
  <1>1. /\ Len(Append(s, e)) = Len(s) + 1 /\ Len(s) \in Nat
        /\ \A i \in 1..Len(s) : Append(s, e)[i] = s[i]
        /\ Append(s, e)[Len(s) + 1] = e
    BY AppendProperties
  <1>2. \A i \in 1..(Len(s) + 1) : i \in 1..Len(s) \/ i = Len(s) + 1 BY <1>1
  <1>3. ASSUME In(Append(s, e), m) PROVE m = e \/ In(s, m) BY <1>1, <1>2, <1>3 DEF In
  <1>4. m = e => In(Append(s, e), m)
    <2>1. Len(s) + 1 \in 1..Len(Append(s, e)) BY <1>1
    <2> QED BY <1>1, <2>1 DEF In
  <1>5. ASSUME In(s, m) PROVE In(Append(s, e), m)
    <2>1. PICK i \in 1..Len(s) : s[i] = m BY <1>5 DEF In
    <2>2. i \in 1..Len(Append(s, e)) /\ Append(s, e)[i] = m BY <1>1, <2>1
    <2> QED BY <2>2 DEF In
  <1> QED BY <1>3, <1>4, <1>5

LEMMA InEmpty == \A m : ~In(<<>>, m)
  BY DEF In

RegisterMsg(r) == [kind |-> "register", reg |-> r]
UnregisterMsg(id) == [kind |-> "unregister", id |-> id]
AckMsg(r) == [kind |-> "ack", reg |-> r]

\* Messages that answer a registration.
Answering(m) == m.kind \in {"ack", "error", "reject"}

SentIn(s) == {r \in Reg : In(s, RegisterMsg(r))}
RevokedIn(s) == {id \in ServiceId : In(s, UnregisterMsg(id))}
AckedIn(s) == {r \in Reg : In(s, AckMsg(r))}
AnsweredIn(s) == {r \in Reg : \E m : In(s, m) /\ Answering(m) /\ m.reg = r}

\* No UnregisterService for q's id follows q's request.
OrderedIn(s, q) ==
  \A i, j \in 1..Len(s) : s[i] = RegisterMsg(q) /\ s[j] = UnregisterMsg(IdOf[q]) => j < i

\* At most one answer.
SingleIn(s) == \A i, j \in 1..Len(s) : Answering(s[i]) /\ Answering(s[j]) => i = j

\* Messages of one kind are told apart by what they are about.
LEMMA MessageForms ==
  /\ \A m \in ToServer : m.kind = "register" => m = RegisterMsg(m.reg)
  /\ \A m \in ToServer : m.kind = "unregister" => m = UnregisterMsg(m.id)
  /\ \A m \in ToClient : m.kind = "ack" => m = AckMsg(m.reg)
  /\ \A r : RegisterMsg(r).kind = "register" /\ RegisterMsg(r).reg = r
  /\ \A id : UnregisterMsg(id).kind = "unregister" /\ UnregisterMsg(id).id = id
  /\ \A r : AckMsg(r).kind = "ack" /\ AckMsg(r).reg = r
  <1>1. \A m \in ToServer : m.kind = "register" => m = RegisterMsg(m.reg)
    BY DEF ToServer, RegisterMsg
  <1>2. \A m \in ToServer : m.kind = "unregister" => m = UnregisterMsg(m.id)
    BY DEF ToServer, UnregisterMsg
  <1>3. \A m \in ToClient : m.kind = "ack" => m = AckMsg(m.reg)
    BY DEF ToClient, AckMsg
  <1> QED BY <1>1, <1>2, <1>3 DEF RegisterMsg, UnregisterMsg, AckMsg

\* The server reads its stream.
LEMMA TakeViews ==
  ASSUME NEW s \in Seq(ToServer), s # <<>>
  PROVE  /\ SentIn(s) = SentIn(Tail(s)) \cup {r \in Reg : Head(s) = RegisterMsg(r)}
         /\ RevokedIn(s) = RevokedIn(Tail(s)) \cup {id \in ServiceId : Head(s) = UnregisterMsg(id)}
         /\ \A q \in Reg : OrderedIn(s, q) => OrderedIn(Tail(s), q)
         /\ \A q \in Reg : OrderedIn(s, q) /\ Head(s) = RegisterMsg(q)
                              => IdOf[q] \notin RevokedIn(Tail(s))
  <1>1. \A m : In(s, m) <=> m = Head(s) \/ In(Tail(s), m) BY InTail
  <1>2. /\ Len(Tail(s)) = Len(s) - 1 /\ Len(s) \in Nat \ {0}
        /\ \A j \in 1..Len(Tail(s)) : Tail(s)[j] = s[j + 1]
        /\ Head(s) = s[1]
    BY HeadTailProperties, EmptySeq
  <1>3. SentIn(s) = SentIn(Tail(s)) \cup {r \in Reg : Head(s) = RegisterMsg(r)}
    BY <1>1 DEF SentIn
  <1>4. RevokedIn(s) = RevokedIn(Tail(s)) \cup {id \in ServiceId : Head(s) = UnregisterMsg(id)}
    BY <1>1 DEF RevokedIn
  <1>5. ASSUME NEW q \in Reg, OrderedIn(s, q) PROVE OrderedIn(Tail(s), q)
    <2> SUFFICES ASSUME NEW i \in 1..Len(Tail(s)), NEW j \in 1..Len(Tail(s)),
                        Tail(s)[i] = RegisterMsg(q), Tail(s)[j] = UnregisterMsg(IdOf[q])
                 PROVE  j < i
      BY DEF OrderedIn
    <2>1. i + 1 \in 1..Len(s) /\ j + 1 \in 1..Len(s) BY <1>2
    <2>2. s[i + 1] = RegisterMsg(q) /\ s[j + 1] = UnregisterMsg(IdOf[q]) BY <1>2
    <2>3. j + 1 < i + 1 BY <1>5, <2>1, <2>2 DEF OrderedIn
    <2> QED BY <2>3
  <1>6. ASSUME NEW q \in Reg, OrderedIn(s, q), Head(s) = RegisterMsg(q),
               IdOf[q] \in RevokedIn(Tail(s))
        PROVE  FALSE
    <2>1. PICK j \in 1..Len(Tail(s)) : Tail(s)[j] = UnregisterMsg(IdOf[q])
      BY <1>6 DEF RevokedIn, In
    <2>2. j + 1 \in 1..Len(s) /\ 1 \in 1..Len(s) BY <1>2
    <2>3. s[j + 1] = UnregisterMsg(IdOf[q]) /\ s[1] = RegisterMsg(q) BY <1>2, <1>6, <2>1
    <2>4. j + 1 < 1 BY <1>6, <2>2, <2>3 DEF OrderedIn
    <2> QED BY <2>4
  <1> QED BY <1>3, <1>4, <1>5, <1>6

\* The client writes to it.
LEMMA WriteViews ==
  ASSUME NEW s \in Seq(ToServer), NEW m \in ToServer
  PROVE  /\ SentIn(Append(s, m)) = SentIn(s) \cup {r \in Reg : m = RegisterMsg(r)}
         /\ RevokedIn(Append(s, m)) = RevokedIn(s) \cup {id \in ServiceId : m = UnregisterMsg(id)}
         /\ \A q \in Reg : OrderedIn(s, q) /\ m # UnregisterMsg(IdOf[q])
                              => OrderedIn(Append(s, m), q)
  <1>1. \A e : In(Append(s, m), e) <=> e = m \/ In(s, e) BY InAppend
  <1>2. /\ Len(Append(s, m)) = Len(s) + 1 /\ Len(s) \in Nat
        /\ \A i \in 1..Len(s) : Append(s, m)[i] = s[i]
        /\ Append(s, m)[Len(s) + 1] = m
    BY AppendProperties
  <1>3. SentIn(Append(s, m)) = SentIn(s) \cup {r \in Reg : m = RegisterMsg(r)}
    BY <1>1 DEF SentIn
  <1>4. RevokedIn(Append(s, m)) = RevokedIn(s) \cup {id \in ServiceId : m = UnregisterMsg(id)}
    BY <1>1 DEF RevokedIn
  <1>5. ASSUME NEW q \in Reg, OrderedIn(s, q), m # UnregisterMsg(IdOf[q])
        PROVE  OrderedIn(Append(s, m), q)
    <2> SUFFICES ASSUME NEW i \in 1..Len(Append(s, m)), NEW j \in 1..Len(Append(s, m)),
                        Append(s, m)[i] = RegisterMsg(q), Append(s, m)[j] = UnregisterMsg(IdOf[q])
                 PROVE  j < i
      BY DEF OrderedIn
    <2>1. j \in 1..Len(s) BY <1>2, <1>5
    <2>2. CASE i \in 1..Len(s)
      <3>1. s[i] = RegisterMsg(q) /\ s[j] = UnregisterMsg(IdOf[q]) BY <1>2, <2>1, <2>2
      <3> QED BY <1>5, <2>1, <2>2, <3>1 DEF OrderedIn
    <2>3. CASE i = Len(s) + 1 BY <1>2, <2>1, <2>3
    <2> QED BY <1>2, <2>2, <2>3
  <1> QED BY <1>3, <1>4, <1>5

LEMMA Unsorted == \A s, q : q \in Reg \ SentIn(s) => OrderedIn(s, q)
  BY DEF SentIn, OrderedIn, In

LEMMA EmptyViews ==
  /\ SentIn(<<>>) = {} /\ RevokedIn(<<>>) = {} /\ AckedIn(<<>>) = {} /\ AnsweredIn(<<>>) = {}
  /\ SingleIn(<<>>) /\ \A q \in Reg : OrderedIn(<<>>, q)
  BY InEmpty DEF SentIn, RevokedIn, AckedIn, AnsweredIn, SingleIn, OrderedIn

\* What the message m answers.
AnswerTo(m) == {r \in Reg : Answering(m) /\ m.reg = r}
AckTo(m) == {r \in Reg : m = AckMsg(r)}

\* The client reads its stream.
LEMMA ReadViews ==
  ASSUME NEW s \in Seq(ToClient), s # <<>>
  PROVE  /\ AckedIn(s) = AckedIn(Tail(s)) \cup AckTo(Head(s))
         /\ AnsweredIn(s) = AnsweredIn(Tail(s)) \cup AnswerTo(Head(s))
         /\ SingleIn(s) => SingleIn(Tail(s))
         /\ SingleIn(s) /\ Answering(Head(s)) => AnsweredIn(Tail(s)) = {}
  <1>1. \A m : In(s, m) <=> m = Head(s) \/ In(Tail(s), m) BY InTail
  <1>2. /\ Len(Tail(s)) = Len(s) - 1 /\ Len(s) \in Nat \ {0}
        /\ \A j \in 1..Len(Tail(s)) : Tail(s)[j] = s[j + 1]
        /\ Head(s) = s[1]
    BY HeadTailProperties, EmptySeq
  <1>3. AckedIn(s) = AckedIn(Tail(s)) \cup AckTo(Head(s)) BY <1>1 DEF AckedIn, AckTo
  <1>4. AnsweredIn(s) = AnsweredIn(Tail(s)) \cup AnswerTo(Head(s)) BY <1>1 DEF AnsweredIn, AnswerTo
  <1>5. ASSUME SingleIn(s) PROVE SingleIn(Tail(s))
    <2> SUFFICES ASSUME NEW i \in 1..Len(Tail(s)), NEW j \in 1..Len(Tail(s)),
                        Answering(Tail(s)[i]), Answering(Tail(s)[j])
                 PROVE  i = j
      BY DEF SingleIn
    <2>1. i + 1 \in 1..Len(s) /\ j + 1 \in 1..Len(s) BY <1>2
    <2>2. Answering(s[i + 1]) /\ Answering(s[j + 1]) BY <1>2
    <2>3. i + 1 = j + 1 BY <1>5, <2>1, <2>2 DEF SingleIn
    <2> QED BY <2>3
  <1>6. ASSUME SingleIn(s), Answering(Head(s)), NEW r \in AnsweredIn(Tail(s)) PROVE FALSE
    <2>1. PICK m : In(Tail(s), m) /\ Answering(m) BY <1>6 DEF AnsweredIn
    <2>2. PICK j \in 1..Len(Tail(s)) : Tail(s)[j] = m BY <2>1 DEF In
    <2>3. j + 1 \in 1..Len(s) /\ 1 \in 1..Len(s) BY <1>2
    <2>4. Answering(s[j + 1]) /\ Answering(s[1]) BY <1>2, <1>6, <2>1, <2>2
    <2>5. j + 1 = 1 BY <1>6, <2>3, <2>4 DEF SingleIn
    <2> QED BY <2>5
  <1> QED BY <1>3, <1>4, <1>5, <1>6

\* The server writes to it.
LEMMA ReplyViews ==
  ASSUME NEW s \in Seq(ToClient), NEW m \in ToClient
  PROVE  /\ AckedIn(Append(s, m)) = AckedIn(s) \cup AckTo(m)
         /\ AnsweredIn(Append(s, m)) = AnsweredIn(s) \cup AnswerTo(m)
         /\ SingleIn(s) /\ (AnsweredIn(s) = {} \/ ~Answering(m)) => SingleIn(Append(s, m))
  <1>1. \A e : In(Append(s, m), e) <=> e = m \/ In(s, e) BY InAppend
  <1>2. /\ Len(Append(s, m)) = Len(s) + 1 /\ Len(s) \in Nat
        /\ \A i \in 1..Len(s) : Append(s, m)[i] = s[i]
        /\ Append(s, m)[Len(s) + 1] = m
    BY AppendProperties
  <1>3. AckedIn(Append(s, m)) = AckedIn(s) \cup AckTo(m) BY <1>1 DEF AckedIn, AckTo
  <1>4. AnsweredIn(Append(s, m)) = AnsweredIn(s) \cup AnswerTo(m) BY <1>1 DEF AnsweredIn, AnswerTo
  <1>5. ASSUME SingleIn(s), AnsweredIn(s) = {} \/ ~Answering(m) PROVE SingleIn(Append(s, m))
    <2>0. \A i \in 1..Len(s) : s[i] \in ToClient /\ (Answering(s[i]) => s[i].reg \in AnsweredIn(s))
      <3> TAKE i \in 1..Len(s)
      <3>1. s[i] \in ToClient OBVIOUS
      <3>2. ASSUME Answering(s[i]) PROVE s[i].reg \in AnsweredIn(s)
        <4>1. s[i].reg \in Reg BY <3>1, <3>2, MessageTypes DEF Answering
        <4>2. In(s, s[i]) BY DEF In
        <4> QED BY <3>2, <4>1, <4>2 DEF AnsweredIn
      <3> QED BY <3>1, <3>2
    <2> SUFFICES ASSUME NEW i \in 1..Len(Append(s, m)), NEW j \in 1..Len(Append(s, m)),
                        Answering(Append(s, m)[i]), Answering(Append(s, m)[j])
                 PROVE  i = j
      BY DEF SingleIn
    <2>1. CASE ~Answering(m)
      <3>1. i \in 1..Len(s) /\ j \in 1..Len(s) BY <1>2, <2>1
      <3> QED BY <1>2, <1>5, <3>1 DEF SingleIn
    <2>2. CASE AnsweredIn(s) = {}
      <3>1. \A k \in 1..Len(s) : ~Answering(s[k]) BY <2>0, <2>2
      <3>2. i \notin 1..Len(s) /\ j \notin 1..Len(s) BY <1>2, <3>1
      <3> QED BY <1>2, <3>2
    <2> QED BY <1>5, <2>1, <2>2
  <1> QED BY <1>3, <1>4, <1>5

LEMMA AckedAnswered == \A s : AckedIn(s) \subseteq AnsweredIn(s)
  BY MessageForms DEF AckedIn, AnsweredIn, Answering

(***************************************************************************)
(* What a step does to transactions, desired Services and tombstones.      *)
(***************************************************************************)
Eases ==
  /\ desired' \subseteq desired /\ Unacknowledged' \subseteq Unacknowledged
  /\ slot' \in {slot, None} /\ inFlight' \subseteq inFlight
  /\ tombs' \subseteq tombs

Revokes(id) ==
  /\ slot' \in {slot, None} /\ inFlight' \subseteq inFlight
  /\ desired' = desired \ ById(desired, id)
  /\ Unacknowledged' = Unacknowledged \ ById(Unacknowledged, id)
  /\ \A t \in tombs' : t \in tombs \/ t[1] = id

Starts(r) ==
  /\ Begins(r)
  /\ slot' = IF mode = "legacy" THEN r ELSE slot
  /\ inFlight' = IF mode = "legacy" THEN inFlight ELSE inFlight \cup {r}
  /\ tombs' = tombs \ TombsOf(IdOf[r])
  /\ reply' = [reply EXCEPT ![r] = "waiting"]
  /\ UNCHANGED desired

Abandons(r) ==
  /\ Begins(r)
  /\ \A t \in tombs' : t \in tombs \/ t[1] = IdOf[r]
  /\ UNCHANGED <<desired, slot, inFlight>>

Adopts(r) ==
  /\ r \in Unacknowledged
  /\ Release({r})
  /\ desired' = desired \cup {r}
  /\ UNCHANGED tombs

Turn ==
  /\ UNCHANGED mode
  /\ \/ Eases
     \/ \E id \in ServiceId : Revokes(id)
     \/ \E r \in Reg : Starts(r) \/ Abandons(r) \/ Adopts(r)

LEMMA ReleaseEases ==
  ASSUME Types, NEW R, Release(R), desired' \subseteq desired, tombs' \subseteq tombs
  PROVE  Eases
  BY ReleaseTypes DEF Eases

LEMMA SameEases ==
  ASSUME UNCHANGED <<slot, inFlight, desired>>, tombs' \subseteq tombs
  PROVE  Eases
  BY DEF Eases, Unacknowledged

LEMMA UnregisterRevokes ==
  ASSUME Types, NEW id \in ServiceId, Unregister(id)
  PROVE  Revokes(id)
  <1> DEFINE R == ById(Unacknowledged, id)
  <1>1. Release(R) BY DEF Unregister
  <1>2. /\ slot' \in {slot, None} /\ inFlight' \subseteq inFlight
        /\ Unacknowledged' = Unacknowledged \ R
    BY <1>1, ReleaseTypes
  <1>3. desired' = desired \ ById(desired, id) BY DEF Unregister
  <1>4. \A t \in tombs' : t \in tombs \/ t[1] = id
    <2>1. tombs' = IF slot \in R THEN WithTomb(id, born[slot]) ELSE tombs BY DEF Unregister
    <2>2. \A t \in WithTomb(id, born[slot]) : t \in tombs \/ t[1] = id BY DEF WithTomb
    <2> QED BY <2>1, <2>2
  <1> QED BY <1>2, <1>3, <1>4 DEF Revokes

LEMMA Turns ==
  ASSUME Types, Next, ~\E m \in Modes : Connect(m)
  PROVE  Turn
  <1> USE DEF clientVars, txnVars, stateVars, callVars
  <1>1. ASSUME GenerationSpent \/ InitStep \/ LoseConnection \/ Shutdown PROVE Turn
    <2>1. UNCHANGED <<mode, slot, inFlight, desired, tombs>>
      BY <1>1 DEF GenerationSpent, InitStep, InitRegister, InitAck, InitOther, Activate, LoseConnection,
                  Shutdown
    <2> QED BY <2>1, SameEases DEF Turn
  <1>2. CASE AckFound
    <2> DEFINE m == Head(toClient[gen])
    <2>0. UNCHANGED <<mode, tombs>> BY <1>2 DEF AckFound
    <2>1. PICK r \in Found(IdOf[m.reg]) :
            /\ Release({r})
            /\ \/ UNCHANGED desired
               \/ Commit(r, m)
      BY <1>2 DEF AckFound
    <2>2. r \in Unacknowledged /\ r \in Reg BY FoundTypes
    <2>3. CASE UNCHANGED desired BY <2>0, <2>1, <2>3, ReleaseEases DEF Turn
    <2>4. CASE Commit(r, m)
      <3>1. Adopts(r) BY <2>0, <2>1, <2>2, <2>4 DEF Adopts, Commit
      <3> QED BY <2>0, <2>2, <3>1 DEF Turn
    <2> QED BY <2>1, <2>3, <2>4
  <1>3. CASE AckMissing \/ ReadOpen
    BY <1>3, SameEases DEF AckMissing, ReadOpen, Turn
  <1>4. CASE ReadError
    <2>1. UNCHANGED <<mode, desired, tombs>> BY <1>4 DEF ReadError
    <2>2. Release({slot}) \/ UNCHANGED <<slot, inFlight>> BY <1>4 DEF ReadError
    <2> QED BY <2>1, <2>2, ReleaseEases, SameEases DEF Turn
  <1>5. CASE ReadReject
    <2>1. UNCHANGED <<mode, desired>> /\ tombs' \subseteq tombs BY <1>5 DEF ReadReject
    <2>2. \E R : Release(R) BY <1>5 DEF ReadReject
    <2> QED BY <2>1, <2>2, ReleaseEases DEF Turn
  <1>6. CASE ReadDrain
    BY <1>6, ReleaseEases DEF ReadDrain, LeaveClean, Turn
  <1>7. ASSUME NEW R \in SUBSET Reg, ExpireOverdue(R) PROVE Turn
    <2>1. UNCHANGED <<mode, desired>> BY <1>7 DEF ExpireOverdue
    <2>2. CASE slot \in R BY <1>7, <2>1, <2>2, ReleaseEases DEF ExpireOverdue, LeaveClean, Turn
    <2>3. CASE slot \notin R BY <1>7, <2>1, <2>3, ReleaseEases DEF ExpireOverdue, Turn
    <2> QED BY <2>2, <2>3
  <1>8. CASE RefuseRegister BY <1>8, SameEases DEF RefuseRegister, Turn
  <1>9. ASSUME NEW r \in Reg, Register(r) \/ RegisterWriteError(r) PROVE Turn
    <2>1. Starts(r) /\ UNCHANGED mode BY <1>9 DEF Register, RegisterWriteError, Starts
    <2> QED BY <2>1 DEF Turn
  <1>10. ASSUME NEW r \in Reg, RegisterWriteTimeout(r) PROVE Turn
    <2>0. UNCHANGED <<mode, desired>> /\ Begins(r) BY <1>10 DEF RegisterWriteTimeout
    <2>1. CASE mode = "legacy"
      BY <1>10, <2>0, <2>1, ReleaseEases DEF RegisterWriteTimeout, LeaveClean, Turn
    <2>2. CASE mode # "legacy"
      <3>1. tombs' = WithTomb(IdOf[r], gen) /\ UNCHANGED <<slot, inFlight>>
        BY <1>10, <2>2 DEF RegisterWriteTimeout
      <3>2. \A t \in tombs' : t \in tombs \/ t[1] = IdOf[r] BY <3>1 DEF WithTomb
      <3> QED BY <2>0, <3>1, <3>2 DEF Abandons, Turn
    <2> QED BY <2>1, <2>2
  <1>11. CASE UnregisterActive \/ UnregisterOther
    <2>1. UNCHANGED mode /\ NextCommand("unregister") /\ Unregister(Head(commands).id)
      BY <1>11 DEF UnregisterActive, UnregisterOther
    <2>2. Head(commands).id \in ServiceId BY <2>1, CommandTypes DEF NextCommand
    <2> QED BY <2>1, <2>2, UnregisterRevokes DEF Turn
  <1>12. CASE OfflineCommand
    <2>1. UNCHANGED mode /\ commands # <<>> BY <1>12 DEF OfflineCommand
    <2>2. CASE Head(commands).op = "register" BY <1>12, <2>1, <2>2, SameEases DEF OfflineCommand, Turn
    <2>3. CASE Head(commands).op # "register"
      <3>1. Unregister(Head(commands).id) BY <1>12, <2>3 DEF OfflineCommand
      <3>2. Head(commands).id \in ServiceId BY <2>1, <2>3, CommandTypes
      <3> QED BY <2>1, <3>1, <3>2, UnregisterRevokes DEF Turn
    <2> QED BY <2>2, <2>3
  <1>13. ASSUME NEW r \in Reg, CallRegister(r) \/ GiveUp(r) PROVE Turn
    BY <1>13, SameEases DEF CallRegister, GiveUp, Turn
  <1>14. ASSUME NEW id \in ServiceId, CallUnregister(id) PROVE Turn
    BY <1>14, SameEases DEF CallUnregister, Turn
  <1>15. ASSUME NEW g \in Gen, ServerStep(g) PROVE Turn
    <2>1. UNCHANGED <<mode, slot, inFlight, desired, tombs>>
      BY <1>15 DEF ServerStep, ServerReads, SrvAdmit, SrvRefuse, SrvUnregister, SrvShutdown, SrvStop,
                   SrvGone, CloseListener, SrvOpen
    <2> QED BY <2>1, SameEases DEF Turn
  <1> QED
    BY <1>1, <1>2, <1>3, <1>4, <1>5, <1>6, <1>7, <1>8, <1>9, <1>10, <1>11, <1>12, <1>13, <1>14, <1>15,
       NextCases DEF ClientStep, ReadMessage, TakeCommand

(***************************************************************************)
(* The tables of the client.                                               *)
(***************************************************************************)

\* Each wire mode has its own kind of transaction.
ModeApart == IF mode = "legacy" THEN inFlight = {} ELSE slot = None

\* Tombstones are of ids that are neither desired nor being registered.
Buried == \A q \in desired \cup Unacknowledged : \A t \in tombs : t[1] # IdOf[q]

\* The bind table names what has been acknowledged in this Session, each with a
\* listener of its own id.
Routed ==
  /\ client \in {"down", "stopped"} => binds = {}
  /\ client = "init" => /\ {b[1] : b \in binds} = desired \ todo
                        /\ todo \subseteq desired
                        /\ asked \in todo \cup {None}
                        /\ Unacknowledged = {} /\ tombs = {}
  /\ client = "ready" => {b[1] : b \in binds} = active /\ active = desired

SameId == \A b \in binds : IdOf[b[1]] = IdOf[b[2]]

\* Beginning to register r: nothing of its id or name is there.
LEMMA BeginsClear ==
  ASSUME Types, NEW r \in Reg, Begins(r)
  PROVE  \A q \in desired \cup Unacknowledged : IdOf[q] # IdOf[r] /\ q # r
  BY DEF Begins, Clash, Same

LEMMA ConnectClears ==
  ASSUME Types, NEW m \in Modes, Connect(m)
  PROVE  slot' = None /\ inFlight' = {} /\ Unacknowledged' = {} /\ tombs' = {} /\ desired' = desired
  <1>1. Release(Unacknowledged) /\ tombs' = {} /\ desired' = desired BY DEF Connect, SetMode
  <1>2. slot' = None /\ inFlight' = {} BY <1>1 DEF Release, Unacknowledged
  <1> QED BY <1>1, <1>2 DEF Unacknowledged

LEMMA ModeApartStep ==
  ASSUME Types, ModeApart, Next
  PROVE  ModeApart'
  <1>1. ASSUME NEW m \in Modes, Connect(m) PROVE ModeApart'
    BY <1>1, ConnectClears DEF ModeApart
  <1>2. CASE Turn
    <2>1. CASE Eases BY <1>2, <2>1 DEF Turn, Eases, ModeApart
    <2>2. ASSUME NEW id \in ServiceId, Revokes(id) PROVE ModeApart'
      BY <1>2, <2>2 DEF Turn, Revokes, ModeApart
    <2>3. ASSUME NEW r \in Reg, Starts(r) PROVE ModeApart'
      BY <1>2, <2>3 DEF Turn, Starts, ModeApart
    <2>4. ASSUME NEW r \in Reg, Abandons(r) PROVE ModeApart'
      BY <1>2, <2>4 DEF Turn, Abandons, ModeApart
    <2>5. ASSUME NEW r \in Reg, Adopts(r) PROVE ModeApart'
      BY <1>2, <2>5 DEF Turn, Adopts, Release, ModeApart
    <2> QED BY <1>2, <2>1, <2>2, <2>3, <2>4, <2>5 DEF Turn
  <1> QED BY <1>1, <1>2, Turns

LEMMA BuriedStep ==
  ASSUME Types, Buried, Next
  PROVE  Buried'
  <1>1. ASSUME NEW m \in Modes, Connect(m) PROVE Buried'
    BY <1>1, ConnectClears DEF Buried
  <1>2. CASE Turn
    <2>1. CASE Eases BY <2>1 DEF Eases, Buried
    <2>2. ASSUME NEW id \in ServiceId, Revokes(id) PROVE Buried'
      BY <2>2 DEF Revokes, Buried, ById
    <2>3. ASSUME NEW r \in Reg, Starts(r) PROVE Buried'
      <3>1. Unacknowledged' \subseteq Unacknowledged \cup {r} BY <2>3 DEF Starts, Unacknowledged
      <3>2. tombs' \subseteq tombs /\ \A t \in tombs' : t[1] # IdOf[r]
        BY <2>3 DEF Starts, TombsOf
      <3> QED BY <2>3, <3>1, <3>2 DEF Starts, Buried
    <2>4. ASSUME NEW r \in Reg, Abandons(r) PROVE Buried'
      <3>1. Unacknowledged' = Unacknowledged BY <2>4 DEF Abandons, Unacknowledged
      <3>2. \A q \in desired \cup Unacknowledged : IdOf[q] # IdOf[r]
        BY <2>4, BeginsClear DEF Abandons
      <3> QED BY <2>4, <3>1, <3>2 DEF Abandons, Buried
    <2>5. ASSUME NEW r \in Reg, Adopts(r) PROVE Buried'
      <3>1. Unacknowledged' \subseteq Unacknowledged BY <2>5, ReleaseTypes DEF Adopts
      <3> QED BY <2>5, <3>1 DEF Adopts, Buried
    <2> QED BY <1>2, <2>1, <2>2, <2>3, <2>4, <2>5 DEF Turn
  <1> QED BY <1>1, <1>2, Turns

LEMMA FirstsAdded ==
  ASSUME NEW B, NEW q, NEW r
  PROVE  {b[1] : b \in B \cup {<<q, r>>}} = {b[1] : b \in B} \cup {q}
  <1> DEFINE S == {b[1] : b \in B}  T == {b[1] : b \in B \cup {<<q, r>>}}
  <1>1. <<q, r>>[1] = q OBVIOUS
  <1>2. q \in T
    <2>1. <<q, r>> \in B \cup {<<q, r>>} OBVIOUS
    <2> QED BY <1>1, <2>1
  <1>3. S \subseteq T OBVIOUS
  <1>4. ASSUME NEW x \in T PROVE x \in S \cup {q}
    <2>1. PICK b \in B \cup {<<q, r>>} : x = b[1] OBVIOUS
    <2> QED BY <1>1, <2>1
  <1> QED BY <1>2, <1>3, <1>4

LEMMA SecondsAdded ==
  ASSUME NEW B, NEW q, NEW r
  PROVE  {b[2] : b \in B \cup {<<q, r>>}} = {b[2] : b \in B} \cup {r}
  <1> DEFINE S == {b[2] : b \in B}  T == {b[2] : b \in B \cup {<<q, r>>}}
  <1>1. <<q, r>>[2] = r OBVIOUS
  <1>2. r \in T
    <2>1. <<q, r>> \in B \cup {<<q, r>>} OBVIOUS
    <2> QED BY <1>1, <2>1
  <1>3. S \subseteq T OBVIOUS
  <1>4. ASSUME NEW x \in T PROVE x \in S \cup {r}
    <2>1. PICK b \in B \cup {<<q, r>>} : x = b[2] OBVIOUS
    <2> QED BY <1>1, <2>1
  <1> QED BY <1>2, <1>3, <1>4

\* Where a step leaves the bind table.
Stays ==
  /\ UNCHANGED <<client, todo, asked, active, desired, binds>>
  /\ client = "init" => Unacknowledged' \subseteq Unacknowledged /\ tombs' \subseteq tombs

Leaves == client' \in {"down", "stopped"} /\ binds' = {}

LEMMA StaysRouted ==
  ASSUME Routed, SameId, Stays \/ Leaves
  PROVE  Routed' /\ SameId'
  BY DEF Routed, SameId, Stays, Leaves

LEMMA RoutedStep ==
  ASSUME Types, Routed, SameId, Next
  PROVE  Routed' /\ SameId'
  <1> USE DEF clientVars, txnVars, stateVars, callVars
  <1>1. ASSUME NEW m \in Modes, Connect(m) PROVE Routed' /\ SameId'
    <2>1. client = "down" /\ client' = "init" /\ binds' = binds /\ todo' = desired /\ asked' = None
      BY <1>1 DEF Connect
    <2> QED BY <1>1, <2>1, ConnectClears DEF Routed, SameId
  <1>2. ASSUME NEW r \in Reg, InitRegister(r) PROVE Routed' /\ SameId'
    <2>1. /\ UNCHANGED <<client, todo, desired, active, binds, tombs, slot, inFlight>>
          /\ asked' \in todo /\ client = "init"
      BY <1>2 DEF InitRegister
    <2>2. Unacknowledged' = Unacknowledged BY <2>1 DEF Unacknowledged
    <2> QED BY <2>1, <2>2 DEF Routed, SameId
  <1>3. CASE InitAck
    <2> DEFINE m == Head(toClient[gen])
    <2>0. client = "init" /\ asked # None BY <1>3 DEF InitAck
    <2>1. UNCHANGED <<desired, slot, inFlight, tombs>> BY <1>3 DEF InitAck
    <2>2. CASE IdOf[m.reg] = IdOf[asked]
      <3>1. binds' = binds \cup {<<asked, m.reg>>} /\ todo' = todo \ {asked} /\ asked' = None /\ client' = client
        BY <1>3, <2>2 DEF InitAck
      <3>2. {b[1] : b \in binds'} = {b[1] : b \in binds} \cup {asked} BY <3>1, FirstsAdded
      <3>3. Unacknowledged' = Unacknowledged BY <2>1 DEF Unacknowledged
      <3>4. SameId'
        <4> HIDE DEF m
        <4> QED BY <2>2, <3>1 DEF SameId
      <3>5. asked \in todo /\ todo \subseteq desired BY <2>0 DEF Routed
      <3>6. desired \ todo' = (desired \ todo) \cup {asked} BY <3>1, <3>5
      <3> HIDE DEF m
      <3> QED BY <2>0, <2>1, <3>1, <3>2, <3>3, <3>4, <3>5, <3>6 DEF Routed
    <2>3. CASE IdOf[m.reg] # IdOf[asked]
      <3>1. Leaves BY <1>3, <2>3 DEF InitAck, LeaveForGood, Leaves
      <3> QED BY <3>1, StaysRouted
    <2> QED BY <2>2, <2>3
  <1>4. CASE GenerationSpent \/ InitOther \/ LoseConnection \/ Shutdown \/ ReadDrain
    <2>1. Leaves
      BY <1>4 DEF GenerationSpent, InitOther, LoseConnection, Shutdown, ReadDrain, LeaveForGood,
                  LeaveDirty, LeaveClean, Leaves
    <2> QED BY <2>1, StaysRouted
  <1>5. CASE Activate
    <2>1. /\ client = "init" /\ client' = "ready" /\ active' = desired /\ todo = {}
          /\ UNCHANGED <<desired, binds>>
      BY <1>5 DEF Activate
    <2> QED BY <2>1 DEF Routed, SameId
  <1>6. CASE AckFound
    <2> DEFINE m == Head(toClient[gen])
    <2>0. client = "ready" /\ UNCHANGED <<client, todo, asked>> BY <1>6 DEF AckFound
    <2>1. PICK r \in Found(IdOf[m.reg]) :
            \/ UNCHANGED <<desired, active, binds>>
            \/ Commit(r, m)
      BY <1>6 DEF AckFound
    <2>2. IdOf[r] = IdOf[m.reg] BY FoundTypes
    <2> HIDE DEF m
    <2>3. CASE UNCHANGED <<desired, active, binds>>
      BY <2>0, <2>3, StaysRouted DEF Stays
    <2>4. CASE Commit(r, m)
      <3>1. binds' = binds \cup {<<r, m.reg>>} /\ active' = active \cup {r} /\ desired' = desired \cup {r}
        BY <2>4 DEF Commit
      <3>2. {b[1] : b \in binds'} = {b[1] : b \in binds} \cup {r} BY <3>1, FirstsAdded
      <3>3. SameId' BY <2>2, <3>1 DEF SameId
      <3> QED BY <2>0, <3>1, <3>2, <3>3 DEF Routed
    <2> QED BY <2>1, <2>3, <2>4
  <1>7. CASE AckMissing \/ ReadError \/ ReadReject \/ ReadOpen
    <2>1. Stays \/ Leaves
      BY <1>7 DEF AckMissing, ReadError, ReadReject, ReadOpen, LeaveDirty, LeaveForGood, Stays, Leaves
    <2> QED BY <2>1, StaysRouted
  <1>8. ASSUME NEW R \in SUBSET Reg, ExpireOverdue(R) PROVE Routed' /\ SameId'
    <2>1. Stays \/ Leaves BY <1>8 DEF ExpireOverdue, LeaveClean, Stays, Leaves
    <2> QED BY <2>1, StaysRouted
  <1>9. CASE RefuseRegister
    <2>1. Stays BY <1>9 DEF RefuseRegister, Stays
    <2> QED BY <2>1, StaysRouted
  <1>10. ASSUME NEW r \in Reg, Register(r) \/ RegisterWriteError(r) \/ RegisterWriteTimeout(r)
         PROVE  Routed' /\ SameId'
    <2>0. client = "ready" BY <1>10 DEF Register, RegisterWriteError, RegisterWriteTimeout, Begins
    <2>1. Stays \/ Leaves
      BY <1>10, <2>0 DEF Register, RegisterWriteError, RegisterWriteTimeout, LeaveDirty, LeaveClean,
                         Stays, Leaves
    <2> QED BY <2>1, StaysRouted
  <1>11. CASE UnregisterActive
    <2> DEFINE id == Head(commands).id
    <2>1. /\ client = "ready" /\ active' = active \ ById(active, id)
          /\ desired' = desired \ ById(desired, id) /\ UNCHANGED <<todo, asked>>
      BY <1>11 DEF UnregisterActive, Unregister
    <2>2. CASE UNCHANGED client /\ binds' = {b \in binds : IdOf[b[1]] # id}
      <3>1. {b[1] : b \in binds'} = {b[1] : b \in binds} \ ById({b[1] : b \in binds}, id)
        <4> HIDE DEF id
        <4> QED BY <2>2 DEF ById
      <3>2. SameId' BY <2>2 DEF SameId
      <3> HIDE DEF id
      <3> QED BY <2>1, <2>2, <3>1, <3>2 DEF Routed
    <2>3. CASE LeaveDirty("left", None) BY <2>3, StaysRouted DEF LeaveDirty, Leaves
    <2> QED BY <1>11, <2>2, <2>3 DEF UnregisterActive
  <1>12. CASE UnregisterOther
    <2> DEFINE id == Head(commands).id
    <2>1. /\ client = "ready" /\ ById(active, id) = {}
          /\ active' = active \ ById(active, id)
          /\ desired' = desired \ ById(desired, id) /\ UNCHANGED <<client, todo, asked, binds>>
      BY <1>12 DEF UnregisterOther, Unregister
    <2> HIDE DEF id
    <2>2. active = desired BY <2>1 DEF Routed
    <2>3. UNCHANGED <<active, desired>> BY <2>1, <2>2
    <2> QED BY <2>1, <2>3, StaysRouted DEF Stays
  <1>13. CASE OfflineCommand
    <2>1. client = "down" /\ client' = client /\ binds' = binds BY <1>13 DEF OfflineCommand
    <2> QED BY <2>1 DEF Routed, SameId
  <1>14. ASSUME UNCHANGED <<client, todo, asked, active, desired, binds, slot, inFlight, tombs>>
         PROVE  Routed' /\ SameId'
    BY <1>14, StaysRouted DEF Stays, Unacknowledged
  <1>15. ASSUME NEW r \in Reg, CallRegister(r) \/ GiveUp(r) PROVE Routed' /\ SameId'
    BY <1>14, <1>15 DEF CallRegister, GiveUp
  <1>16. ASSUME NEW id \in ServiceId, CallUnregister(id) PROVE Routed' /\ SameId'
    BY <1>14, <1>16 DEF CallUnregister
  <1>17. ASSUME NEW g \in Gen, ServerStep(g) PROVE Routed' /\ SameId'
    BY <1>14, <1>17 DEF ServerStep, ServerReads, SrvAdmit, SrvRefuse, SrvUnregister, SrvShutdown,
                        SrvStop, SrvGone, CloseListener, SrvOpen
  <1> QED
    BY <1>1, <1>2, <1>3, <1>4, <1>5, <1>6, <1>7, <1>8, <1>9, <1>10, <1>11, <1>12, <1>13, <1>15, <1>16,
       <1>17, NextCases DEF ClientStep, InitStep, ReadMessage, TakeCommand

(***************************************************************************)
(* A registration is begun once.                                           *)
(***************************************************************************)

\* The command channel holds each registration at most once, and its caller has
\* no answer yet.
QueueSound ==
  \A i \in 1..Len(commands) :
    commands[i].op = "register" =>
      /\ commands[i].reg \in Reg \ Boot
      /\ reply[commands[i].reg] \in {"queued", "dropped"}
      /\ \A j \in 1..Len(commands) :
           commands[j].op = "register" /\ commands[j].reg = commands[i].reg => j = i

Queued == client # "stopped" => QueueSound

\* What is called for and not begun has no transaction.
Unbegun == \A q \in Reg : reply[q] \in {"idle", "queued"} => q \notin Unacknowledged

\* Deadlines are those of transactions.
ArmedOnly == armed \subseteq Unacknowledged

\* Callers still in the queue, but for those of X, are left to wait.
Heeds(X) ==
  \A q \in Reg :
    /\ q \notin X /\ reply[q] \in {"queued", "dropped"} => reply'[q] \in {"queued", "dropped"}
    /\ reply'[q] \in {"idle", "queued"} => reply[q] \in {"idle", "queued"}

LEMMA QueueKept ==
  ASSUME QueueSound, UNCHANGED commands, Heeds({})
  PROVE  QueueSound'
  BY DEF QueueSound, Heeds

LEMMA QueueTaken ==
  ASSUME Types, QueueSound, commands # <<>>, commands' = Tail(commands), NEW X, Heeds(X),
         \A q \in X : Head(commands).op = "register" /\ Head(commands).reg = q
  PROVE  QueueSound'
  <1>1. /\ Len(Tail(commands)) = Len(commands) - 1 /\ Len(commands) \in Nat \ {0}
        /\ \A j \in 1..Len(Tail(commands)) : Tail(commands)[j] = commands[j + 1]
        /\ Head(commands) = commands[1]
    <2>1. commands \in Seq(Command) BY DEF Types, CallTypes
    <2> QED BY <2>1, HeadTailProperties, EmptySeq
  <1> SUFFICES ASSUME NEW i \in 1..Len(commands'), commands'[i].op = "register"
               PROVE  /\ commands'[i].reg \in Reg \ Boot
                      /\ reply'[commands'[i].reg] \in {"queued", "dropped"}
                      /\ \A j \in 1..Len(commands') :
                           commands'[j].op = "register" /\ commands'[j].reg = commands'[i].reg => j = i
    BY DEF QueueSound
  <1>2. i + 1 \in 1..Len(commands) /\ 1 \in 1..Len(commands) /\ commands'[i] = commands[i + 1] BY <1>1
  <1> DEFINE q == commands[i + 1].reg
  <1>3. /\ q \in Reg \ Boot /\ reply[q] \in {"queued", "dropped"}
        /\ \A j \in 1..Len(commands) : commands[j].op = "register" /\ commands[j].reg = q => j = i + 1
    BY <1>2 DEF QueueSound
  <1>4. q \notin X
    <2>1. ASSUME q \in X PROVE FALSE
      <3>1. commands[1].op = "register" /\ commands[1].reg = q BY <1>1, <2>1
      <3>2. 1 = i + 1 BY <1>2, <1>3, <3>1
      <3> QED BY <3>2
    <2> QED BY <2>1
  <1>5. reply'[q] \in {"queued", "dropped"} BY <1>3, <1>4 DEF Heeds
  <1>6. ASSUME NEW j \in 1..Len(commands'), commands'[j].op = "register", commands'[j].reg = q
        PROVE  j = i
    <2>1. j + 1 \in 1..Len(commands) /\ commands'[j] = commands[j + 1] BY <1>1
    <2>2. j + 1 = i + 1 BY <1>3, <1>6, <2>1
    <2> QED BY <2>2
  <1> QED BY <1>2, <1>3, <1>5, <1>6

LEMMA QueueGrown ==
  ASSUME Types, QueueSound, NEW c \in Command, commands' = Append(commands, c), Heeds({}),
         c.op = "register" =>
           /\ c.reg \in Reg \ Boot /\ reply'[c.reg] \in {"queued", "dropped"}
           /\ reply[c.reg] \notin {"queued", "dropped"}
  PROVE  QueueSound'
  <1>1. /\ Len(commands') = Len(commands) + 1 /\ Len(commands) \in Nat
        /\ \A i \in 1..Len(commands) : commands'[i] = commands[i]
        /\ commands'[Len(commands) + 1] = c
    <2>1. commands \in Seq(Command) BY DEF Types, CallTypes
    <2> QED BY <2>1, AppendProperties
  <1>2. \A i \in 1..Len(commands') : i \in 1..Len(commands) \/ i = Len(commands) + 1 BY <1>1
  <1>3. \A i \in 1..Len(commands) : commands[i].op = "register" =>
          /\ commands[i].reg \in Reg \ Boot
          /\ reply[commands[i].reg] \in {"queued", "dropped"}
          /\ reply'[commands[i].reg] \in {"queued", "dropped"}
    BY DEF QueueSound, Heeds
  <1> SUFFICES ASSUME NEW i \in 1..Len(commands'), commands'[i].op = "register"
               PROVE  /\ commands'[i].reg \in Reg \ Boot
                      /\ reply'[commands'[i].reg] \in {"queued", "dropped"}
                      /\ \A j \in 1..Len(commands') :
                           commands'[j].op = "register" /\ commands'[j].reg = commands'[i].reg => j = i
    BY DEF QueueSound
  <1>4. CASE i \in 1..Len(commands)
    <2>1. commands'[i] = commands[i] BY <1>1, <1>4
    <2>2. ASSUME NEW j \in 1..Len(commands'), commands'[j].op = "register",
                 commands'[j].reg = commands'[i].reg
          PROVE  j = i
      <3>1. CASE j \in 1..Len(commands)
        <4>1. commands'[j] = commands[j] BY <1>1, <3>1
        <4> QED BY <1>4, <2>1, <2>2, <3>1, <4>1 DEF QueueSound
      <3>2. CASE j = Len(commands) + 1 BY <1>1, <1>3, <1>4, <2>1, <2>2, <3>2
      <3> QED BY <1>2, <3>1, <3>2
    <2> QED BY <1>3, <1>4, <2>1, <2>2
  <1>5. CASE i = Len(commands) + 1
    <2>1. commands'[i] = c BY <1>1, <1>5
    <2>2. ASSUME NEW j \in 1..Len(commands'), commands'[j].op = "register",
                 commands'[j].reg = commands'[i].reg
          PROVE  j = i
      <3>1. CASE j \in 1..Len(commands)
        <4>1. commands'[j] = commands[j] BY <1>1, <3>1
        <4> QED BY <1>3, <2>1, <2>2, <3>1, <4>1
      <3> QED BY <1>2, <1>5, <3>1
    <2> QED BY <2>1, <2>2
  <1> QED BY <1>2, <1>4, <1>5

\* Answering transactions disturbs nobody in the queue.
LEMMA AnswerHeeds ==
  ASSUME Types, Unbegun, NEW X, NEW R, R \subseteq Unacknowledged \cup X,
         NEW result, result \notin {"idle", "queued"}, Answer(R, result)
  PROVE  Heeds(X)
  BY DEF Types, CallTypes, Answer, Heeds, Unbegun, Waiting

LEMMA SameHeeds ==
  ASSUME UNCHANGED reply
  PROVE  Heeds({})
  BY DEF Heeds

LEMMA ErrorHeeds == \A code : ErrorOf(code) \notin {"idle", "queued"}
  BY DEF ErrorOf

QueueFine == Queued' /\ \E X : Heeds(X)

LEMMA QueueStep ==
  ASSUME Types, Unbegun, ArmedOnly, Queued, Next
  PROVE  QueueFine
  <1> USE DEF clientVars, txnVars, stateVars, callVars
  <1>a. ASSUME UNCHANGED commands, Heeds({}), client # "stopped" \/ client' = "stopped" PROVE QueueFine
    BY <1>a, QueueKept DEF Queued, QueueFine
  <1>b. ASSUME client' = "stopped", NEW X, Heeds(X) PROVE QueueFine
    BY <1>b DEF Queued, QueueFine
  <1>c. ASSUME client # "stopped", commands # <<>>, commands' = Tail(commands), NEW X, Heeds(X),
               \A q \in X : Head(commands).op = "register" /\ Head(commands).reg = q
        PROVE  QueueFine
    BY <1>c, QueueTaken DEF Queued, QueueFine
  <1>d. "disconnected" \notin {"idle", "queued"} /\ "cancelled" \notin {"idle", "queued"}
          /\ "timeout" \notin {"idle", "queued"} /\ "exists" \notin {"idle", "queued"}
          /\ "exhausted" \notin {"idle", "queued"} /\ "ok" \notin {"idle", "queued"}
          /\ "missed" \notin {"idle", "queued"}
    OBVIOUS
  <1>e. ASSUME NEW why, NEW r, LeaveForGood(why, r) PROVE QueueFine
    <2>1. Heeds(Reg) BY <1>d, <1>e, AnswerHeeds DEF LeaveForGood
    <2> QED BY <1>b, <1>e, <2>1 DEF LeaveForGood
  <1>1. ASSUME NEW m \in Modes, Connect(m) PROVE QueueFine
    <2>1. Heeds({}) BY <1>1, <1>d, AnswerHeeds DEF Connect, SetMode
    <2> QED BY <1>1, <1>a, <2>1 DEF Connect
  <1>2. CASE GenerationSpent \/ InitOther BY <1>2, <1>e DEF GenerationSpent, InitOther
  <1>3. CASE Shutdown
    <2>1. Heeds(Reg) BY <1>3, <1>d, AnswerHeeds DEF Shutdown
    <2> QED BY <1>3, <1>b, <2>1 DEF Shutdown
  <1>4. CASE (\E r \in Reg : InitRegister(r)) \/ Activate \/ LoseConnection
    <2>1. UNCHANGED <<reply, commands>> /\ client # "stopped"
      BY <1>4 DEF InitRegister, Activate, LoseConnection, Connected
    <2> QED BY <1>a, <2>1, SameHeeds
  <1>5. CASE InitAck
    <2>1. UNCHANGED commands /\ client # "stopped" BY <1>5 DEF InitAck
    <2>2. UNCHANGED reply \/ \E why, r : LeaveForGood(why, r) BY <1>5 DEF InitAck
    <2> QED BY <1>a, <1>e, <2>1, <2>2, SameHeeds
  <1>6. CASE AckFound
    <2>1. UNCHANGED commands /\ client # "stopped" BY <1>6 DEF AckFound
    <2>2. \/ UNCHANGED reply
          \/ \E r \in Unacknowledged : \E result : result \notin {"idle", "queued"} /\ Answer({r}, result)
      BY <1>6, <1>d, FoundTypes DEF AckFound, Commit
    <2>3. Heeds({}) BY <2>2, SameHeeds, AnswerHeeds
    <2> QED BY <1>a, <2>1, <2>3
  <1>7. CASE AckMissing \/ ReadOpen
    <2>1. UNCHANGED <<commands, reply>> /\ client # "stopped" BY <1>7 DEF AckMissing, ReadOpen
    <2> QED BY <1>a, <2>1, SameHeeds
  <1>8. CASE ReadError
    <2>1. UNCHANGED commands /\ client # "stopped" BY <1>8 DEF ReadError
    <2>2. CASE slot = None BY <1>8, <1>e, <2>2 DEF ReadError
    <2>3. CASE slot # None
      <3>1. \E code : Answer({slot}, ErrorOf(code)) BY <1>8, <2>3 DEF ReadError
      <3>2. slot \in Unacknowledged BY <2>3 DEF Unacknowledged
      <3>3. Heeds({}) BY <3>1, <3>2, ErrorHeeds, AnswerHeeds
      <3> QED BY <1>a, <2>1, <3>3
    <2> QED BY <2>2, <2>3
  <1>9. CASE ReadReject
    <2> DEFINE m == Head(toClient[gen])
    <2>1. UNCHANGED commands /\ client # "stopped" BY <1>9 DEF ReadReject
    <2>2. \E result : result \notin {"idle", "queued"} /\ Answer(Found(IdOf[m.reg]), result)
      BY <1>9, <1>d, ErrorHeeds DEF ReadReject
    <2>3. Found(IdOf[m.reg]) \subseteq Unacknowledged BY FoundTypes
    <2> HIDE DEF m
    <2>4. Heeds({}) BY <2>2, <2>3, AnswerHeeds
    <2> QED BY <1>a, <2>1, <2>4
  <1>10. CASE ReadDrain
    <2>1. UNCHANGED commands /\ client # "stopped" BY <1>10 DEF ReadDrain
    <2>2. Answer(Unacknowledged \cup {}, "disconnected") BY <1>10 DEF ReadDrain, LeaveClean
    <2>3. Heeds({}) BY <1>d, <2>2, AnswerHeeds
    <2> QED BY <1>a, <2>1, <2>3
  <1>11. ASSUME NEW R \in SUBSET Reg, ExpireOverdue(R) PROVE QueueFine
    <2>1. UNCHANGED commands /\ client # "stopped" /\ R \subseteq armed BY <1>11 DEF ExpireOverdue
    <2>2. Answer(Unacknowledged \cup {}, "timeout") \/ Answer(R, "timeout")
      BY <1>11 DEF ExpireOverdue, LeaveClean
    <2>3. Heeds({}) BY <1>d, <2>1, <2>2, AnswerHeeds DEF ArmedOnly
    <2> QED BY <1>a, <2>1, <2>3
  <1>12. CASE RefuseRegister
    <2> DEFINE r == Head(commands).reg
    <2>1. /\ client # "stopped" /\ commands # <<>> /\ commands' = Tail(commands)
          /\ Head(commands).op = "register"
      BY <1>12 DEF RefuseRegister, NextCommand
    <2>2. UNCHANGED reply \/ Answer({r}, "exhausted") \/ Answer({r}, "exists")
      BY <1>12 DEF RefuseRegister
    <2>3. Heeds({r}) \/ Heeds({}) BY <1>d, <2>2, SameHeeds, AnswerHeeds
    <2> QED BY <1>c, <2>1, <2>3
  <1>13. ASSUME NEW r \in Reg, Register(r) \/ RegisterWriteError(r) \/ RegisterWriteTimeout(r)
         PROVE  QueueFine
    <2>1. /\ client # "stopped" /\ commands # <<>> /\ commands' = Tail(commands)
          /\ Head(commands).op = "register" /\ Head(commands).reg = r
      BY <1>13 DEF Register, RegisterWriteError, RegisterWriteTimeout, Begins, NextCommand
    <2>2. \/ reply' = [reply EXCEPT ![r] = "waiting"]
          \/ Answer(Unacknowledged \cup {r}, "timeout") \/ Answer({r}, "timeout")
      BY <1>13 DEF Register, RegisterWriteError, RegisterWriteTimeout, LeaveClean
    <2>3. Heeds({r})
      <3>1. CASE reply' = [reply EXCEPT ![r] = "waiting"]
        BY <3>1 DEF Types, CallTypes, Heeds
      <3> QED BY <1>d, <2>2, <3>1, AnswerHeeds
    <2> QED BY <1>c, <2>1, <2>3
  <1>14. CASE UnregisterActive \/ UnregisterOther
    <2>1. /\ client # "stopped" /\ commands # <<>> /\ commands' = Tail(commands)
          /\ \E id : Unregister(id)
      BY <1>14 DEF UnregisterActive, UnregisterOther, NextCommand
    <2>2. Heeds({}) BY <1>d, <2>1, AnswerHeeds DEF Unregister, ById
    <2> QED BY <1>c, <2>1, <2>2
  <1>15. CASE OfflineCommand
    <2>1. /\ client # "stopped" /\ commands # <<>> /\ commands' = Tail(commands)
      BY <1>15 DEF OfflineCommand
    <2>2. CASE Head(commands).op = "register"
      <3>1. Heeds({Head(commands).reg}) BY <1>15, <1>d, <2>2, AnswerHeeds DEF OfflineCommand
      <3> QED BY <1>c, <2>1, <2>2, <3>1
    <2>3. CASE Head(commands).op # "register"
      <3>1. Unregister(Head(commands).id) BY <1>15, <2>3 DEF OfflineCommand
      <3>2. Heeds({}) BY <1>d, <3>1, AnswerHeeds DEF Unregister, ById
      <3> QED BY <1>c, <2>1, <3>2
    <2> QED BY <2>2, <2>3
  <1>16. ASSUME NEW r \in Reg, CallRegister(r) PROVE QueueFine
    <2>1. r \notin Boot /\ reply[r] = "idle" /\ client # "stopped" /\ UNCHANGED client
      BY <1>16 DEF CallRegister
    <2>2. CASE client = "ready"
      <3> DEFINE c == [op |-> "register", reg |-> r]
      <3>1. commands' = Append(commands, c) /\ reply' = [reply EXCEPT ![r] = "queued"]
        BY <1>16, <2>2 DEF CallRegister
      <3>2. reply'[r] = "queued" /\ Heeds({}) BY <2>1, <3>1 DEF Types, CallTypes, Heeds
      <3>3. c \in Command /\ c.op = "register" /\ c.reg = r BY DEF Command
      <3> HIDE DEF c
      <3>4. QueueSound' BY <2>1, <3>1, <3>2, <3>3, QueueGrown DEF Queued
      <3> QED BY <3>2, <3>4 DEF QueueFine, Queued
    <2>3. CASE client # "ready"
      <3>1. UNCHANGED commands /\ reply' = [reply EXCEPT ![r] = "disconnected"]
        BY <1>16, <2>3 DEF CallRegister
      <3>2. Heeds({}) BY <2>1, <3>1 DEF Types, CallTypes, Heeds
      <3> QED BY <1>a, <2>1, <3>1, <3>2
    <2> QED BY <2>2, <2>3
  <1>17. ASSUME NEW id \in ServiceId, CallUnregister(id) PROVE QueueFine
    <2> DEFINE c == [op |-> "unregister", id |-> id]
    <2>1. client # "stopped" /\ commands' = Append(commands, c) /\ UNCHANGED reply
      BY <1>17 DEF CallUnregister
    <2>2. c \in Command /\ c.op # "register" BY DEF Command
    <2> HIDE DEF c
    <2>3. QueueSound' BY <2>1, <2>2, SameHeeds, QueueGrown DEF Queued
    <2> QED BY <2>1, <2>3, SameHeeds DEF QueueFine, Queued
  <1>18. ASSUME NEW r \in Reg, GiveUp(r) PROVE QueueFine
    <2>1. UNCHANGED <<client, commands>> BY <1>18 DEF GiveUp
    <2>2. Heeds({}) BY <1>18 DEF GiveUp, Types, CallTypes, Heeds
    <2> QED BY <1>a, <2>1, <2>2
  <1>19. ASSUME NEW g \in Gen, ServerStep(g) PROVE QueueFine
    <2>1. UNCHANGED <<client, commands, reply>>
      BY <1>19 DEF ServerStep, ServerReads, SrvAdmit, SrvRefuse, SrvUnregister, SrvShutdown,
                   SrvStop, SrvGone, CloseListener, SrvOpen
    <2> QED BY <1>a, <2>1, SameHeeds
  <1> QED
    BY <1>1, <1>2, <1>3, <1>4, <1>5, <1>6, <1>7, <1>8, <1>9, <1>10, <1>11, <1>12, <1>13, <1>14,
       <1>15, <1>16, <1>17, <1>18, <1>19, NextCases DEF ClientStep, InitStep, ReadMessage, TakeCommand

LEMMA UnbegunStep ==
  ASSUME Types, Unbegun, Next, NEW X, Heeds(X)
  PROVE  Unbegun'
  <1>1. \A q \in Reg : reply'[q] \in {"idle", "queued"} => reply[q] \in {"idle", "queued"} BY DEF Heeds
  <1>2. CASE Unacknowledged' \subseteq Unacknowledged BY <1>1, <1>2 DEF Unbegun
  <1>3. ASSUME NEW m \in Modes, Connect(m) PROVE Unbegun' BY <1>2, <1>3, ConnectClears
  <1>4. CASE Turn
    <2>1. CASE Eases BY <1>2, <2>1 DEF Eases
    <2>2. ASSUME NEW id \in ServiceId, Revokes(id) PROVE Unbegun' BY <1>2, <2>2 DEF Revokes
    <2>3. ASSUME NEW r \in Reg, Starts(r) PROVE Unbegun'
      <3>1. reply'[r] = "waiting" BY <2>3 DEF Starts, Types, CallTypes
      <3>2. Unacknowledged' \subseteq Unacknowledged \cup {r} BY <2>3 DEF Starts, Unacknowledged
      <3> QED BY <1>1, <3>1, <3>2 DEF Unbegun
    <2>4. ASSUME NEW r \in Reg, Abandons(r) PROVE Unbegun'
      BY <1>2, <2>4 DEF Abandons, Unacknowledged
    <2>5. ASSUME NEW r \in Reg, Adopts(r) PROVE Unbegun'
      BY <1>2, <2>5, ReleaseTypes DEF Adopts
    <2> QED BY <1>4, <2>1, <2>2, <2>3, <2>4, <2>5 DEF Turn
  <1> QED BY <1>3, <1>4, Turns

LEMMA ArmedStep ==
  ASSUME Types, ArmedOnly, Next
  PROVE  ArmedOnly'
  <1> USE DEF clientVars, txnVars, stateVars, callVars
  <1>a. CASE UNCHANGED <<slot, inFlight, armed>> BY <1>a DEF ArmedOnly, Unacknowledged
  <1>b. CASE \E R : Release(R)
    <2>1. PICK R : Release(R) BY <1>b
    <2>2. Unacknowledged' = Unacknowledged \ R /\ armed' = armed \ R BY <2>1, ReleaseTypes DEF Release
    <2> QED BY <2>2 DEF ArmedOnly
  <1>c. ASSUME NEW r \in Reg, Register(r) \/ RegisterWriteError(r) PROVE ArmedOnly'
    <2>1. Unacknowledged' = Unacknowledged \cup {r}
      BY <1>c, RegAssumption DEF Register, RegisterWriteError, Begins, NoRoom, Unacknowledged
    <2>2. armed' \subseteq armed \cup {r} BY <1>c DEF Register, RegisterWriteError, Armed
    <2> QED BY <2>1, <2>2 DEF ArmedOnly
  <1>1. (\E m \in Modes : Connect(m)) => \E R : Release(R) BY DEF Connect, SetMode
  <1>2. GenerationSpent \/ InitStep \/ LoseConnection \/ Shutdown => UNCHANGED <<slot, inFlight, armed>>
    BY DEF GenerationSpent, InitStep, InitRegister, InitAck, InitOther, Activate, LoseConnection, Shutdown
  <1>3. AckFound \/ ReadReject \/ ReadDrain => \E R : Release(R)
    BY DEF AckFound, ReadReject, ReadDrain, LeaveClean
  <1>4. AckMissing \/ ReadOpen => UNCHANGED <<slot, inFlight, armed>> BY DEF AckMissing, ReadOpen
  <1>5. ReadError => UNCHANGED <<slot, inFlight, armed>> \/ \E R : Release(R) BY DEF ReadError
  <1>6. (\E R \in SUBSET Reg : ExpireOverdue(R)) => \E R : Release(R)
    BY DEF ExpireOverdue, LeaveClean
  <1>7. RefuseRegister => UNCHANGED <<slot, inFlight, armed>> BY DEF RefuseRegister
  <1>8. (\E r \in Reg : RegisterWriteTimeout(r))
          => UNCHANGED <<slot, inFlight, armed>> \/ \E R : Release(R)
    BY DEF RegisterWriteTimeout, LeaveClean
  <1>9. UnregisterActive \/ UnregisterOther => \E R : Release(R)
    BY DEF UnregisterActive, UnregisterOther, Unregister
  <1>10. OfflineCommand => UNCHANGED <<slot, inFlight, armed>> \/ \E R : Release(R)
    BY DEF OfflineCommand, Unregister
  <1>11. (\E r \in Reg : CallRegister(r) \/ GiveUp(r)) \/ (\E id \in ServiceId : CallUnregister(id))
           => UNCHANGED <<slot, inFlight, armed>>
    BY DEF CallRegister, GiveUp, CallUnregister
  <1>12. (\E g \in Gen : ServerStep(g)) => UNCHANGED <<slot, inFlight, armed>>
    BY DEF ServerStep, ServerReads, SrvAdmit, SrvRefuse, SrvUnregister, SrvShutdown, SrvStop, SrvGone,
           CloseListener, SrvOpen
  <1> QED
    BY <1>a, <1>b, <1>c, <1>1, <1>2, <1>3, <1>4, <1>5, <1>6, <1>7, <1>8, <1>9, <1>10, <1>11, <1>12,
       NextCases DEF ClientStep, ReadMessage, TakeCommand

\* What is desired is not being registered.
Apart == desired \cap Unacknowledged = {}

LEMMA ApartStep ==
  ASSUME Types, Apart, Next
  PROVE  Apart'
  <1>1. ASSUME NEW m \in Modes, Connect(m) PROVE Apart' BY <1>1, ConnectClears DEF Apart
  <1>2. CASE Turn
    <2>1. CASE Eases BY <2>1 DEF Eases, Apart
    <2>2. ASSUME NEW id \in ServiceId, Revokes(id) PROVE Apart' BY <2>2 DEF Revokes, Apart
    <2>3. ASSUME NEW r \in Reg, Starts(r) PROVE Apart'
      <3>1. Unacknowledged' \subseteq Unacknowledged \cup {r} BY <2>3 DEF Starts, Unacknowledged
      <3>2. r \notin desired BY <2>3, BeginsClear DEF Starts
      <3> QED BY <2>3, <3>1, <3>2 DEF Starts, Apart
    <2>4. ASSUME NEW r \in Reg, Abandons(r) PROVE Apart' BY <2>4 DEF Abandons, Unacknowledged, Apart
    <2>5. ASSUME NEW r \in Reg, Adopts(r) PROVE Apart' BY <2>5, ReleaseTypes DEF Adopts, Apart
    <2> QED BY <1>2, <2>1, <2>2, <2>3, <2>4, <2>5 DEF Turn
  <1> QED BY <1>1, <1>2, Turns

(***************************************************************************)
(* The streams of the current Session.                                     *)
(***************************************************************************)

\* Sessions that have not begun have no server side.
Untouched ==
  \A g \in Gen : g > gen =>
    srv[g] = "none" /\ toServer[g] = <<>> /\ toClient[g] = <<>> /\ services[g] = {}

LEMMA StreamForms ==
  ASSUME ClientStep
  PROVE  /\ UNCHANGED toServer \/ \E msgs : Send(msgs)
         /\ UNCHANGED toClient \/ Consume \/ HangUp
         /\ UNCHANGED <<gen, srv, services>>
  <1> USE DEF clientVars, wireVars, serverVars
  <1> DEFINE Out == UNCHANGED toServer \/ \E msgs : Send(msgs)
             Inn == UNCHANGED toClient \/ Consume \/ HangUp
             Same3 == UNCHANGED <<gen, srv, services>>
  <1>1. GenerationSpent \/ InitStep \/ LoseConnection \/ Shutdown => Out /\ Inn /\ Same3
    BY DEF GenerationSpent, InitStep, InitRegister, InitAck, InitOther, Activate, LoseConnection, Shutdown
  <1>2. AckFound => Out /\ Inn /\ Same3 BY DEF AckFound, Cleanup
  <1>3. AckMissing => Out /\ Inn /\ Same3 BY DEF AckMissing, Cleanup
  <1>4. ReadError \/ ReadReject \/ ReadOpen \/ ReadDrain => Out /\ Inn /\ Same3
    BY DEF ReadError, ReadReject, ReadOpen, ReadDrain
  <1>5. (\E R \in SUBSET Reg : ExpireOverdue(R)) => Out /\ Inn /\ Same3 BY DEF ExpireOverdue
  <1>6. RefuseRegister \/ OfflineCommand => Out /\ Inn /\ Same3 BY DEF RefuseRegister, OfflineCommand
  <1>7. (\E r \in Reg : Register(r) \/ RegisterWriteError(r)) => Out /\ Inn /\ Same3
    BY DEF Register, RegisterWriteError
  <1>8. (\E r \in Reg : RegisterWriteTimeout(r)) => Out /\ Inn /\ Same3 BY DEF RegisterWriteTimeout
  <1>9. UnregisterActive => Out /\ Inn /\ Same3 BY DEF UnregisterActive
  <1>10. UnregisterOther => Out /\ Inn /\ Same3 BY DEF UnregisterOther, Cleanup
  <1>11. (\E r \in Reg : CallRegister(r) \/ GiveUp(r)) \/ (\E id \in ServiceId : CallUnregister(id))
           => Out /\ Inn /\ Same3
    BY DEF CallRegister, GiveUp, CallUnregister
  <1> QED
    BY <1>1, <1>2, <1>3, <1>4, <1>5, <1>6, <1>7, <1>8, <1>9, <1>10, <1>11
    DEF ClientStep, ReadMessage, TakeCommand

LEMMA ServerForms ==
  ASSUME Types, NEW g \in Gen, ServerStep(g)
  PROVE  /\ UNCHANGED <<client, gen, mode, todo, asked, slot, inFlight, tombs, desired, active, binds,
                        leaked, reply, commands>>
         /\ srv[g] \in {"up", "closing"} \/ UNCHANGED <<srv, services, toServer, toClient>>
         /\ \A h \in Gen \ {g} : /\ srv'[h] = srv[h] /\ services'[h] = services[h]
                                 /\ toServer'[h] = toServer[h] /\ toClient'[h] = toClient[h]
  <1> USE DEF clientVars, txnVars, stateVars, callVars, wireVars, serverVars
  <1>1. UNCHANGED <<client, gen, mode, todo, asked, slot, inFlight, tombs, desired, active, binds,
                    leaked, reply, commands>>
    BY DEF ServerStep, ServerReads, SrvAdmit, SrvRefuse, SrvUnregister, SrvShutdown, SrvStop, SrvGone,
           CloseListener, SrvOpen
  <1>2. srv[g] \in {"up", "closing"} \/ UNCHANGED <<srv, services, toServer, toClient>>
    BY DEF ServerStep, ServerReads, SrvAdmit, SrvRefuse, SrvUnregister, SrvShutdown, SrvStop, SrvGone,
           CloseListener, SrvOpen, Received
  <1>3. ASSUME NEW h \in Gen \ {g}
        PROVE  /\ srv'[h] = srv[h] /\ services'[h] = services[h]
               /\ toServer'[h] = toServer[h] /\ toClient'[h] = toClient[h]
    <2>0. /\ srv \in [Gen -> {"none", "up", "closing", "gone"}] /\ services \in [Gen -> SUBSET Reg]
          /\ toServer \in [Gen -> Seq(ToServer)] /\ toClient \in [Gen -> Seq(ToClient)]
      BY DEF Types, ServerTypes, WireTypes
    <2>1. CASE SrvAdmit(g) BY <2>0, <2>1 DEF SrvAdmit, Reply, Took
    <2>2. CASE SrvRefuse(g) BY <2>0, <2>2 DEF SrvRefuse, Reply, Took
    <2>3. CASE SrvUnregister(g) BY <2>0, <2>3 DEF SrvUnregister, Forget, Took
    <2>4. CASE SrvShutdown(g) BY <2>0, <2>4 DEF SrvShutdown, Reply
    <2>5. CASE SrvStop(g) \/ SrvGone(g) BY <2>0, <2>5 DEF SrvStop, SrvGone
    <2>6. ASSUME NEW r \in Reg, CloseListener(g, r) \/ SrvOpen(g, r)
          PROVE  /\ srv'[h] = srv[h] /\ services'[h] = services[h]
                 /\ toServer'[h] = toServer[h] /\ toClient'[h] = toClient[h]
      BY <2>0, <2>6 DEF CloseListener, SrvOpen, Reply
    <2> QED BY <2>1, <2>2, <2>3, <2>4, <2>5, <2>6 DEF ServerStep, ServerReads
  <1> QED BY <1>1, <1>2, <1>3

LEMMA UntouchedStep ==
  ASSUME Types, Untouched, Next
  PROVE  Untouched'
  <1>0. gen \in Nat /\ Gen \subseteq Nat BY Bounds DEF Types, TableTypes, Gen
  <1>1. ASSUME NEW m \in Modes, Connect(m) PROVE Untouched'
    <2>1. gen' = gen + 1 /\ srv' = [srv EXCEPT ![gen + 1] = "up"] /\ UNCHANGED <<services, toServer, toClient>>
      BY <1>1 DEF Connect, wireVars
    <2>2. \A g \in Gen : g > gen' => g > gen /\ g # gen + 1 BY <1>0, <2>1
    <2>3. \A g \in Gen : g # gen + 1 => srv'[g] = srv[g] BY <2>1 DEF Types, ServerTypes
    <2> QED BY <2>1, <2>2, <2>3 DEF Untouched
  <1>2. CASE ClientStep
    <2>1. \A g \in Gen : g > gen => toServer'[g] = toServer[g] /\ toClient'[g] = toClient[g]
      <3> TAKE g \in Gen
      <3> HAVE g > gen
      <3>1. g # gen BY <1>0
      <3>2. toServer \in [Gen -> Seq(ToServer)] /\ toClient \in [Gen -> Seq(ToClient)]
        BY DEF Types, WireTypes
      <3>3. toServer'[g] = toServer[g] BY <1>2, <3>1, <3>2, StreamForms DEF Send
      <3>4. toClient'[g] = toClient[g] BY <1>2, <3>1, <3>2, StreamForms DEF Consume, HangUp
      <3> QED BY <3>3, <3>4
    <2>2. UNCHANGED <<gen, srv, services>> BY <1>2, StreamForms
    <2> QED BY <2>1, <2>2 DEF Untouched
  <1>3. ASSUME NEW g \in Gen, ServerStep(g) PROVE Untouched'
    <2>1. gen' = gen BY <1>3, ServerForms
    <2>2. CASE UNCHANGED <<srv, services, toServer, toClient>> BY <2>1, <2>2 DEF Untouched
    <2>3. CASE srv[g] \in {"up", "closing"}
      <3>1. ~(g > gen) BY <2>3 DEF Untouched
      <3>2. \A h \in Gen : h > gen => h # g BY <3>1
      <3> QED BY <1>3, <2>1, <3>2, ServerForms DEF Untouched
    <2> QED BY <1>3, <2>2, <2>3, ServerForms
  <1> QED BY <1>1, <1>2, <1>3, NextCases

Listening == srv[gen] = "up"

\* Requests and withdrawals under way to the server, answers under way to the client.
Sent == SentIn(toServer[gen])
Revoked == RevokedIn(toServer[gen])
Acked == AckedIn(toClient[gen])
Answered == AnsweredIn(toClient[gen])
Ordered(q) == OrderedIn(toServer[gen], q)

\* Registrations whose answer the client is still to read.
Owed == Sent \cup Answered

LEMMA ViewTypes ==
  /\ Sent \subseteq Reg /\ Revoked \subseteq ServiceId /\ Acked \subseteq Answered /\ Answered \subseteq Reg
  /\ Owed \subseteq Reg
  BY AckedAnswered DEF Sent, SentIn, Revoked, RevokedIn, Acked, Answered, AnsweredIn, Owed

\* A step within a Session whose server reads.
InSession ==
  /\ Types /\ gen \in Gen /\ Listening
  /\ gen' = gen /\ Listening'

SendsNothing ==
  /\ Sent' = Sent /\ Revoked' = Revoked
  /\ \A q \in Reg : Ordered(q) => Ordered(q)'

SendsRegister(r) ==
  /\ Sent' = Sent \cup {r} /\ Revoked' = Revoked
  /\ \A q \in Reg : Ordered(q) => Ordered(q)'

SendsUnregister(id) ==
  /\ Sent' = Sent /\ Revoked' = Revoked \cup {id}
  /\ \A q \in Reg : IdOf[q] # id /\ Ordered(q) => Ordered(q)'

HearsNothing == Acked' = Acked /\ Answered' = Answered

Hears(m) ==
  /\ Acked = Acked' \cup AckTo(m)
  /\ Answered = Answered' \cup AnswerTo(m)

LEMMA Silence ==
  ASSUME gen' = gen
  PROVE  /\ toServer'[gen] = toServer[gen] => SendsNothing
         /\ toClient'[gen] = toClient[gen] => HearsNothing
  BY DEF SendsNothing, HearsNothing, Sent, Revoked, Ordered, Acked, Answered

LEMMA SendViews ==
  ASSUME InSession, NEW m \in ToServer, Send(<<m>>)
  PROVE  /\ Sent' = Sent \cup {r \in Reg : m = RegisterMsg(r)}
         /\ Revoked' = Revoked \cup {id \in ServiceId : m = UnregisterMsg(id)}
         /\ \A q \in Reg : m # UnregisterMsg(IdOf[q]) /\ Ordered(q) => Ordered(q)'
  <1>1. toServer[gen] \in Seq(ToServer) BY DEF InSession, Types, WireTypes
  <1>2. toServer' = [toServer EXCEPT ![gen] = @ \o <<m>>] BY DEF InSession, Listening, Send
  <1>3. toServer'[gen] = toServer[gen] \o <<m>> BY <1>2 DEF InSession, Types, WireTypes
  <1>4. toServer[gen] \o <<m>> = Append(toServer[gen], m) BY <1>1
  <1>5. toServer'[gen'] = Append(toServer[gen], m) BY <1>3, <1>4 DEF InSession
  <1> QED BY <1>1, <1>5, WriteViews DEF Sent, Revoked, Ordered

LEMMA SendKinds ==
  ASSUME InSession
  PROVE  /\ Send(<<>>) => SendsNothing
         /\ \A r \in Reg : Send(<<RegisterMsg(r)>>) => SendsRegister(r)
         /\ \A id \in ServiceId : Send(<<UnregisterMsg(id)>>) => SendsUnregister(id)
         /\ Send(<<[kind |-> "garbled"]>>) => SendsNothing
  <1>1. ASSUME Send(<<>>) PROVE SendsNothing
    <2>1. toServer[gen] \in Seq(ToServer) BY DEF InSession, Types, WireTypes
    <2>2. toServer' = [toServer EXCEPT ![gen] = @ \o <<>>] BY <1>1 DEF InSession, Listening, Send
    <2>3. toServer'[gen] = toServer[gen] BY <2>1, <2>2 DEF InSession, Types, WireTypes
    <2> QED BY <2>3, Silence DEF InSession
  <1>2. ASSUME NEW r \in Reg, Send(<<RegisterMsg(r)>>) PROVE SendsRegister(r)
    <2>1. RegisterMsg(r) \in ToServer BY DEF RegisterMsg, ToServer
    <2>2. \A q \in Reg : RegisterMsg(r) = RegisterMsg(q) <=> q = r BY MessageForms
    <2>3. \A id : RegisterMsg(r) # UnregisterMsg(id) BY MessageForms
    <2>4. /\ Sent' = Sent \cup {q \in Reg : RegisterMsg(r) = RegisterMsg(q)}
          /\ Revoked' = Revoked \cup {id \in ServiceId : RegisterMsg(r) = UnregisterMsg(id)}
          /\ \A q \in Reg : RegisterMsg(r) # UnregisterMsg(IdOf[q]) /\ Ordered(q) => Ordered(q)'
      BY <1>2, <2>1, SendViews
    <2>5. {q \in Reg : RegisterMsg(r) = RegisterMsg(q)} = {r} BY <2>2
    <2>6. {id \in ServiceId : RegisterMsg(r) = UnregisterMsg(id)} = {} BY <2>3
    <2> QED BY <2>3, <2>4, <2>5, <2>6 DEF SendsRegister
  <1>3. ASSUME NEW id \in ServiceId, Send(<<UnregisterMsg(id)>>) PROVE SendsUnregister(id)
    <2>1. UnregisterMsg(id) \in ToServer BY DEF UnregisterMsg, ToServer
    <2>2. \A i \in ServiceId : UnregisterMsg(id) = UnregisterMsg(i) <=> i = id BY MessageForms
    <2>3. \A r : UnregisterMsg(id) # RegisterMsg(r) BY MessageForms
    <2>4. /\ Sent' = Sent \cup {q \in Reg : UnregisterMsg(id) = RegisterMsg(q)}
          /\ Revoked' = Revoked \cup {i \in ServiceId : UnregisterMsg(id) = UnregisterMsg(i)}
          /\ \A q \in Reg : UnregisterMsg(id) # UnregisterMsg(IdOf[q]) /\ Ordered(q) => Ordered(q)'
      BY <1>3, <2>1, SendViews
    <2>5. {q \in Reg : UnregisterMsg(id) = RegisterMsg(q)} = {} BY <2>3
    <2>6. {i \in ServiceId : UnregisterMsg(id) = UnregisterMsg(i)} = {id} BY <2>2
    <2>7. \A q \in Reg : IdOf[q] # id => UnregisterMsg(id) # UnregisterMsg(IdOf[q])
      BY MessageForms
    <2> QED BY <2>4, <2>5, <2>6, <2>7 DEF SendsUnregister
  <1>4. ASSUME Send(<<[kind |-> "garbled"]>>) PROVE SendsNothing
    <2> DEFINE m == [kind |-> "garbled"]
    <2>1. m \in ToServer /\ m.kind = "garbled" BY DEF ToServer
    <2> HIDE DEF m
    <2>2. (\A r : m # RegisterMsg(r)) /\ (\A id : m # UnregisterMsg(id)) BY <2>1, MessageForms
    <2>3. Send(<<m>>) BY <1>4 DEF m
    <2>4. /\ Sent' = Sent \cup {q \in Reg : m = RegisterMsg(q)}
          /\ Revoked' = Revoked \cup {i \in ServiceId : m = UnregisterMsg(i)}
          /\ \A q \in Reg : m # UnregisterMsg(IdOf[q]) /\ Ordered(q) => Ordered(q)'
      BY <2>1, <2>3, SendViews
    <2> QED BY <2>2, <2>4 DEF SendsNothing
  <1> QED BY <1>1, <1>2, <1>3, <1>4

\* Best-effort cleanup, seen at the stream.
LEMMA CleanupViews ==
  ASSUME InSession, NEW id \in ServiceId, Cleanup(id)
  PROVE  /\ SendsUnregister(id) \/ SendsNothing
         /\ leaked \subseteq leaked'
         /\ id \in leaked' \cup Revoked'
  <1> DEFINE m == [kind |-> "unregister", id |-> id]
  <1>1. m = UnregisterMsg(id) BY DEF UnregisterMsg
  <1>2. \/ Send(<<m>>) /\ UNCHANGED leaked
        \/ /\ Send(<<>>) \/ Send(<<m>>) \/ Send(<<[kind |-> "garbled"]>>)
           /\ leaked' = leaked \cup {id}
    BY DEF Cleanup, LateWrites
  <1>3. Send(<<m>>) => SendsUnregister(id) BY <1>1, SendKinds
  <1> HIDE DEF m
  <1> QED BY <1>2, <1>3, SendKinds DEF SendsUnregister

\* Reading a message without leaving the Session.
LEMMA ConsumeViews ==
  ASSUME InSession, toClient[gen] # <<>>, Consume, client' = client
  PROVE  Hears(Head(toClient[gen])) /\ toClient'[gen] = Tail(toClient[gen])
  <1>1. toClient[gen] \in Seq(ToClient) BY DEF InSession, Types, WireTypes
  <1>2. toClient' = [toClient EXCEPT ![gen] = Tail(@)] BY DEF Consume
  <1>3. toClient'[gen] = Tail(toClient[gen]) BY <1>2 DEF InSession, Types, WireTypes
  <1>4. toClient'[gen'] = Tail(toClient[gen]) BY <1>3 DEF InSession
  <1> QED BY <1>1, <1>3, <1>4, ReadViews DEF Hears, Acked, Answered

\* What the messages of each kind answer.
LEMMA AnswerKinds ==
  ASSUME NEW m \in ToClient
  PROVE  /\ m.kind = "ack" => m.reg \in Reg /\ AckTo(m) = {m.reg} /\ AnswerTo(m) = {m.reg}
         /\ m.kind \in {"error", "reject"} => m.reg \in Reg /\ AckTo(m) = {} /\ AnswerTo(m) = {m.reg}
         /\ m.kind \in {"open", "drain"} => AckTo(m) = {} /\ AnswerTo(m) = {}
  <1>1. m.kind # "drain" => m.reg \in Reg BY MessageTypes
  <1>2. m.kind # "ack" => AckTo(m) = {} BY MessageForms DEF AckTo
  <1>3. m.kind = "ack" => AckTo(m) = {m.reg}
    <2> HAVE m.kind = "ack"
    <2>1. m = AckMsg(m.reg) BY MessageForms
    <2>2. \A r \in Reg : m = AckMsg(r) <=> r = m.reg BY <2>1, MessageForms
    <2> QED BY <1>1, <2>2 DEF AckTo
  <1>4. m.kind \in {"ack", "error", "reject"} => AnswerTo(m) = {m.reg}
    BY <1>1 DEF AnswerTo, Answering
  <1>5. m.kind \notin {"ack", "error", "reject"} => AnswerTo(m) = {} BY DEF AnswerTo, Answering
  <1> QED BY <1>1, <1>2, <1>3, <1>4, <1>5

(***************************************************************************)
(* In legacy mode an Error answers whatever is being registered, so that   *)
(* answers may shift from one transaction to the next.  Counting shows     *)
(* that a Session in which this has happened is never quiet again: each    *)
(* answer still to come is awaited by the transaction, by a tombstone, or  *)
(* by nobody.                                                              *)
(***************************************************************************)
Slots(s) == {s} \ {None}

\* Ids of the tombstones T that an answer of O is under way to.
LiveIds(O, T) == {IdOf[q] : q \in {p \in O : \E t \in T : t[1] = IdOf[p]}}

InDebt(O, s, T) == Cardinality(O) > Cardinality(Slots(s)) + Cardinality(LiveIds(O, T))

\* Some answer is awaited by nobody.
Debt == InDebt(Owed, slot, tombs)

LEMMA LiveCount ==
  ASSUME NEW O \in SUBSET Reg, NEW T, NEW S \in SUBSET Reg,
         {p \in O : \E t \in T : t[1] = IdOf[p]} \subseteq S
  PROVE  /\ IsFiniteSet(LiveIds(O, T)) /\ Cardinality(LiveIds(O, T)) \in Nat
         /\ Cardinality(LiveIds(O, T)) <= Cardinality(S)
  <1> DEFINE H == {p \in O : \E t \in T : t[1] = IdOf[p]}
             f == [q \in H |-> IdOf[q]]
             L == LiveIds(O, T)
  <1>1. IsFiniteSet(H) /\ Cardinality(H) \in Nat /\ Cardinality(H) <= Cardinality(S) /\ Cardinality(S) \in Nat
    BY RegFinite, RegSmaller
  <1>2. L = {IdOf[q] : q \in H} BY DEF LiveIds
  <1> HIDE DEF H, L
  <1>3. f \in Surjection(H, L) BY <1>2 DEF Surjection
  <1>4. IsFiniteSet(L) /\ Cardinality(L) <= Cardinality(H) BY <1>1, <1>3, FS_Surjection
  <1>5. Cardinality(L) \in Nat BY <1>4, FS_CardinalityType
  <1>6. IsFiniteSet(L) /\ Cardinality(L) \in Nat /\ Cardinality(L) <= Cardinality(S) BY <1>1, <1>4, <1>5
  <1> QED BY <1>6 DEF L

LEMMA DebtCounts ==
  ASSUME NEW O \in SUBSET Reg, NEW T, NEW s
  PROVE  /\ IsFiniteSet(O) /\ Cardinality(O) \in Nat
         /\ IsFiniteSet(LiveIds(O, T)) /\ Cardinality(LiveIds(O, T)) \in Nat
         /\ Cardinality(Slots(s)) \in Nat
         /\ s = None => Cardinality(Slots(s)) = 0
         /\ s # None => Cardinality(Slots(s)) = 1
  <1>1. IsFiniteSet(O) /\ Cardinality(O) \in Nat BY RegFinite
  <1>2. {p \in O : \E t \in T : t[1] = IdOf[p]} \subseteq O OBVIOUS
  <1>3. IsFiniteSet(LiveIds(O, T)) /\ Cardinality(LiveIds(O, T)) \in Nat BY <1>2, LiveCount
  <1>4. s = None => Slots(s) = {} BY DEF Slots
  <1>5. s # None => Slots(s) = {s} BY DEF Slots
  <1>6. /\ s = None => Cardinality(Slots(s)) = 0
        /\ s # None => Cardinality(Slots(s)) = 1
    BY <1>4, <1>5, FS_EmptySet, FS_Singleton
  <1> QED BY <1>1, <1>3, <1>6

LEMMA SmallerCount ==
  ASSUME NEW S, NEW T, IsFiniteSet(S), T \subseteq S
  PROVE  Cardinality(T) <= Cardinality(S)
  BY FS_Subset

\* Nothing is answered: transactions end, tombstones go.
LEMMA DebtEases ==
  ASSUME NEW O \in SUBSET Reg, NEW s, NEW S \in {s, None}, NEW t, NEW T \in SUBSET t, InDebt(O, s, t)
  PROVE  InDebt(O, S, T)
  <1>1. LiveIds(O, T) \subseteq LiveIds(O, t) BY DEF LiveIds
  <1>2. Cardinality(LiveIds(O, T)) <= Cardinality(LiveIds(O, t)) BY <1>1, DebtCounts, SmallerCount
  <1>3. Cardinality(Slots(S)) <= Cardinality(Slots(s))
    <2>1. CASE S = None
      <3>1. Cardinality(Slots(S)) = 0 /\ Cardinality(Slots(s)) \in Nat BY <2>1, DebtCounts
      <3> QED BY <3>1
    <2>2. CASE S = s
      <3>1. Cardinality(Slots(s)) \in Nat BY DebtCounts
      <3> QED BY <2>2, <3>1
    <2> QED BY <2>1, <2>2
  <1>4. /\ Cardinality(Slots(S)) \in Nat /\ Cardinality(LiveIds(O, T)) \in Nat /\ Cardinality(O) \in Nat
        /\ Cardinality(Slots(s)) \in Nat /\ Cardinality(LiveIds(O, t)) \in Nat
    BY DebtCounts
  <1> QED BY <1>2, <1>3, <1>4 DEF InDebt

\* A transaction begins and its request is sent.
LEMMA DebtBegins ==
  ASSUME NEW O \in SUBSET Reg, NEW r \in Reg \ O, NEW t, NEW T,
         T = {x \in t : x[1] # IdOf[r]}, InDebt(O, None, t)
  PROVE  InDebt(O \cup {r}, r, T)
  <1>1. LiveIds(O \cup {r}, T) \subseteq LiveIds(O, t) BY DEF LiveIds
  <1>2. Cardinality(LiveIds(O \cup {r}, T)) <= Cardinality(LiveIds(O, t))
    BY <1>1, DebtCounts, SmallerCount
  <1>3. Cardinality(Slots(r)) = 1 /\ Cardinality(Slots(None)) = 0 BY DebtCounts, RegAssumption
  <1>4. Cardinality(O \cup {r}) = Cardinality(O) + 1 BY DebtCounts, FS_AddElement
  <1>5. Cardinality(LiveIds(O \cup {r}, T)) \in Nat /\ Cardinality(LiveIds(O, t)) \in Nat /\ Cardinality(O) \in Nat
    BY DebtCounts
  <1> QED BY <1>2, <1>3, <1>4, <1>5 DEF InDebt

\* An answer is read.
LEMMA OneAnswer ==
  ASSUME NEW o \in SUBSET Reg, NEW O \in SUBSET Reg, NEW x, o \subseteq O \cup {x}
  PROVE  Cardinality(O) >= Cardinality(o) - 1
  <1>1. IsFiniteSet(O) /\ Cardinality(O) \in Nat /\ Cardinality(o) \in Nat BY RegFinite
  <1>2. /\ IsFiniteSet(O \cup {x})
        /\ Cardinality(O \cup {x}) <= Cardinality(O) + 1
    BY <1>1, FS_AddElement
  <1>3. Cardinality(o) <= Cardinality(O \cup {x}) BY <1>2, SmallerCount
  <1>4. Cardinality(O \cup {x}) \in Nat BY <1>2, FS_CardinalityType
  <1> QED BY <1>1, <1>2, <1>3, <1>4

\* It ends the transaction.
LEMMA DebtAnswers ==
  ASSUME NEW o \in SUBSET Reg, NEW O \in SUBSET o, NEW x, o \subseteq O \cup {x},
         NEW s, s # None, NEW t, NEW T \in SUBSET t, InDebt(o, s, t)
  PROVE  InDebt(O, None, T)
  <1>0. O \in SUBSET Reg OBVIOUS
  <1>1. LiveIds(O, T) \subseteq LiveIds(o, t) BY DEF LiveIds
  <1>2. Cardinality(LiveIds(O, T)) <= Cardinality(LiveIds(o, t)) BY <1>1, DebtCounts, SmallerCount
  <1>3. Cardinality(Slots(None)) = 0 /\ Cardinality(Slots(s)) = 1 BY DebtCounts
  <1>4. Cardinality(O) >= Cardinality(o) - 1 BY <1>0, OneAnswer
  <1>5. /\ Cardinality(LiveIds(O, T)) \in Nat /\ Cardinality(O) \in Nat
        /\ Cardinality(LiveIds(o, t)) \in Nat /\ Cardinality(o) \in Nat
    BY <1>0, DebtCounts
  <1> QED BY <1>2, <1>3, <1>4, <1>5 DEF InDebt

\* Or it is the one its tombstone waited for.
LEMMA DebtBuries ==
  ASSUME NEW o \in SUBSET Reg, NEW O \in SUBSET o, NEW x \in o, o \subseteq O \cup {x},
         NEW s, NEW t, NEW T, T = {y \in t : y[1] # IdOf[x]}, \E y \in t : y[1] = IdOf[x],
         InDebt(o, s, t)
  PROVE  InDebt(O, s, T)
  <1>0. O \in SUBSET Reg OBVIOUS
  <1> DEFINE L == LiveIds(o, t)
  <1>1. IdOf[x] \in L BY DEF LiveIds
  <1>2. LiveIds(O, T) \subseteq L \ {IdOf[x]} BY DEF LiveIds
  <1>3. IsFiniteSet(L) /\ Cardinality(L) \in Nat BY DebtCounts
  <1> HIDE DEF L
  <1>4. /\ IsFiniteSet(L \ {IdOf[x]})
        /\ Cardinality(L \ {IdOf[x]}) = Cardinality(L) - 1
    BY <1>1, <1>3, FS_RemoveElement
  <1>5. Cardinality(LiveIds(O, T)) <= Cardinality(L) - 1 BY <1>2, <1>4, SmallerCount
  <1>6. Cardinality(O) >= Cardinality(o) - 1 BY <1>0, OneAnswer
  <1>7. /\ Cardinality(LiveIds(O, T)) \in Nat /\ Cardinality(O) \in Nat /\ Cardinality(o) \in Nat
        /\ Cardinality(Slots(s)) \in Nat
    BY <1>0, DebtCounts
  <1>8. Cardinality(o) > Cardinality(Slots(s)) + Cardinality(L) BY DEF InDebt, L
  <1> QED BY <1>3, <1>5, <1>6, <1>7, <1>8 DEF InDebt

\* A transaction is withdrawn and leaves a tombstone.
LEMMA DebtWithdraws ==
  ASSUME NEW O \in SUBSET Reg, NEW s, s # None, NEW t, NEW T, NEW id,
         \A y \in T : y \in t \/ y[1] = id, InDebt(O, s, t)
  PROVE  InDebt(O, None, T)
  <1> DEFINE L == LiveIds(O, t)
  <1>1. LiveIds(O, T) \subseteq L \cup {id} BY DEF LiveIds
  <1>2. IsFiniteSet(L) /\ Cardinality(L) \in Nat BY DebtCounts
  <1>3. Cardinality(O) > Cardinality(Slots(s)) + Cardinality(L) BY DEF InDebt
  <1> HIDE DEF L
  <1>4. /\ IsFiniteSet(L \cup {id}) /\ Cardinality(L \cup {id}) <= Cardinality(L) + 1
    BY <1>2, FS_AddElement
  <1>5. Cardinality(LiveIds(O, T)) <= Cardinality(L \cup {id}) BY <1>1, <1>4, SmallerCount
  <1>6. Cardinality(Slots(None)) = 0 /\ Cardinality(Slots(s)) = 1 BY DebtCounts
  <1>7. /\ Cardinality(LiveIds(O, T)) \in Nat /\ Cardinality(L \cup {id}) \in Nat /\ Cardinality(O) \in Nat
    BY <1>4, DebtCounts, FS_CardinalityType
  <1> QED BY <1>2, <1>3, <1>4, <1>5, <1>6, <1>7 DEF InDebt

\* An answer to p ends the transaction of q, whose own answer is still to come.
LEMMA DebtArises ==
  ASSUME NEW o \in SUBSET Reg, NEW O \in SUBSET o, NEW p \in o, NEW q \in o, p # q,
         o \subseteq O \cup {p}, NEW t, NEW T \in SUBSET t,
         \A y \in t : y[1] # IdOf[p] /\ y[1] # IdOf[q]
  PROVE  InDebt(O, None, T)
  <1>0. O \in SUBSET Reg OBVIOUS
  <1>1. LiveIds(O, T) \subseteq LiveIds(o, t) BY DEF LiveIds
  <1>2. Cardinality(LiveIds(O, T)) <= Cardinality(LiveIds(o, t)) BY <1>1, DebtCounts, SmallerCount
  <1>3. Cardinality(Slots(None)) = 0 BY DebtCounts
  <1>4. Cardinality(O) >= Cardinality(o) - 1 BY <1>0, OneAnswer
  <1>5. Cardinality(o \ {p}) = Cardinality(o) - 1 /\ Cardinality(o) \in Nat BY RegOneLess
  <1>6. Cardinality((o \ {p}) \ {q}) = Cardinality(o \ {p}) - 1
    <2>1. q \in o \ {p} /\ o \ {p} \in SUBSET Reg OBVIOUS
    <2> QED BY <2>1, RegOneLess
  <1>7. Cardinality(LiveIds(o, t)) <= Cardinality((o \ {p}) \ {q})
    <2>1. {y \in o : \E z \in t : z[1] = IdOf[y]} \subseteq (o \ {p}) \ {q} OBVIOUS
    <2>2. (o \ {p}) \ {q} \in SUBSET Reg OBVIOUS
    <2> QED BY <2>1, <2>2, LiveCount
  <1>8. Cardinality(LiveIds(O, T)) \in Nat /\ Cardinality(O) \in Nat /\ Cardinality(LiveIds(o, t)) \in Nat
    BY <1>0, DebtCounts
  <1> QED BY <1>2, <1>3, <1>4, <1>5, <1>6, <1>7, <1>8 DEF InDebt

(***************************************************************************)
(* What holds of the streams while the client is connected and its server  *)
(* reads.                                                                  *)
(***************************************************************************)

\* A registration that has not been begun has not been sent.
Unsent == \A q \in Reg \ Boot : reply[q] \in {"idle", "queued"} => q \notin Owed

\* Every transaction's own answer is still to come.
Answerable == client = "ready" => Unacknowledged \subseteq Owed

\* Every Service of the server is known to the client, or will be, or is about to
\* be withdrawn, or its withdrawal was not written.
Covered ==
  \A r \in services[gen] :
    r \in {b[2] : b \in binds} \/ IdOf[r] \in leaked \cup Revoked \/ r \in Acked

\* A Service routed by its own acknowledgement is there to stay.
OwnBound ==
  \A b \in binds : b[1] = b[2] => b[1] \in services[gen] /\ IdOf[b[1]] \notin Revoked

\* So will be one whose acknowledgement is under way; no withdrawal follows a
\* request that is still a transaction.
InTurn ==
  client = "ready" =>
    \A q \in Unacknowledged :
      Ordered(q) /\ (q \in Acked => q \in services[gen] /\ IdOf[q] \notin Revoked)

\* A Service routed by another's acknowledgement leaves an answer nobody awaits.
Borrowed ==
  \A b \in binds : b[1] # b[2] =>
    client = "ready" /\ IF mode = "legacy" THEN Debt ELSE b[1] \in Owed

\* The initial registration is one request or one answer at a time.
OneByOne ==
  client = "init" =>
    /\ toServer[gen] = <<>> \/ (asked # None /\ toServer[gen] = <<RegisterMsg(asked)>> /\ Answered = {})
    /\ SingleIn(toClient[gen]) /\ Answered \subseteq {asked}
    /\ asked \in Acked => asked \in services[gen]

Stream ==
  Unsent /\ Answerable /\ Covered /\ OwnBound /\ InTurn /\ Borrowed /\ OneByOne

Tables ==
  /\ Types /\ Distinct /\ CurrentGeneration /\ DesiredWasAcknowledged
  /\ ModeApart /\ Buried /\ Routed /\ SameId /\ Queued /\ Unbegun /\ Apart

LEMMA NextViewTypes ==
  Owed' \subseteq Reg /\ Acked' \subseteq Answered' /\ Answered' \subseteq Reg
  BY AckedAnswered DEF Sent, SentIn, Acked, Answered, AnsweredIn, Owed

\* What is found for an id is what is being registered for it.
LEMMA FoundAll ==
  ASSUME Types, ModeApart, NEW id
  PROVE  Found(id) = ById(Unacknowledged, id)
  BY DEF Types, TableTypes, ModeApart, Found, ById, Unacknowledged

\* One registration of an id at a time.
LEMMA OneOfId ==
  ASSUME Tables, NEW q \in desired \cup Unacknowledged, NEW r \in desired \cup Unacknowledged,
         IdOf[q] = IdOf[r]
  PROVE  q = r /\ ~(q \in desired /\ r \in Unacknowledged)
  BY DEF Tables, Distinct, Same, Apart

LEMMA ReadyBinds ==
  ASSUME Tables, client = "ready", NEW b \in binds
  PROVE  b[1] \in desired /\ b[1] \in active /\ desired = active
  BY DEF Tables, Routed

\* Whatever ends transactions or forgets tombstones and leaves the streams alone.
LEMMA CalmStream ==
  ASSUME Tables, Stream, InSession, Connected,
         UNCHANGED <<client, mode, asked, binds, desired, leaked>>, services'[gen] = services[gen],
         Unacknowledged' \subseteq Unacknowledged, slot' \in {slot, None}, tombs' \subseteq tombs,
         SendsNothing, HearsNothing, NEW X, Heeds(X),
         client = "init" => toServer'[gen] = toServer[gen] /\ SingleIn(toClient'[gen])
  PROVE  Stream'
  <1>0. Owed' = Owed BY DEF SendsNothing, HearsNothing, Owed
  <1>g. gen' = gen BY DEF InSession
  <1>u. Unacknowledged \subseteq Reg BY DEF Tables, Types, TableTypes, Unacknowledged
  <1>1. Unsent' BY <1>0 DEF Stream, Unsent, Heeds
  <1>2. Answerable' BY <1>0 DEF Stream, Answerable
  <1>3. Covered' BY <1>g DEF Stream, Covered, SendsNothing, HearsNothing
  <1>4. OwnBound' BY <1>g DEF Stream, OwnBound, SendsNothing
  <1>5. InTurn' BY <1>g, <1>u DEF Stream, InTurn, SendsNothing, HearsNothing
  <1>6. Borrowed'
    <2>1. Debt => Debt' BY <1>0, ViewTypes, DebtEases DEF Debt
    <2> QED BY <1>0, <2>1 DEF Stream, Borrowed
  <1>7. OneByOne' BY <1>g DEF Stream, OneByOne, HearsNothing
  <1> QED BY <1>1, <1>2, <1>3, <1>4, <1>5, <1>6, <1>7 DEF Stream

\* begin, and the request is written.
LEMMA RegisterStream ==
  ASSUME Tables, Stream, InSession, NEW r \in Reg, Register(r), NEW X, Heeds(X)
  PROVE  Stream'
  <1> USE DEF clientVars, serverVars
  <1>g. gen' = gen BY DEF InSession
  <1>c. client = "ready" /\ client' = "ready" BY DEF Register, Begins
  <1>s. UNCHANGED <<mode, binds, leaked, services, desired>> BY DEF Register
  <1>0. SendsRegister(r)
    <2>1. Send(<<RegisterMsg(r)>>) BY DEF Register, RegisterMsg
    <2> QED BY <2>1, SendKinds
  <1>a. HearsNothing BY Silence, <1>g DEF Register
  <1>o. Owed' = Owed \cup {r} BY <1>0, <1>a DEF SendsRegister, HearsNothing, Owed
  <1>f. reply[r] = "queued" /\ r \notin Boot
    <2>1. commands # <<>> /\ Head(commands).op = "register" /\ Head(commands).reg = r /\ reply[r] # "dropped"
      BY DEF Register, Begins, NextCommand
    <2>2. commands \in Seq(Command) BY DEF Tables, Types, CallTypes
    <2>3. 1 \in 1..Len(commands) /\ Head(commands) = commands[1] BY <2>1, <2>2, EmptySeq
    <2> QED BY <1>c, <2>1, <2>3 DEF Tables, Queued, QueueSound
  <1>n. r \notin Owed BY <1>f DEF Stream, Unsent
  <1>w. reply'[r] = "waiting" BY DEF Register, Tables, Types, CallTypes
  <1>t. Unacknowledged' \subseteq Unacknowledged \cup {r} BY DEF Register, Unacknowledged
  <1>u. Unacknowledged \subseteq Reg BY DEF Tables, Types, TableTypes, Unacknowledged
  <1>1. Unsent' BY <1>o, <1>w DEF Stream, Unsent, Heeds
  <1>2. Answerable' BY <1>c, <1>o, <1>t DEF Stream, Answerable
  <1>3. Covered' BY <1>g, <1>s, <1>0, <1>a DEF Stream, Covered, SendsRegister, HearsNothing
  <1>4. OwnBound' BY <1>g, <1>s, <1>0 DEF Stream, OwnBound, SendsRegister
  <1>5. InTurn'
    <2>1. Ordered(r) /\ r \notin Acked BY <1>n, Unsorted, ViewTypes DEF Ordered, Owed, Sent
    <2>2. ASSUME NEW q \in Unacknowledged'
          PROVE  Ordered(q)' /\ (q \in Acked' => q \in services'[gen'] /\ IdOf[q] \notin Revoked')
      <3>1. CASE q = r BY <2>1, <3>1, <1>0, <1>a DEF SendsRegister, HearsNothing
      <3>2. CASE q \in Unacknowledged
        BY <3>2, <1>0, <1>a, <1>c, <1>g, <1>s, <1>u DEF Stream, InTurn, SendsRegister, HearsNothing
      <3> QED BY <1>t, <3>1, <3>2
    <2> QED BY <2>2 DEF InTurn
  <1>6. Borrowed'
    <2>1. ASSUME mode = "legacy", Debt PROVE Debt'
      <3>1. slot = None /\ slot' = r BY <2>1 DEF Register, Begins, NoRoom
      <3>2. tombs' = {x \in tombs : x[1] # IdOf[r]} BY DEF Register, TombsOf
      <3> QED BY <1>n, <1>o, <2>1, <3>1, <3>2, ViewTypes, DebtBegins DEF Debt
    <2> QED BY <1>c, <1>o, <1>s, <2>1 DEF Stream, Borrowed
  <1>7. OneByOne' BY <1>c DEF OneByOne
  <1> QED BY <1>1, <1>2, <1>3, <1>4, <1>5, <1>6, <1>7 DEF Stream

\* What begins is at the head of the command channel and was never sent.
LEMMA BeginsUnsent ==
  ASSUME Tables, Stream, NEW r \in Reg, Begins(r)
  PROVE  client = "ready" /\ reply[r] = "queued" /\ r \notin Boot /\ r \notin Owed
  <1>1. /\ client = "ready" /\ commands # <<>> /\ Head(commands).op = "register"
        /\ Head(commands).reg = r /\ reply[r] # "dropped"
    BY DEF Begins, NextCommand
  <1>2. commands \in Seq(Command) BY DEF Tables, Types, CallTypes
  <1>3. 1 \in 1..Len(commands) /\ Head(commands) = commands[1] BY <1>1, <1>2, EmptySeq
  <1>4. reply[r] = "queued" /\ r \notin Boot BY <1>1, <1>3 DEF Tables, Queued, QueueSound
  <1> QED BY <1>1, <1>4 DEF Stream, Unsent

\* begin, and the write times out in a correlated Session.
LEMMA WriteTimeoutStream ==
  ASSUME Tables, Stream, InSession, NEW r \in Reg, RegisterWriteTimeout(r), mode # "legacy",
         NEW X, Heeds(X)
  PROVE  Stream'
  <1> USE DEF serverVars
  <1>g. gen' = gen BY DEF InSession
  <1>b. /\ client = "ready" /\ reply[r] = "queued"
    BY BeginsUnsent DEF RegisterWriteTimeout
  <1>s. UNCHANGED <<client, mode, binds, leaked, services, desired, slot, inFlight, toClient>>
    BY DEF RegisterWriteTimeout
  <1>0. SendsRegister(r) \/ SendsNothing
    <2>1. Send(<<>>) \/ Send(<<RegisterMsg(r)>>) \/ Send(<<[kind |-> "garbled"]>>)
      BY DEF RegisterWriteTimeout, LateWrites, RegisterMsg
    <2> QED BY <2>1, SendKinds
  <1>a. HearsNothing BY <1>g, <1>s, Silence
  <1>o. Owed \subseteq Owed' /\ Owed' \subseteq Owed \cup {r}
    BY <1>0, <1>a DEF SendsRegister, SendsNothing, HearsNothing, Owed
  <1>w. reply'[r] = "timeout"
    <2>1. Answer({r}, "timeout") BY DEF RegisterWriteTimeout
    <2> QED BY <1>b, <2>1 DEF Answer, Waiting
  <1>t. Unacknowledged' = Unacknowledged BY <1>s DEF Unacknowledged
  <1>u. Unacknowledged \subseteq Reg BY DEF Tables, Types, TableTypes, Unacknowledged
  <1>1. Unsent' BY <1>o, <1>w DEF Stream, Unsent, Heeds
  <1>2. Answerable' BY <1>s, <1>o, <1>t DEF Stream, Answerable
  <1>3. Covered' BY <1>g, <1>s, <1>0, <1>a DEF Stream, Covered, SendsRegister, SendsNothing, HearsNothing
  <1>4. OwnBound' BY <1>g, <1>s, <1>0 DEF Stream, OwnBound, SendsRegister, SendsNothing
  <1>5. InTurn'
    BY <1>g, <1>s, <1>t, <1>u, <1>0, <1>a
    DEF Stream, InTurn, SendsRegister, SendsNothing, HearsNothing
  <1>6. Borrowed' BY <1>s, <1>o DEF Stream, Borrowed
  <1>7. OneByOne' BY <1>b, <1>s DEF OneByOne
  <1> QED BY <1>1, <1>2, <1>3, <1>4, <1>5, <1>6, <1>7 DEF Stream

\* A ready client reads the message m and stays.
Takes(m) ==
  /\ client = "ready" /\ UNCHANGED <<client, mode>> /\ services'[gen] = services[gen]
  /\ m \in ToClient /\ m.kind \in {"ack", "error", "reject"} /\ m.reg \in Reg
  /\ Hears(m)

\* What that does to the answers still to come.
LEMMA TakesViews ==
  ASSUME NEW m, Takes(m)
  PROVE  /\ Answered = Answered' \cup {m.reg} /\ m.reg \in Answered
         /\ m.kind = "ack" => Acked = Acked' \cup {m.reg}
         /\ m.kind # "ack" => Acked' = Acked
         /\ Acked' \subseteq Acked
         /\ Sent' = Sent => Owed = Owed' \cup {m.reg} /\ Owed' \subseteq Owed /\ m.reg \in Owed
  BY AnswerKinds DEF Takes, Hears, Owed

LEMMA TakeMessage ==
  ASSUME Tables, InSession, client = "ready", client' = client, UNCHANGED <<mode, services>>,
         Consume, Incoming({"ack"}) \/ Incoming({"error"}) \/ Incoming({"reject"})
  PROVE  Takes(Head(toClient[gen]))
  <1>1. toClient[gen] # <<>> /\ Head(toClient[gen]).kind \in {"ack", "error", "reject"} BY DEF Incoming
  <1>2. toClient[gen] \in Seq(ToClient) BY DEF InSession, Types, WireTypes
  <1>3. Head(toClient[gen]) \in ToClient BY <1>1, <1>2
  <1>4. Head(toClient[gen]).reg \in Reg BY <1>1, <1>3, MessageTypes
  <1> QED BY <1>1, <1>3, <1>4, ConsumeViews DEF Takes

\* An acknowledgement is committed.
LEMMA CommitStream ==
  ASSUME Tables, Stream, InSession, NEW m, Takes(m), m.kind = "ack",
         NEW r \in Unacknowledged, IdOf[r] = IdOf[m.reg], Release({r}), Commit(r, m),
         SendsNothing, UNCHANGED <<tombs, leaked>>, NEW X, Heeds(X)
  PROVE  Stream'
  <1>g. gen' = gen BY DEF InSession
  <1>c. client = "ready" /\ client' = "ready" /\ mode' = mode /\ services'[gen] = services[gen] BY DEF Takes
  <1>v. /\ Owed = Owed' \cup {m.reg} /\ Owed' \subseteq Owed /\ m.reg \in Owed
        /\ Acked = Acked' \cup {m.reg}
    BY TakesViews DEF SendsNothing
  <1>u. Unacknowledged \subseteq Reg BY DEF Tables, Types, TableTypes, Unacknowledged
  <1>t. Unacknowledged' = Unacknowledged \ {r} BY ReleaseTypes DEF Tables
  <1>b. binds' = binds \cup {<<r, m.reg>>} BY DEF Commit
  <1>r. m.reg \in Reg BY DEF Takes
  <1>d. ASSUME NEW q \in (Unacknowledged \ {r}) \cup {b[1] : b \in binds} PROVE q # m.reg
    <2>1. q \in desired \cup Unacknowledged BY <1>c, ReadyBinds
    <2>2. q # r \/ q \in desired BY <1>c, <1>d, ReadyBinds
    <2> QED BY <2>1, <2>2, OneOfId
  <1>1. Unsent' BY <1>v DEF Stream, Unsent, Heeds
  <1>2. Answerable' BY <1>c, <1>d, <1>t, <1>v DEF Stream, Answerable
  <1>3. Covered'
    <2>1. ASSUME NEW p \in services[gen]
          PROVE  p \in {b[2] : b \in binds'} \/ IdOf[p] \in leaked' \cup Revoked' \/ p \in Acked'
      <3>1. CASE p = m.reg
        <4>1. <<r, p>> \in binds' /\ <<r, p>>[2] = p BY <1>b, <3>1
        <4> QED BY <4>1
      <3>2. CASE p # m.reg BY <3>2, <1>b, <1>v DEF Stream, Covered, SendsNothing
      <3> QED BY <3>1, <3>2
    <2> QED BY <2>1, <1>c, <1>g DEF Covered
  <1>4. OwnBound'
    <2>1. ASSUME NEW b \in binds', b[1] = b[2]
          PROVE  b[1] \in services[gen] /\ IdOf[b[1]] \notin Revoked
      <3>1. CASE b \in binds BY <2>1, <3>1 DEF Stream, OwnBound
      <3>2. CASE b = <<r, m.reg>>
        <4>1. b[1] = r /\ r = m.reg BY <2>1, <3>2
        <4>2. r \in Acked BY <4>1, <1>v
        <4> QED BY <4>1, <4>2, <1>c DEF Stream, InTurn
      <3> QED BY <1>b, <3>1, <3>2
    <2> QED BY <2>1, <1>c, <1>g DEF OwnBound, SendsNothing
  <1>5. InTurn' BY <1>c, <1>g, <1>t, <1>u, <1>v DEF Stream, InTurn, SendsNothing
  <1>6. Borrowed'
    <2>0. \A t \in tombs : t[1] # IdOf[r] BY DEF Tables, Buried
    <2>1. r \in Owed BY <1>c DEF Stream, Answerable
    <2>2. ASSUME mode = "legacy", NEW b \in binds', b[1] # b[2] PROVE Debt'
      <3>0. slot = r /\ slot' = None
        BY <2>2 DEF Release, Tables, ModeApart, Unacknowledged
      <3>n. r # None BY <1>u, RegAssumption
      <3>1. CASE b \in binds
        <4>1. Debt BY <2>2, <3>1 DEF Stream, Borrowed
        <4> QED BY <4>1, <1>v, <3>0, <3>n, ViewTypes, DebtAnswers DEF Debt
      <3>2. CASE b = <<r, m.reg>>
        <4>1. r # m.reg BY <2>2, <3>2
        <4>2. \A y \in tombs : y[1] # IdOf[m.reg] /\ y[1] # IdOf[r] BY <2>0
        <4>3. Owed \in SUBSET Reg /\ Owed' \in SUBSET Owed /\ Owed \subseteq Owed' \cup {m.reg} BY <1>v, ViewTypes
        <4>4. tombs' \in SUBSET tombs OBVIOUS
        <4>5. PICK o, O, p, t, T : o = Owed /\ O = Owed' /\ p = m.reg /\ t = tombs /\ T = tombs' OBVIOUS
        <4>6. /\ o \in SUBSET Reg /\ O \in SUBSET o /\ p \in o /\ r \in o /\ p # r /\ o \subseteq O \cup {p}
              /\ T \in SUBSET t /\ \A y \in t : y[1] # IdOf[p] /\ y[1] # IdOf[r]
          BY <4>1, <4>2, <4>3, <4>4, <4>5, <1>v, <2>1
        <4>7. InDebt(O, None, T) BY ONLY <4>6, DebtArises
        <4>8. InDebt(Owed', None, tombs') BY <4>5, <4>7
        <4> QED BY <3>0, <4>8 DEF Debt
      <3> QED BY <1>b, <3>1, <3>2
    <2>3. ASSUME mode # "legacy", NEW b \in binds', b[1] # b[2] PROVE b[1] \in Owed'
      <3>1. CASE b \in binds
        <4>1. b[1] \in Owed BY <2>3, <3>1 DEF Stream, Borrowed
        <4> QED BY <4>1, <1>d, <1>v, <3>1
      <3>2. CASE b = <<r, m.reg>>
        <4>1. b[1] = r /\ r # m.reg BY <2>3, <3>2
        <4> QED BY <4>1, <1>v, <2>1
      <3> QED BY <1>b, <3>1, <3>2
    <2> QED BY <1>c, <2>2, <2>3 DEF Borrowed
  <1>7. OneByOne' BY <1>c DEF OneByOne
  <1> QED BY <1>1, <1>2, <1>3, <1>4, <1>5, <1>6, <1>7 DEF Stream

\* An answer is read that the tables do not commit.  Nothing else of its id is
\* left, or it is an Error that ended the legacy transaction.
Spares(m) ==
  \/ /\ \A q \in Unacknowledged' \cup desired : IdOf[q] # IdOf[m.reg]
     /\ SendsNothing \/ SendsUnregister(IdOf[m.reg])
  \/ mode = "legacy" /\ Unacknowledged' = {} /\ SendsNothing

LEMMA ReadStream ==
  ASSUME Tables, Stream, InSession, NEW m, Takes(m), Spares(m), UNCHANGED binds, leaked \subseteq leaked',
         Unacknowledged' \subseteq Unacknowledged,
         m.kind = "ack" => IdOf[m.reg] \in leaked' \cup Revoked',
         mode = "legacy" /\ Debt => Debt', NEW X, Heeds(X)
  PROVE  Stream'
  <1>g. gen' = gen BY DEF InSession
  <1>c. client = "ready" /\ client' = "ready" /\ mode' = mode /\ services'[gen] = services[gen] BY DEF Takes
  <1>r. m.reg \in Reg BY DEF Takes
  <1>s. Sent' = Sent /\ Revoked \subseteq Revoked' /\ Revoked' \subseteq Revoked \cup {IdOf[m.reg]}
    BY DEF Spares, SendsNothing, SendsUnregister
  <1>v. /\ Owed = Owed' \cup {m.reg} /\ Owed' \subseteq Owed
        /\ Acked \subseteq Acked' \cup {m.reg} /\ Acked' \subseteq Acked
        /\ m.kind # "ack" => Acked' = Acked
    BY <1>s, TakesViews
  <1>u. Unacknowledged \subseteq Reg BY DEF Tables, Types, TableTypes, Unacknowledged
  <1>d. \A b \in binds : b[1] \in desired /\ b[1] \in Reg
    <2>1. desired \subseteq Reg BY DEF Tables, Types, TableTypes
    <2> QED BY <1>c, <2>1, ReadyBinds
  <1>1. Unsent' BY <1>v DEF Stream, Unsent, Heeds
  <1>2. Answerable' BY <1>c, <1>v DEF Stream, Answerable, Spares
  <1>3. Covered'
    <2>1. ASSUME NEW p \in services[gen]
          PROVE  p \in {b[2] : b \in binds} \/ IdOf[p] \in leaked' \cup Revoked' \/ p \in Acked'
      BY <1>s, <1>v DEF Stream, Covered
    <2> QED BY <2>1, <1>c, <1>g DEF Covered
  <1>4. OwnBound' BY <1>c, <1>d, <1>g, <1>s DEF Stream, OwnBound, Spares, SendsNothing
  <1>5. InTurn'
    <2>1. ASSUME NEW q \in Unacknowledged'
          PROVE  Ordered(q)' /\ (q \in Acked' => q \in services[gen] /\ IdOf[q] \notin Revoked')
      <3>1. q \in Unacknowledged /\ q \in Reg /\ IdOf[q] # IdOf[m.reg] BY <1>u, <2>1 DEF Spares
      <3>2. Ordered(q)' BY <1>c, <2>1, <3>1 DEF Stream, InTurn, Spares, SendsNothing, SendsUnregister
      <3> QED BY <1>c, <1>s, <1>v, <3>1, <3>2 DEF Stream, InTurn
    <2> QED BY <1>c, <1>g, <2>1 DEF InTurn
  <1>6. Borrowed' BY <1>c, <1>d, <1>v DEF Stream, Borrowed, Spares
  <1>7. OneByOne' BY <1>c DEF OneByOne
  <1> QED BY <1>1, <1>2, <1>3, <1>4, <1>5, <1>6, <1>7 DEF Stream

\* It ends the transaction of its id: a caller that went away, or a refusal.
LEMMA EndedStream ==
  ASSUME Tables, Stream, InSession, NEW m, Takes(m),
         NEW r \in Unacknowledged, IdOf[r] = IdOf[m.reg], Release({r}),
         UNCHANGED <<binds, tombs>>, leaked \subseteq leaked',
         SendsNothing \/ SendsUnregister(IdOf[m.reg]),
         m.kind = "ack" => IdOf[m.reg] \in leaked' \cup Revoked', NEW X, Heeds(X)
  PROVE  Stream'
  <1>t. Unacknowledged' = Unacknowledged \ {r} BY ReleaseTypes DEF Tables
  <1>1. \A q \in Unacknowledged' \cup desired : IdOf[q] # IdOf[m.reg] BY <1>t, OneOfId
  <1>2. Spares(m) BY <1>1 DEF Spares
  <1>s. Sent' = Sent BY DEF SendsNothing, SendsUnregister
  <1>v. Owed = Owed' \cup {m.reg} /\ Owed' \subseteq Owed BY <1>s, TakesViews
  <1>3. ASSUME mode = "legacy", Debt PROVE Debt'
    <2>1. slot = r /\ slot' = None /\ r # None
      <3>1. r \in Reg BY DEF Tables, Types, TableTypes, Unacknowledged
      <3> QED BY <1>3, <3>1, RegAssumption DEF Release, Tables, ModeApart, Unacknowledged
    <2> QED BY <1>3, <1>v, <2>1, ViewTypes, DebtAnswers DEF Debt
  <1> QED BY <1>2, <1>3, <1>t, ReadStream

\* Or its tombstone.
LEMMA BuriedStream ==
  ASSUME Tables, Stream, InSession, NEW m, Takes(m),
         Found(IdOf[m.reg]) = {}, TombsOf(IdOf[m.reg]) # {}, tombs' = tombs \ TombsOf(IdOf[m.reg]),
         UNCHANGED <<binds, slot, inFlight>>, leaked \subseteq leaked',
         SendsNothing \/ SendsUnregister(IdOf[m.reg]),
         m.kind = "ack" => IdOf[m.reg] \in leaked' \cup Revoked', NEW X, Heeds(X)
  PROVE  Stream'
  <1>t. Unacknowledged' = Unacknowledged BY DEF Unacknowledged
  <1>b. \E y \in tombs : y[1] = IdOf[m.reg] BY DEF TombsOf
  <1>1. \A q \in Unacknowledged' \cup desired : IdOf[q] # IdOf[m.reg] BY <1>b, <1>t DEF Tables, Buried
  <1>2. Spares(m) BY <1>1 DEF Spares
  <1>s. Sent' = Sent BY DEF SendsNothing, SendsUnregister
  <1>v. Owed = Owed' \cup {m.reg} /\ Owed' \subseteq Owed /\ m.reg \in Owed BY <1>s, TakesViews
  <1>3. ASSUME Debt PROVE Debt'
    <2>1. PICK o, O, x, t, T : o = Owed /\ O = Owed' /\ x = m.reg /\ t = tombs /\ T = tombs' OBVIOUS
    <2>2. T = {y \in t : y[1] # IdOf[x]} BY <2>1 DEF TombsOf
    <2>3. /\ o \in SUBSET Reg /\ O \in SUBSET o /\ x \in o /\ o \subseteq O \cup {x}
          /\ (\E y \in t : y[1] = IdOf[x]) /\ InDebt(o, slot, t)
      BY <1>3, <1>b, <1>v, <2>1, ViewTypes DEF Debt
    <2>4. PICK s : s = slot OBVIOUS
    <2>5. InDebt(o, s, t) BY <2>3, <2>4
    <2>6. InDebt(O, s, T) BY ONLY <2>2, <2>3, <2>5, DebtBuries
    <2> QED BY <2>1, <2>4, <2>6 DEF Debt
  <1> QED BY <1>2, <1>3, <1>t, ReadStream

(***************************************************************************)
(* The steps of a ready client.                                            *)
(***************************************************************************)
LEMMA AckFoundStream ==
  ASSUME Tables, Stream, InSession, AckFound, NEW X, Heeds(X)
  PROVE  Stream'
  <1> DEFINE m == Head(toClient[gen])
  <1>g. gen' = gen BY DEF InSession
  <1>1. PICK r \in Found(IdOf[m.reg]) :
          /\ Release({r})
          /\ IF born[r] # gen
             THEN /\ Answer({r}, "disconnected")
                  /\ UNCHANGED <<desired, active, binds, leaked, toServer>>
             ELSE IF Commits(r)
             THEN Commit(r, m) /\ UNCHANGED <<leaked, toServer>>
             ELSE Cleanup(IdOf[m.reg]) /\ UNCHANGED <<desired, active, binds, reply>>
    BY DEF AckFound
  <1>2. /\ client = "ready" /\ Incoming({"ack"}) /\ Consume
        /\ UNCHANGED <<client, mode, tombs, services>>
    BY DEF AckFound, clientVars, serverVars
  <1>3. Takes(m) BY <1>2, TakeMessage
  <1>4. m.kind = "ack" BY <1>2 DEF Incoming
  <1>5. r \in Unacknowledged /\ IdOf[r] = IdOf[m.reg] BY <1>1, FoundAll DEF Tables, ById
  <1>6. born[r] = gen BY <1>2, <1>5 DEF Tables, CurrentGeneration, Connected
  <1>7. m.reg \in Reg /\ IdOf[m.reg] \in ServiceId BY <1>3, RegAssumption DEF Takes
  <1> HIDE DEF m
  <1>8. CASE Commits(r)
    <2>1. Commit(r, m) /\ UNCHANGED <<leaked, toServer>> BY <1>1, <1>6, <1>8
    <2>2. SendsNothing BY <1>g, <2>1, Silence
    <2> QED BY <1>1, <1>2, <1>3, <1>4, <1>5, <2>1, <2>2, CommitStream
  <1>9. CASE ~Commits(r)
    <2>1. Cleanup(IdOf[m.reg]) /\ UNCHANGED binds BY <1>1, <1>6, <1>9
    <2>2. /\ SendsUnregister(IdOf[m.reg]) \/ SendsNothing
          /\ leaked \subseteq leaked' /\ IdOf[m.reg] \in leaked' \cup Revoked'
      BY <1>7, <2>1, CleanupViews
    <2> QED BY <1>1, <1>2, <1>3, <1>5, <2>1, <2>2, EndedStream
  <1> QED BY <1>8, <1>9

LEMMA AckMissingStream ==
  ASSUME Tables, Stream, InSession, AckMissing, client' = client, NEW X, Heeds(X)
  PROVE  Stream'
  <1> DEFINE m == Head(toClient[gen])
  <1>1. /\ client = "ready" /\ Incoming({"ack"}) /\ Consume
        /\ UNCHANGED <<mode, services, slot, inFlight>>
        /\ Found(IdOf[m.reg]) = {} /\ tombs' = tombs \ TombsOf(IdOf[m.reg])
    BY DEF AckMissing, serverVars, txnVars
  <1>2. TombsOf(IdOf[m.reg]) # {} BY <1>1 DEF AckMissing, LeaveDirty
  <1>3. UNCHANGED binds BY <1>2 DEF AckMissing
  <1>4. <<IdOf[m.reg], gen>> \in tombs
    <2>1. PICK t \in tombs : t[1] = IdOf[m.reg] BY <1>2 DEF TombsOf
    <2>2. t[2] = gen BY <1>1 DEF Tables, CurrentGeneration, Connected
    <2>3. t \in ServiceId \X Gen BY <2>1 DEF Tables, Types, Numbered
    <2>4. t = <<t[1], t[2]>> BY <2>3
    <2> QED BY <2>1, <2>2, <2>4
  <1>5. Cleanup(IdOf[m.reg]) BY <1>2, <1>4 DEF AckMissing
  <1>6. Takes(m) BY <1>1, TakeMessage
  <1>7. m.reg \in Reg /\ IdOf[m.reg] \in ServiceId BY <1>6, RegAssumption DEF Takes
  <1> HIDE DEF m
  <1>8. /\ SendsUnregister(IdOf[m.reg]) \/ SendsNothing
        /\ leaked \subseteq leaked' /\ IdOf[m.reg] \in leaked' \cup Revoked'
    BY <1>5, <1>7, CleanupViews
  <1> QED BY <1>1, <1>2, <1>3, <1>6, <1>8, BuriedStream

LEMMA ErrorStream ==
  ASSUME Tables, Stream, InSession, ReadError, client' = client, NEW X, Heeds(X)
  PROVE  Stream'
  <1> DEFINE m == Head(toClient[gen])
  <1>g. gen' = gen BY DEF InSession
  <1>1. /\ client = "ready" /\ Incoming({"error"}) /\ Consume
        /\ UNCHANGED <<mode, services, tombs, leaked, toServer>>
    BY DEF ReadError, serverVars
  <1>2. slot # None BY <1>1 DEF ReadError, LeaveForGood
  <1>3. Release({slot}) /\ UNCHANGED binds BY <1>2 DEF ReadError
  <1>4. Takes(m) BY <1>1, TakeMessage
  <1>5. m.kind = "error" BY <1>1 DEF Incoming
  <1> HIDE DEF m
  <1>6. mode = "legacy" BY <1>2 DEF Tables, ModeApart
  <1>7. Unacknowledged' = {} /\ slot' = None
    <2>1. slot' = None BY <1>3 DEF Release
    <2>2. inFlight' \subseteq inFlight BY <1>3 DEF Release
    <2> QED BY <1>6, <2>1, <2>2 DEF Tables, ModeApart, Unacknowledged
  <1>8. SendsNothing BY <1>g, <1>1, Silence
  <1>9. Spares(m) BY <1>6, <1>7, <1>8 DEF Spares
  <1>10. Debt => Debt'
    <2>1. Owed = Owed' \cup {m.reg} /\ Owed' \subseteq Owed BY <1>4, <1>8, TakesViews DEF SendsNothing
    <2> QED BY <1>1, <1>2, <1>7, <2>1, ViewTypes, DebtAnswers DEF Debt
  <1> QED BY <1>1, <1>3, <1>4, <1>5, <1>7, <1>9, <1>10, ReadStream

LEMMA RejectStream ==
  ASSUME Tables, Stream, InSession, ReadReject, client' = client, NEW X, Heeds(X)
  PROVE  Stream'
  <1> DEFINE m == Head(toClient[gen])
             found == Found(IdOf[m.reg])
  <1>g. gen' = gen BY DEF InSession
  <1>1. /\ client = "ready" /\ Incoming({"reject"}) /\ Consume
        /\ UNCHANGED <<mode, services, leaked, toServer>>
        /\ Release(found)
        /\ tombs' = IF found = {} THEN tombs \ TombsOf(IdOf[m.reg]) ELSE tombs
    BY DEF ReadReject, serverVars
  <1>2. found # {} \/ TombsOf(IdOf[m.reg]) # {} BY <1>1 DEF ReadReject, LeaveDirty
  <1>3. UNCHANGED binds BY <1>2 DEF ReadReject
  <1>4. Takes(m) BY <1>1, TakeMessage
  <1>5. m.kind = "reject" BY <1>1 DEF Incoming
  <1>6. SendsNothing BY <1>g, <1>1, Silence
  <1>7. found = ById(Unacknowledged, IdOf[m.reg]) BY FoundAll DEF Tables
  <1>8. CASE found # {}
    <2>1. PICK r : r \in found BY <1>8
    <2>2. r \in Unacknowledged /\ IdOf[r] = IdOf[m.reg] BY <1>7, <2>1 DEF ById
    <2>3. found = {r} BY <1>7, <2>1, <2>2, OneOfId DEF ById
    <2>4. Release({r}) BY <1>1, <2>3
    <2>5. tombs' = tombs BY <1>1, <1>8
    <2> HIDE DEF m, found
    <2> QED BY <1>1, <1>3, <1>4, <1>5, <1>6, <2>2, <2>4, <2>5, EndedStream
  <1>9. CASE found = {}
    <2>1. tombs' = tombs \ TombsOf(IdOf[m.reg]) /\ TombsOf(IdOf[m.reg]) # {} BY <1>1, <1>2, <1>9
    <2>2. UNCHANGED <<slot, inFlight>> BY <1>1, <1>9 DEF Release
    <2>3. Found(IdOf[m.reg]) = {} BY <1>9
    <2> HIDE DEF m, found
    <2> QED BY <1>1, <1>3, <1>4, <1>5, <1>6, <2>1, <2>2, <2>3, BuriedStream
  <1> QED BY <1>8, <1>9

\* The withdrawal of id, written, or not where nothing of id is routed.
LEMMA WithdrawStream ==
  ASSUME Tables, Stream, InSession, client = "ready", NEW id \in ServiceId, Unregister(id),
         UNCHANGED <<client, mode, toClient, services>>,
         binds' = {b \in binds : IdOf[b[1]] # id}, leaked \subseteq leaked',
         SendsNothing \/ SendsUnregister(id),
         (\A b \in binds : IdOf[b[1]] # id) \/ id \in leaked' \cup Revoked', NEW X, Heeds(X)
  PROVE  Stream'
  <1> DEFINE R == ById(Unacknowledged, id)
  <1>g. gen' = gen BY DEF InSession
  <1>a. HearsNothing BY <1>g, Silence
  <1>s. Sent' = Sent /\ Revoked \subseteq Revoked' /\ Revoked' \subseteq Revoked \cup {id}
    BY DEF SendsNothing, SendsUnregister
  <1>o. Owed' = Owed BY <1>a, <1>s DEF HearsNothing, Owed
  <1>t. Unacknowledged' = Unacknowledged \ R
    <2>1. Release(R) BY DEF Unregister
    <2> QED BY <2>1, ReleaseTypes DEF Tables
  <1>u. Unacknowledged \subseteq Reg BY DEF Tables, Types, TableTypes, Unacknowledged
  <1>d. \A b \in binds : b[1] \in Reg /\ b[2] \in Reg BY DEF Tables, Types, BindTypes
  <1>1. Unsent' BY <1>o DEF Stream, Unsent, Heeds
  <1>2. Answerable' BY <1>o, <1>t DEF Stream, Answerable
  <1>3. Covered'
    <2>1. ASSUME NEW p \in services[gen]
          PROVE  p \in {b[2] : b \in binds'} \/ IdOf[p] \in leaked' \cup Revoked' \/ p \in Acked'
      <3>1. CASE p \in {b[2] : b \in binds}
        <4>1. PICK b \in binds : p = b[2] BY <3>1
        <4>2. CASE b \in binds' BY <4>1, <4>2
        <4>3. CASE b \notin binds'
          <5>1. IdOf[p] = id BY <4>1, <4>3 DEF Tables, SameId
          <5> QED BY <4>3, <5>1
        <4> QED BY <4>2, <4>3
      <3>2. CASE p \notin {b[2] : b \in binds} BY <3>2, <1>a, <1>s DEF Stream, Covered, HearsNothing
      <3> QED BY <3>1, <3>2
    <2> QED BY <2>1, <1>g DEF Covered
  <1>4. OwnBound' BY <1>d, <1>g, <1>s DEF Stream, OwnBound
  <1>5. InTurn'
    <2>1. ASSUME NEW q \in Unacknowledged'
          PROVE  Ordered(q)' /\ (q \in Acked' => q \in services[gen] /\ IdOf[q] \notin Revoked')
      <3>1. q \in Unacknowledged /\ q \in Reg /\ IdOf[q] # id BY <1>t, <1>u, <2>1 DEF ById
      <3>2. Ordered(q)' BY <3>1 DEF Stream, InTurn, SendsNothing, SendsUnregister
      <3> QED BY <1>a, <1>s, <3>1, <3>2 DEF Stream, InTurn, HearsNothing
    <2> QED BY <1>g, <2>1 DEF InTurn
  <1>6. Borrowed'
    <2>1. ASSUME Debt PROVE Debt'
      <3>1. slot' = (IF slot \in R THEN None ELSE slot)
        BY DEF Unregister, Release
      <3>2. tombs' = IF slot \in R THEN WithTomb(id, born[slot]) ELSE tombs BY DEF Unregister
      <3>3. CASE slot \in R
        <4>1. slot # None BY <3>3, <1>u, RegAssumption DEF ById
        <4>2. \A y \in tombs' : y \in tombs \/ y[1] = id BY <3>2, <3>3 DEF WithTomb
        <4>3. PICK s, o, t, T : s = slot /\ o = Owed /\ t = tombs /\ T = tombs' OBVIOUS
        <4>4. /\ o \in SUBSET Reg /\ s # None /\ InDebt(o, s, t)
              /\ \A y \in T : y \in t \/ y[1] = id
          BY <2>1, <4>1, <4>2, <4>3, ViewTypes DEF Debt
        <4>5. InDebt(o, None, T) BY ONLY <4>4, DebtWithdraws
        <4> QED BY <1>o, <3>1, <3>3, <4>3, <4>5 DEF Debt
      <3>4. CASE slot \notin R BY <1>o, <2>1, <3>1, <3>2, <3>4 DEF Debt
      <3> QED BY <3>3, <3>4
    <2> QED BY <1>o, <2>1 DEF Stream, Borrowed
  <1>7. OneByOne' BY DEF OneByOne
  <1> QED BY <1>1, <1>2, <1>3, <1>4, <1>5, <1>6, <1>7 DEF Stream

\* The id the next command withdraws.
LEMMA CommandId ==
  ASSUME Types, NextCommand("unregister")
  PROVE  Head(commands).id \in ServiceId
  <1>1. commands \in Seq(Command) /\ commands # <<>> BY DEF Types, CallTypes, NextCommand
  <1>2. Head(commands) \in Command BY <1>1
  <1> QED BY <1>2 DEF NextCommand, Command

LEMMA UnregisterActiveStream ==
  ASSUME Tables, Stream, InSession, UnregisterActive, client' = client, NEW X, Heeds(X)
  PROVE  Stream'
  <1> DEFINE id == Head(commands).id
  <1>1. client = "ready" /\ NextCommand("unregister") /\ Unregister(id)
    BY DEF UnregisterActive
  <1>2. UNCHANGED <<mode, leaked, services>> BY DEF UnregisterActive, serverVars
  <1>3. /\ Send(<<[kind |-> "unregister", id |-> id]>>)
        /\ binds' = {b \in binds : IdOf[b[1]] # id} /\ UNCHANGED toClient
    BY <1>1 DEF UnregisterActive, LeaveDirty
  <1>4. id \in ServiceId BY <1>1, CommandId DEF Tables
  <1>5. SendsUnregister(id) BY <1>3, <1>4, SendKinds DEF UnregisterMsg
  <1>6. id \in Revoked' BY <1>5 DEF SendsUnregister
  <1> HIDE DEF id
  <1> QED BY <1>1, <1>2, <1>3, <1>4, <1>5, <1>6, WithdrawStream

LEMMA UnregisterOtherStream ==
  ASSUME Tables, Stream, InSession, UnregisterOther, NEW X, Heeds(X)
  PROVE  Stream'
  <1> DEFINE id == Head(commands).id
  <1>1. client = "ready" /\ NextCommand("unregister") /\ Unregister(id) /\ Cleanup(id) /\ ById(active, id) = {}
    BY DEF UnregisterOther
  <1>2. UNCHANGED <<client, mode, binds, services, toClient>> BY DEF UnregisterOther, serverVars, clientVars
  <1>4. id \in ServiceId BY <1>1, CommandId DEF Tables
  <1> HIDE DEF id
  <1>5. (SendsUnregister(id) \/ SendsNothing) /\ leaked \subseteq leaked' BY <1>1, <1>4, CleanupViews
  <1>6. \A b \in binds : IdOf[b[1]] # id
    <2>1. \A b \in binds : b[1] \in active BY <1>1, ReadyBinds
    <2> QED BY <1>1, <2>1 DEF ById
  <1>7. binds' = {b \in binds : IdOf[b[1]] # id} BY <1>2, <1>6
  <1> QED BY <1>1, <1>2, <1>4, <1>5, <1>6, <1>7, WithdrawStream

(***************************************************************************)
(* The initial registration.                                               *)
(***************************************************************************)

\* Nothing is being registered by the application, and no answer went astray.
LEMMA InitCalm ==
  ASSUME Tables, Stream, client = "init"
  PROVE  /\ Unacknowledged = {} /\ todo \subseteq desired /\ \A b \in binds : b[1] = b[2]
         /\ asked = None => toServer[gen] = <<>> /\ Answered = {}
  <1>1. asked = None => toServer[gen] = <<>> BY DEF Stream, OneByOne
  <1>2. asked = None => Answered = {} BY ViewTypes, RegAssumption DEF Stream, OneByOne
  <1> QED BY <1>1, <1>2 DEF Tables, Routed, Stream, Borrowed

LEMMA InitRegisterStream ==
  ASSUME Tables, Stream, InSession, NEW r \in Reg, InitRegister(r)
  PROVE  Stream'
  <1>g. gen' = gen BY DEF InSession
  <1>1. /\ client = "init" /\ client' = "init" /\ asked = None /\ asked' = r /\ r \in todo
        /\ UNCHANGED <<mode, slot, inFlight, tombs, binds, leaked, reply, services, toClient>>
        /\ Send(<<RegisterMsg(r)>>)
    BY DEF InitRegister, txnVars, stateVars, callVars, serverVars, RegisterMsg
  <1>2. /\ Unacknowledged = {} /\ (\A b \in binds : b[1] = b[2]) /\ toServer[gen] = <<>> /\ Answered = {}
        /\ r \in desired
    BY <1>1, InitCalm
  <1>3. SendsRegister(r) BY <1>1, SendKinds
  <1>a. HearsNothing BY <1>g, <1>1, Silence
  <1>o. Owed' = Owed \cup {r} BY <1>3, <1>a DEF SendsRegister, HearsNothing, Owed
  <1>n. r # None BY RegAssumption
  <1>u. Unsent' BY <1>1, <1>2, <1>o DEF Stream, Unsent, Tables, DesiredWasAcknowledged
  <1>w. Answerable' BY <1>1 DEF Answerable
  <1>c. Covered' BY <1>g, <1>1, <1>3, <1>a DEF Stream, Covered, SendsRegister, HearsNothing
  <1>b. OwnBound' BY <1>g, <1>1, <1>3 DEF Stream, OwnBound, SendsRegister
  <1>t. InTurn' BY <1>1 DEF InTurn
  <1>r. Borrowed' BY <1>1, <1>2 DEF Borrowed
  <1>e. OneByOne'
    <2>1. toServer' = [toServer EXCEPT ![gen] = @ \o <<RegisterMsg(r)>>]
      BY <1>1 DEF InSession, Listening, Send
    <2>2. toServer'[gen] = <<>> \o <<RegisterMsg(r)>> BY <1>2, <2>1 DEF InSession, Types, WireTypes
    <2>3. toServer'[gen] = <<RegisterMsg(r)>> BY <2>2
    <2>4. SingleIn(toClient[gen]) BY <1>1 DEF Stream, OneByOne
    <2>5. Answered' = {} /\ Acked' = {} BY <1>2, <1>a, ViewTypes DEF HearsNothing
    <2> QED BY <1>g, <1>1, <1>n, <2>3, <2>4, <2>5 DEF OneByOne
  <1> QED BY <1>u, <1>w, <1>c, <1>b, <1>t, <1>r, <1>e DEF Stream

LEMMA InitAckStream ==
  ASSUME Tables, Stream, InSession, InitAck, client' = client, NEW X, Heeds(X)
  PROVE  Stream'
  <1> DEFINE m == Head(toClient[gen])
  <1>g. gen' = gen BY DEF InSession
  <1>1. /\ client = "init" /\ client' = "init" /\ asked # None /\ Incoming({"ack"}) /\ Consume
        /\ UNCHANGED <<mode, slot, inFlight, tombs, leaked, services, toServer>>
    BY DEF InitAck, txnVars, serverVars
  <1>2. toClient[gen] # <<>> /\ m.kind = "ack" BY <1>1 DEF Incoming
  <1>3. toClient[gen] \in Seq(ToClient) BY DEF InSession, Types, WireTypes
  <1>4. m \in ToClient BY <1>2, <1>3
  <1>5. Hears(m) /\ toClient'[gen] = Tail(toClient[gen]) BY <1>1, <1>2, ConsumeViews
  <1>6. AckTo(m) = {m.reg} /\ AnswerTo(m) = {m.reg} BY <1>2, <1>4, AnswerKinds
  <1>7. Acked = Acked' \cup {m.reg} /\ Answered = Answered' \cup {m.reg} BY <1>5, <1>6 DEF Hears
  <1>8. m.reg = asked BY <1>1, <1>7 DEF Stream, OneByOne
  <1>9. binds' = binds \cup {<<asked, asked>>} /\ asked' = None
    BY <1>1, <1>8 DEF InitAck
  <1>10. Answered' = {} /\ SingleIn(toClient'[gen])
    <2>1. SingleIn(toClient[gen]) BY <1>1 DEF Stream, OneByOne
    <2>2. Answering(m) BY <1>2 DEF Answering
    <2>3. AnsweredIn(Tail(toClient[gen])) = {} /\ SingleIn(Tail(toClient[gen]))
      BY <1>2, <1>3, <2>1, <2>2, ReadViews
    <2> QED BY <1>g, <1>5, <2>3 DEF Answered
  <1>11. toServer[gen] = <<>> BY <1>1, <1>7 DEF Stream, OneByOne
  <1>12. asked \in services[gen] BY <1>1, <1>7, <1>8 DEF Stream, OneByOne
  <1>13. SendsNothing BY <1>g, <1>1, Silence
  <1>14. Revoked = {} BY <1>11, EmptyViews DEF Revoked
  <1>15. Owed' \subseteq Owed BY <1>7, <1>13 DEF SendsNothing, Owed
  <1>16. Acked' = {} BY <1>10, NextViewTypes
  <1> HIDE DEF m
  <1>u. Unsent' BY <1>15 DEF Stream, Unsent, Heeds
  <1>w. Answerable' BY <1>1 DEF Answerable
  <1>c. Covered'
    <2>1. ASSUME NEW p \in services[gen]
          PROVE  p \in {b[2] : b \in binds'} \/ IdOf[p] \in leaked'
      <3>1. CASE p = asked
        <4>1. <<asked, asked>> \in binds' /\ <<asked, asked>>[2] = asked BY <1>9
        <4> QED BY <3>1, <4>1
      <3>2. CASE p # asked BY <3>2, <1>1, <1>7, <1>8, <1>9, <1>14, <1>16 DEF Stream, Covered
      <3> QED BY <3>1, <3>2
    <2> QED BY <2>1, <1>1, <1>g DEF Covered
  <1>b. OwnBound'
    <2>1. ASSUME NEW b \in binds', b[1] = b[2] PROVE b[1] \in services[gen]
      <3>1. CASE b \in binds BY <2>1, <3>1 DEF Stream, OwnBound
      <3>2. CASE b = <<asked, asked>> BY <3>2, <1>12
      <3> QED BY <1>9, <3>1, <3>2
    <2> QED BY <2>1, <1>1, <1>g, <1>13, <1>14 DEF OwnBound, SendsNothing
  <1>t. InTurn' BY <1>1 DEF InTurn
  <1>r. Borrowed'
    <2>1. \A b \in binds : b[1] = b[2] BY <1>1, InitCalm
    <2> QED BY <1>9, <2>1 DEF Borrowed
  <1>e. OneByOne' BY <1>g, <1>1, <1>9, <1>10, <1>11, <1>16 DEF OneByOne
  <1> QED BY <1>u, <1>w, <1>c, <1>b, <1>t, <1>r, <1>e DEF Stream

LEMMA ActivateStream ==
  ASSUME Tables, Stream, InSession, Activate
  PROVE  Stream'
  <1>g. gen' = gen BY DEF InSession
  <1>1. /\ client = "init" /\ client' = "ready"
        /\ UNCHANGED <<mode, slot, inFlight, binds, leaked, reply, services, toServer, toClient>>
    BY DEF Activate, txnVars, stateVars, callVars, serverVars, wireVars
  <1>2. Unacknowledged' = {} /\ \A b \in binds : b[1] = b[2]
    BY <1>1, InitCalm DEF Unacknowledged
  <1>3. SendsNothing /\ HearsNothing BY <1>g, <1>1, Silence
  <1>o. Owed' = Owed BY <1>3 DEF SendsNothing, HearsNothing, Owed
  <1>u. Unsent' BY <1>1, <1>o DEF Stream, Unsent
  <1>w. Answerable' BY <1>2 DEF Answerable
  <1>c. Covered' BY <1>g, <1>1, <1>3 DEF Stream, Covered, SendsNothing, HearsNothing
  <1>b. OwnBound' BY <1>g, <1>1, <1>3 DEF Stream, OwnBound, SendsNothing
  <1>t. InTurn' BY <1>2 DEF InTurn
  <1>r. Borrowed' BY <1>1, <1>2 DEF Borrowed
  <1>e. OneByOne' BY <1>1 DEF OneByOne
  <1> QED BY <1>u, <1>w, <1>c, <1>b, <1>t, <1>r, <1>e DEF Stream

(***************************************************************************)
(* The steps of the server of the Session.                                 *)
(***************************************************************************)
LEMMA TookViews ==
  ASSUME InSession, toServer[gen] # <<>>, Took(gen)
  PROVE  /\ Head(toServer[gen]) \in ToServer /\ toServer'[gen] = Tail(toServer[gen])
         /\ Sent = Sent' \cup {r \in Reg : Head(toServer[gen]) = RegisterMsg(r)}
         /\ Revoked = Revoked' \cup {id \in ServiceId : Head(toServer[gen]) = UnregisterMsg(id)}
         /\ \A q \in Reg : Ordered(q) => Ordered(q)'
         /\ \A q \in Reg : Ordered(q) /\ Head(toServer[gen]) = RegisterMsg(q) => IdOf[q] \notin Revoked'
  <1>1. toServer[gen] \in Seq(ToServer) BY DEF InSession, Types, WireTypes
  <1>2. toServer'[gen] = Tail(toServer[gen]) BY DEF Took, InSession, Types, WireTypes
  <1>3. toServer'[gen'] = Tail(toServer[gen]) BY <1>2 DEF InSession
  <1>4. Head(toServer[gen]) \in ToServer BY <1>1
  <1> QED BY <1>1, <1>2, <1>3, <1>4, TakeViews DEF Sent, Revoked, Ordered

LEMMA RepliedViews ==
  ASSUME InSession, Connected, NEW k \in ToClient, Reply(gen, k)
  PROVE  /\ Acked' = Acked \cup AckTo(k) /\ Answered' = Answered \cup AnswerTo(k)
         /\ SingleIn(toClient[gen]) /\ (Answered = {} \/ ~Answering(k)) => SingleIn(toClient'[gen])
  <1>1. toClient[gen] \in Seq(ToClient) BY DEF InSession, Types, WireTypes
  <1>2. gen \in Int BY DEF InSession, Gen
  <1>3. ~ClientLeft(gen) BY <1>2 DEF ClientLeft
  <1>4. toClient'[gen] = Append(toClient[gen], k) BY <1>3 DEF Reply, InSession, Types, WireTypes
  <1>5. toClient'[gen'] = Append(toClient[gen], k) BY <1>4 DEF InSession
  <1> QED BY <1>1, <1>4, <1>5, ReplyViews DEF Acked, Answered

\* register_service answers r, with a listener or without.
LEMMA AnswerStream ==
  ASSUME Tables, Stream, InSession, Connected, toServer[gen] # <<>>, Took(gen),
         NEW r \in Reg, Head(toServer[gen]) = RegisterMsg(r),
         NEW k \in ToClient, k.kind \in {"ack", "error", "reject"}, k.reg = r, Reply(gen, k),
         services'[gen] = (IF k.kind = "ack" THEN services[gen] \cup {r} ELSE services[gen]),
         UNCHANGED <<client, mode, asked, slot, inFlight, tombs, binds, leaked, reply>>
  PROVE  Stream'
  <1>g. gen' = gen BY DEF InSession
  <1>1. {q \in Reg : Head(toServer[gen]) = RegisterMsg(q)} = {r} BY MessageForms
  <1>2. {id \in ServiceId : Head(toServer[gen]) = UnregisterMsg(id)} = {} BY MessageForms
  <1>3. Sent = Sent' \cup {r} /\ Revoked' = Revoked BY <1>1, <1>2, TookViews
  <1>4. \A q \in Reg : Ordered(q) => Ordered(q)' BY TookViews
  <1>5. Ordered(r) => IdOf[r] \notin Revoked' BY TookViews
  <1>6. AnswerTo(k) = {r} /\ (IF k.kind = "ack" THEN AckTo(k) = {r} ELSE AckTo(k) = {})
    BY AnswerKinds
  <1>7. Acked' = Acked \cup AckTo(k) /\ Answered' = Answered \cup {r} BY <1>6, RepliedViews
  <1>o. Owed' = Owed BY <1>3, <1>7 DEF Owed
  <1>t. Unacknowledged' = Unacknowledged BY DEF Unacknowledged
  <1>d. Unacknowledged \subseteq Reg BY DEF Tables, Types, TableTypes, Unacknowledged
  <1>u. Unsent' BY <1>o DEF Stream, Unsent
  <1>w. Answerable' BY <1>o, <1>t DEF Stream, Answerable
  <1>c. Covered'
    <2>1. ASSUME NEW p \in services'[gen]
          PROVE  p \in {b[2] : b \in binds} \/ IdOf[p] \in leaked \cup Revoked' \/ p \in Acked'
      BY <1>3, <1>6, <1>7, <2>1 DEF Stream, Covered
    <2> QED BY <2>1, <1>g DEF Covered
  <1>b. OwnBound' BY <1>g, <1>3 DEF Stream, OwnBound
  <1>n. InTurn'
    <2>1. ASSUME client = "ready", NEW q \in Unacknowledged, q \in Acked'
          PROVE  q \in services'[gen] /\ IdOf[q] \notin Revoked'
      BY <1>3, <1>5, <1>6, <1>7, <2>1 DEF Stream, InTurn
    <2> QED BY <1>4, <1>d, <1>g, <1>t, <2>1 DEF Stream, InTurn
  <1>r. Borrowed' BY <1>o DEF Stream, Borrowed, Debt
  <1>e. OneByOne'
    <2> SUFFICES ASSUME client = "init"
                 PROVE  /\ toServer'[gen] = <<>>
                        /\ SingleIn(toClient'[gen]) /\ Answered' \subseteq {asked}
                        /\ asked \in Acked' => asked \in services'[gen]
      BY <1>g DEF OneByOne
    <2>1. toServer[gen] = <<RegisterMsg(asked)>> /\ Answered = {} /\ SingleIn(toClient[gen])
      BY DEF Stream, OneByOne
    <2>2. asked = r BY <2>1, MessageForms
    <2>3. toServer'[gen] = <<>> BY <2>1, TookViews
    <2>4. Acked = {} BY <2>1, ViewTypes
    <2> QED BY <1>6, <1>7, <2>1, <2>2, <2>3, <2>4, RepliedViews
  <1> QED BY <1>u, <1>w, <1>c, <1>b, <1>n, <1>r, <1>e DEF Stream

LEMMA AdmitStream ==
  ASSUME Tables, Stream, InSession, Connected, SrvAdmit(gen)
  PROVE  Stream'
  <1> DEFINE r == Head(toServer[gen]).reg
  <1>1. toServer[gen] # <<>> /\ Head(toServer[gen]).kind = "register" /\ Took(gen)
    BY DEF SrvAdmit, Received
  <1>2. Head(toServer[gen]) \in ToServer BY <1>1, TookViews
  <1>3. Head(toServer[gen]) = RegisterMsg(r) BY <1>1, <1>2, MessageForms
  <1>4. r \in Reg BY <1>1, <1>2 DEF ToServer
  <1>5. /\ services' = [services EXCEPT ![gen] = @ \cup {r}] /\ Reply(gen, AckMsg(r))
        /\ UNCHANGED <<client, mode, asked, slot, inFlight, tombs, binds, leaked, reply>>
    BY DEF SrvAdmit, AckMsg, clientVars, txnVars, stateVars, callVars
  <1> HIDE DEF r
  <1>6. services'[gen] = services[gen] \cup {r} BY <1>5 DEF InSession, Types, ServerTypes
  <1>7. AckMsg(r) \in ToClient BY <1>4 DEF AckMsg, ToClient
  <1>8. AckMsg(r).kind = "ack" /\ AckMsg(r).reg = r BY MessageForms
  <1>9. PICK k \in ToClient : k = AckMsg(r) BY <1>7
  <1> QED BY <1>1, <1>3, <1>4, <1>5, <1>6, <1>8, <1>9, AnswerStream

LEMMA RefuseStream ==
  ASSUME Tables, Stream, InSession, Connected, SrvRefuse(gen)
  PROVE  Stream'
  <1> DEFINE r == Head(toServer[gen]).reg
             kind == IF mode = "legacy" THEN "error" ELSE "reject"
             m == [kind |-> kind, reg |-> r, code |-> Verdict(gen, r)]
  <1>1. toServer[gen] # <<>> /\ Head(toServer[gen]).kind = "register" /\ Took(gen)
    BY DEF SrvRefuse, Received
  <1>2. Head(toServer[gen]) \in ToServer BY <1>1, TookViews
  <1>3. Head(toServer[gen]) = RegisterMsg(r) BY <1>1, <1>2, MessageForms
  <1>4. r \in Reg BY <1>1, <1>2 DEF ToServer
  <1>5. /\ Reply(gen, m) /\ UNCHANGED services
        /\ UNCHANGED <<client, mode, asked, slot, inFlight, tombs, binds, leaked, reply>>
    BY DEF SrvRefuse, clientVars, txnVars, stateVars, callVars, serverVars
  <1>6. Verdict(gen, r) \in Codes BY DEF SrvRefuse, Verdict, Codes
  <1>7. kind \in {"error", "reject"} OBVIOUS
  <1>8. m \in ToClient BY <1>4, <1>6, <1>7 DEF ToClient
  <1>9. m.kind = kind /\ m.reg = r OBVIOUS
  <1> HIDE DEF r, m, kind
  <1>10. PICK k \in ToClient : k = m BY <1>8
  <1> QED BY <1>1, <1>3, <1>4, <1>5, <1>7, <1>9, <1>10, AnswerStream

\* UnregisterService takes effect.
LEMMA ForgetStream ==
  ASSUME Tables, Stream, InSession, Connected, SrvUnregister(gen)
  PROVE  Stream'
  <1> DEFINE id == Head(toServer[gen]).id
  <1>g. gen' = gen BY DEF InSession
  <1>1. toServer[gen] # <<>> /\ Head(toServer[gen]).kind = "unregister" /\ Took(gen)
    BY DEF SrvUnregister, Received
  <1>2. Head(toServer[gen]) \in ToServer BY <1>1, TookViews
  <1>3. Head(toServer[gen]) = UnregisterMsg(id) BY <1>1, <1>2, MessageForms
  <1>4. id \in ServiceId BY <1>1, <1>2 DEF ToServer
  <1>5. /\ services' = [services EXCEPT ![gen] = @ \ ById(@, id)]
        /\ UNCHANGED <<client, mode, asked, slot, inFlight, tombs, binds, leaked, reply, toClient>>
    BY DEF SrvUnregister, Forget, clientVars, txnVars, stateVars, callVars
  <1> HIDE DEF id
  <1>6. services'[gen] = services[gen] \ ById(services[gen], id) BY <1>5 DEF InSession, Types, ServerTypes
  <1>7. {q \in Reg : Head(toServer[gen]) = RegisterMsg(q)} = {} BY <1>3, MessageForms
  <1>8. {i \in ServiceId : Head(toServer[gen]) = UnregisterMsg(i)} = {id} BY <1>3, <1>4, MessageForms
  <1>9. Sent = Sent' /\ Revoked = Revoked' \cup {id} BY <1>1, <1>7, <1>8, TookViews
  <1>10. \A q \in Reg : Ordered(q) => Ordered(q)' BY <1>1, TookViews
  <1>11. HearsNothing BY <1>g, <1>5, Silence
  <1>o. Owed' = Owed BY <1>9, <1>11 DEF HearsNothing, Owed
  <1>t. Unacknowledged' = Unacknowledged BY <1>5 DEF Unacknowledged
  <1>d. Unacknowledged \subseteq Reg BY DEF Tables, Types, TableTypes, Unacknowledged
  <1>u. Unsent' BY <1>5, <1>o DEF Stream, Unsent
  <1>w. Answerable' BY <1>5, <1>o, <1>t DEF Stream, Answerable
  <1>c. Covered'
    <2>1. ASSUME NEW p \in services'[gen]
          PROVE  p \in {b[2] : b \in binds} \/ IdOf[p] \in leaked \cup Revoked' \/ p \in Acked
      <3>1. p \in services[gen] /\ IdOf[p] # id BY <1>6, <2>1 DEF ById
      <3> QED BY <1>9, <3>1 DEF Stream, Covered
    <2> QED BY <2>1, <1>5, <1>g, <1>11 DEF Covered, HearsNothing
  <1>b. OwnBound'
    <2>1. ASSUME NEW b \in binds, b[1] = b[2] PROVE b[1] \in services'[gen] /\ IdOf[b[1]] \notin Revoked'
      <3>1. b[1] \in services[gen] /\ IdOf[b[1]] \notin Revoked BY <2>1 DEF Stream, OwnBound
      <3> QED BY <1>6, <1>9, <3>1 DEF ById
    <2> QED BY <2>1, <1>5, <1>g DEF OwnBound
  <1>n. InTurn'
    <2>1. ASSUME client = "ready", NEW q \in Unacknowledged, q \in Acked
          PROVE  q \in services'[gen] /\ IdOf[q] \notin Revoked'
      <3>1. q \in services[gen] /\ IdOf[q] \notin Revoked BY <2>1 DEF Stream, InTurn
      <3> QED BY <1>6, <1>9, <3>1 DEF ById
    <2> QED BY <1>5, <1>10, <1>11, <1>d, <1>g, <1>t, <2>1 DEF Stream, InTurn, HearsNothing
  <1>r. Borrowed' BY <1>5, <1>o DEF Stream, Borrowed, Debt
  <1>e. OneByOne'
    <2>1. client # "init"
      <3> SUFFICES ASSUME client = "init" PROVE FALSE OBVIOUS
      <3>1. toServer[gen] = <<RegisterMsg(asked)>> BY <1>1 DEF Stream, OneByOne
      <3>2. Head(toServer[gen]) = RegisterMsg(asked) BY <3>1
      <3> QED BY <1>1, <3>2, MessageForms
    <2> QED BY <1>5, <2>1 DEF OneByOne
  <1> QED BY <1>u, <1>w, <1>c, <1>b, <1>n, <1>r, <1>e DEF Stream

(***************************************************************************)
(* Every step of a Session.                                                *)
(***************************************************************************)
LEMMA StillStream ==
  ASSUME Tables, Stream, InSession, Connected,
         UNCHANGED <<client, mode, asked, slot, inFlight, binds, desired, leaked>>, tombs' \subseteq tombs,
         services'[gen] = services[gen], toServer'[gen] = toServer[gen], toClient'[gen] = toClient[gen],
         NEW X, Heeds(X)
  PROVE  Stream'
  <1>1. gen' = gen BY DEF InSession
  <1>2. SendsNothing /\ HearsNothing BY <1>1, Silence
  <1>3. Unacknowledged' = Unacknowledged BY DEF Unacknowledged
  <1>4. client = "init" => SingleIn(toClient[gen]) BY DEF Stream, OneByOne
  <1> QED BY <1>2, <1>3, <1>4, CalmStream

LEMMA ServerStream ==
  ASSUME Tables, Stream, InSession, Connected, NEW g \in Gen, ServerStep(g)
  PROVE  Stream'
  <1>g. gen \in Gen /\ gen' = gen BY DEF InSession
  <1>0. UNCHANGED <<client, mode, asked, slot, inFlight, tombs, desired, binds, leaked, reply>>
    BY ServerForms DEF Tables
  <1>h. Heeds({}) BY <1>0, SameHeeds
  <1>1. CASE g # gen
    <2>1. /\ services'[gen] = services[gen] /\ toServer'[gen] = toServer[gen]
          /\ toClient'[gen] = toClient[gen]
      BY <1>1, <1>g, ServerForms DEF Tables
    <2> QED BY <1>0, <1>h, <2>1, StillStream
  <1>2. CASE g = gen
    <2>0. srv \in [Gen -> {"none", "up", "closing", "gone"}] BY DEF Tables, Types, ServerTypes
    <2>1. ~SrvShutdown(gen) /\ ~SrvStop(gen) /\ ~SrvGone(gen)
      <3>1. srv'[gen] = "up" BY <1>g DEF InSession, Listening
      <3> QED BY <1>g, <2>0, <3>1 DEF SrvShutdown, SrvStop, SrvGone
    <2>2. CASE SrvAdmit(gen) BY <2>2, AdmitStream
    <2>3. CASE SrvRefuse(gen) BY <2>3, RefuseStream
    <2>4. CASE SrvUnregister(gen) BY <2>4, ForgetStream
    <2>5. ASSUME NEW r \in Reg, CloseListener(gen, r) PROVE Stream'
      <3>1. UNCHANGED <<services, toServer, toClient>> BY <2>5 DEF CloseListener, wireVars
      <3> QED BY <1>0, <1>h, <3>1, StillStream
    <2>6. ASSUME NEW r \in Reg, SrvOpen(gen, r) PROVE Stream'
      <3>1. UNCHANGED <<services, toServer>> /\ Reply(gen, [kind |-> "open", reg |-> r])
        BY <2>6 DEF SrvOpen, serverVars
      <3>2. PICK k : k = [kind |-> "open", reg |-> r] OBVIOUS
      <3>3. k \in ToClient /\ k.kind = "open" BY <3>2 DEF ToClient
      <3>4. AckTo(k) = {} /\ AnswerTo(k) = {} BY <3>3, AnswerKinds
      <3>5. ~Answering(k) BY <3>3 DEF Answering
      <3>6. /\ Acked' = Acked \cup AckTo(k) /\ Answered' = Answered \cup AnswerTo(k)
            /\ SingleIn(toClient[gen]) => SingleIn(toClient'[gen])
        BY <3>1, <3>2, <3>3, <3>5, RepliedViews
      <3>7. HearsNothing BY <3>4, <3>6 DEF HearsNothing
      <3>8. SendsNothing BY <1>g, <3>1, Silence
      <3>9. client = "init" => SingleIn(toClient'[gen]) BY <3>6 DEF Stream, OneByOne
      <3>10. Unacknowledged' = Unacknowledged BY <1>0 DEF Unacknowledged
      <3> QED BY <1>0, <1>h, <3>1, <3>7, <3>8, <3>9, <3>10, CalmStream
    <2> QED BY <1>2, <2>1, <2>2, <2>3, <2>4, <2>5, <2>6 DEF ServerStep, ServerReads
  <1> QED BY <1>1, <1>2

LEMMA ReadMessageStream ==
  ASSUME Tables, Stream, InSession, ReadMessage, Connected, Connected', NEW X, Heeds(X)
  PROVE  Stream'
  <1>1. CASE AckFound BY <1>1, AckFoundStream
  <1>2. CASE AckMissing
    <2>1. client' = client BY <1>2 DEF AckMissing, LeaveDirty, Connected
    <2> QED BY <1>2, <2>1, AckMissingStream
  <1>3. CASE ReadError
    <2>1. client' = client BY <1>3 DEF ReadError, LeaveForGood, Connected
    <2> QED BY <1>3, <2>1, ErrorStream
  <1>4. CASE ReadReject
    <2>1. client' = client BY <1>4 DEF ReadReject, LeaveDirty, Connected
    <2> QED BY <1>4, <2>1, RejectStream
  <1>5. CASE ReadOpen
    <2>1. /\ client = "ready" /\ toClient[gen] # <<>> /\ Head(toClient[gen]).kind = "open" /\ Consume
          /\ UNCHANGED <<client, mode, asked, slot, inFlight, tombs, desired, binds, leaked, services, toServer>>
      BY <1>5 DEF ReadOpen, Incoming, clientVars, txnVars, stateVars, serverVars
    <2>2. toClient[gen] \in Seq(ToClient) BY DEF InSession, Types, WireTypes
    <2>3. Head(toClient[gen]) \in ToClient BY <2>1, <2>2
    <2>4. Hears(Head(toClient[gen])) BY <2>1, ConsumeViews
    <2>5. AckTo(Head(toClient[gen])) = {} /\ AnswerTo(Head(toClient[gen])) = {} BY <2>1, <2>3, AnswerKinds
    <2>6. HearsNothing BY <2>4, <2>5 DEF Hears, HearsNothing
    <2>7. SendsNothing BY <2>1, Silence DEF InSession
    <2>8. Unacknowledged' = Unacknowledged BY <2>1 DEF Unacknowledged
    <2> QED BY <2>1, <2>6, <2>7, <2>8, CalmStream
  <1>6. ~ReadDrain BY DEF ReadDrain, LeaveClean, Connected
  <1> QED BY <1>1, <1>2, <1>3, <1>4, <1>5, <1>6 DEF ReadMessage

LEMMA TakeCommandStream ==
  ASSUME Tables, Stream, InSession, TakeCommand, Connected, Connected', NEW X, Heeds(X)
  PROVE  Stream'
  <1>1. CASE RefuseRegister
    <2>1. /\ UNCHANGED <<client, mode, asked, slot, inFlight, desired, binds, leaked, services, toServer, toClient>>
          /\ tombs' \subseteq tombs
      BY <1>1 DEF RefuseRegister, clientVars, txnVars, serverVars, wireVars
    <2> QED BY <2>1, StillStream
  <1>2. ASSUME NEW r \in Reg, Register(r) PROVE Stream' BY <1>2, RegisterStream
  <1>3. ASSUME NEW r \in Reg PROVE ~RegisterWriteError(r)
    BY DEF RegisterWriteError, LeaveDirty, Connected
  <1>4. ASSUME NEW r \in Reg, RegisterWriteTimeout(r) PROVE Stream'
    <2>1. mode # "legacy" BY <1>4 DEF RegisterWriteTimeout, LeaveClean, Connected
    <2> QED BY <1>4, <2>1, WriteTimeoutStream
  <1>5. CASE UnregisterActive
    <2>1. client' = client BY <1>5 DEF UnregisterActive, LeaveDirty, Connected
    <2> QED BY <1>5, <2>1, UnregisterActiveStream
  <1>6. CASE UnregisterOther BY <1>6, UnregisterOtherStream
  <1>7. ~OfflineCommand BY DEF OfflineCommand, Connected
  <1> QED BY <1>1, <1>2, <1>3, <1>4, <1>5, <1>6, <1>7 DEF TakeCommand

LEMMA ClientStream ==
  ASSUME Tables, Stream, InSession, ClientStep, Connected, Connected', NEW X, Heeds(X)
  PROVE  Stream'
  <1>1. ~GenerationSpent /\ ~LoseConnection /\ ~Shutdown /\ ~InitOther
    BY DEF GenerationSpent, LoseConnection, LeaveDirty, Shutdown, InitOther, LeaveForGood, Connected
  <1>2. ASSUME NEW r \in Reg, InitRegister(r) PROVE Stream' BY <1>2, InitRegisterStream
  <1>3. CASE InitAck
    <2>1. client' = client BY <1>3 DEF InitAck, LeaveForGood, Connected
    <2> QED BY <1>3, <2>1, InitAckStream
  <1>4. CASE Activate BY <1>4, ActivateStream
  <1>5. CASE ReadMessage BY <1>5, ReadMessageStream
  <1>6. CASE TakeCommand BY <1>6, TakeCommandStream
  <1>7. ASSUME NEW R \in SUBSET Reg, ExpireOverdue(R) PROVE Stream'
    <2>1. slot \notin R BY <1>7 DEF ExpireOverdue, LeaveClean, Connected
    <2>2. /\ Release(R) /\ client = "ready"
          /\ UNCHANGED <<client, mode, asked, tombs, desired, binds, leaked, services, toServer, toClient>>
      BY <1>7, <2>1 DEF ExpireOverdue, serverVars
    <2>3. Unacknowledged' \subseteq Unacknowledged /\ slot' \in {slot, None}
      BY <2>2, ReleaseTypes DEF Tables, Release
    <2>4. SendsNothing /\ HearsNothing BY <2>2, Silence DEF InSession
    <2> QED BY <2>2, <2>3, <2>4, CalmStream
  <1>8. ASSUME (\E r \in Reg : CallRegister(r) \/ GiveUp(r)) \/ (\E id \in ServiceId : CallUnregister(id))
        PROVE  Stream'
    <2>1. UNCHANGED <<client, mode, asked, slot, inFlight, tombs, desired, binds, leaked, services, toServer, toClient>>
      BY <1>8 DEF CallRegister, GiveUp, CallUnregister, clientVars, txnVars, stateVars, serverVars, wireVars
    <2> QED BY <2>1, StillStream
  <1> QED BY <1>1, <1>2, <1>3, <1>4, <1>5, <1>6, <1>7, <1>8 DEF ClientStep, InitStep

\* The streams of a new Session are empty, and so is its bind table.
LEMMA ConnectStream ==
  ASSUME Tables, Untouched, NEW m \in Modes, Connect(m)
  PROVE  Stream'
  <1>1. /\ client = "down" /\ client' = "init" /\ gen' = gen + 1 /\ gen < MaxGen
        /\ UNCHANGED <<binds, services, toServer, toClient>> /\ asked' = None
    BY DEF Connect, CanNumber, wireVars
  <1>2. gen + 1 \in Gen /\ gen + 1 > gen BY <1>1, Bounds DEF Tables, Types, TableTypes, Gen
  <1>3. toServer'[gen'] = <<>> /\ toClient'[gen'] = <<>> /\ services'[gen'] = {}
    BY <1>1, <1>2 DEF Untouched
  <1>4. binds' = {} BY <1>1 DEF Tables, Routed
  <1>5. Sent' = {} /\ Answered' = {} /\ Acked' = {} /\ SingleIn(toClient'[gen'])
    BY <1>3, EmptyViews DEF Sent, Answered, Acked
  <1>6. Owed' = {} BY <1>5 DEF Owed
  <1> QED
    BY <1>1, <1>3, <1>4, <1>5, <1>6
    DEF Stream, Unsent, Answerable, Covered, OwnBound, InTurn, Borrowed, OneByOne

\* A step after which a Session lasts, other than the one that opened it.
LEMMA SessionStep ==
  ASSUME Types, ClientStep \/ (\E g \in Gen : ServerStep(g)), Connected', Listening'
  PROVE  Connected /\ InSession
  <1>1. CASE ClientStep
    <2>1. UNCHANGED <<gen, srv>> BY <1>1, StreamForms
    <2>2. Connected
      <3>1. CASE GenerationSpent \/ InitStep \/ LoseConnection \/ Shutdown
        BY <3>1 DEF GenerationSpent, LeaveForGood, InitStep, InitRegister, InitAck, InitOther, Activate,
                    LoseConnection, Shutdown, Connected
      <3>2. CASE ReadMessage
        BY <3>2 DEF ReadMessage, AckFound, AckMissing, ReadError, ReadReject, ReadOpen, ReadDrain, Connected
      <3>3. CASE TakeCommand
        BY <3>3 DEF TakeCommand, RefuseRegister, Register, RegisterWriteError, RegisterWriteTimeout, Begins,
                    UnregisterActive, UnregisterOther, OfflineCommand, Connected, clientVars
      <3>4. CASE \E R \in SUBSET Reg : ExpireOverdue(R) BY <3>4 DEF ExpireOverdue, Connected
      <3>5. CASE (\E r \in Reg : CallRegister(r) \/ GiveUp(r)) \/ (\E id \in ServiceId : CallUnregister(id))
        BY <3>5 DEF CallRegister, GiveUp, CallUnregister, clientVars, Connected
      <3> QED BY <1>1, <3>1, <3>2, <3>3, <3>4, <3>5 DEF ClientStep
    <2>3. gen \in Gen BY <2>2 DEF Types, Numbered
    <2> QED BY <2>1, <2>2, <2>3 DEF InSession, Listening
  <1>2. ASSUME NEW g \in Gen, ServerStep(g) PROVE Connected /\ InSession
    <2>1. UNCHANGED <<client, gen>> BY <1>2, ServerForms
    <2>2. Connected BY <2>1 DEF Connected
    <2>3. gen \in Gen BY <2>2 DEF Types, Numbered
    <2>4. srv \in [Gen -> {"none", "up", "closing", "gone"}] BY DEF Types, ServerTypes
    <2>5. srv' = srv \/ srv' = [srv EXCEPT ![g] = "closing"] \/ srv' = [srv EXCEPT ![g] = "gone"]
      BY <1>2 DEF ServerStep, ServerReads, SrvAdmit, SrvRefuse, SrvUnregister, SrvShutdown, SrvStop, SrvGone,
                  CloseListener, SrvOpen, serverVars
    <2>6. srv'[gen] = "up" BY <2>1 DEF Listening
    <2>7. srv[gen] = "up" BY <2>3, <2>4, <2>5, <2>6
    <2> QED BY <2>1, <2>2, <2>3, <2>7 DEF InSession, Listening
  <1> QED BY <1>1, <1>2

(***************************************************************************)
(* The inductive invariant.                                                *)
(***************************************************************************)
QInv ==
  /\ IInv
  /\ ModeApart /\ Buried /\ Routed /\ SameId
  /\ Queued /\ Unbegun /\ ArmedOnly /\ Apart
  /\ Untouched
  /\ Connected /\ Listening => Stream

LEMMA QInvTables == QInv => Tables
  BY DEF QInv, IInv, Tables

LEMMA QInvInit == Init => QInv
  <1> SUFFICES ASSUME Init PROVE QInv OBVIOUS
  <1>1. IInv BY IInvInit
  <1>2. Unacknowledged = {} BY DEF Init, Unacknowledged
  <1>3. Queued
    <2>1. Len(commands) = 0 BY DEF Init
    <2> QED BY <2>1 DEF Queued, QueueSound
  <1>4. Untouched BY DEF Init, Untouched
  <1>5. ModeApart /\ Buried /\ Routed /\ SameId BY <1>2 DEF Init, ModeApart, Buried, Routed, SameId
  <1>6. Unbegun /\ ArmedOnly /\ Apart BY <1>2 DEF Init, Unbegun, ArmedOnly, Apart
  <1>7. ~Connected BY DEF Init, Connected
  <1> QED BY <1>1, <1>3, <1>4, <1>5, <1>6, <1>7 DEF QInv

LEMMA QInvStep ==
  ASSUME QInv, Next
  PROVE  QInv'
  <1>0. Types /\ Tables BY QInvTables DEF QInv, IInv
  <1>1. IInv' BY IInvNext DEF QInv
  <1>2. ModeApart' BY <1>0, ModeApartStep DEF QInv
  <1>3. Buried' BY <1>0, BuriedStep DEF QInv
  <1>4. Routed' /\ SameId' BY <1>0, RoutedStep DEF QInv
  <1>5. QueueFine BY <1>0, QueueStep DEF QInv
  <1>6. PICK X : Heeds(X) BY <1>5 DEF QueueFine
  <1>7. Queued' BY <1>5 DEF QueueFine
  <1>8. Unbegun' BY <1>0, <1>6, UnbegunStep DEF QInv
  <1>9. ArmedOnly' BY <1>0, ArmedStep DEF QInv
  <1>10. Apart' BY <1>0, ApartStep DEF QInv
  <1>11. Untouched' BY <1>0, UntouchedStep DEF QInv
  <1>12. ASSUME Connected', Listening' PROVE Stream'
    <2>1. CASE \E m \in Modes : Connect(m) BY <1>0, <2>1, ConnectStream DEF QInv
    <2>2. CASE ClientStep
      <3>1. Connected /\ InSession BY <1>0, <1>12, <2>2, SessionStep
      <3>2. Stream BY <3>1 DEF QInv, InSession
      <3> QED BY <1>0, <1>6, <1>12, <2>2, <3>1, <3>2, ClientStream
    <2>3. CASE \E g \in Gen : ServerStep(g)
      <3>1. Connected /\ InSession BY <1>0, <1>12, <2>3, SessionStep
      <3>2. Stream BY <3>1 DEF QInv, InSession
      <3> QED BY <1>0, <2>3, <3>1, <3>2, ServerStream
    <2> QED BY <2>1, <2>2, <2>3, NextCases
  <1> QED BY <1>1, <1>2, <1>3, <1>4, <1>7, <1>8, <1>9, <1>10, <1>11, <1>12 DEF QInv

LEMMA QInvNext == QInv /\ [Next]_vars => QInv'
  <1> SUFFICES ASSUME QInv, [Next]_vars PROVE QInv' OBVIOUS
  <1>1. CASE Next BY <1>1, QInvStep
  <1>2. CASE UNCHANGED vars
    <2> USE <1>2 DEF vars, clientVars, txnVars, stateVars, callVars, serverVars, wireVars
    <2>1. IInv' BY IInvNext DEF QInv
    <2>2. Unacknowledged' = Unacknowledged BY DEF Unacknowledged
    <2>3. (ModeApart /\ Buried /\ Routed /\ SameId)'
      BY <2>2 DEF QInv, ModeApart, Buried, Routed, SameId
    <2>4. (Queued /\ Unbegun /\ ArmedOnly /\ Apart)'
      BY <2>2 DEF QInv, Queued, QueueSound, Unbegun, ArmedOnly, Apart
    <2>5. Untouched' BY DEF QInv, Untouched
    <2>6. Connected' = Connected /\ Listening' = Listening BY DEF Connected, Listening
    <2>7. Owed' = Owed /\ Acked' = Acked /\ Answered' = Answered /\ Revoked' = Revoked
      BY DEF Owed, Sent, Acked, Answered, Revoked
    <2>8. \A q : Ordered(q)' = Ordered(q) BY DEF Ordered
    <2>9. Stream => Stream'
      BY <2>2, <2>7, <2>8
      DEF Stream, Unsent, Answerable, Covered, OwnBound, InTurn, Borrowed, Debt, OneByOne
    <2> QED BY <2>1, <2>3, <2>4, <2>5, <2>6, <2>9 DEF QInv
  <1> QED BY <1>1, <1>2

LEMMA QuietInvariance == Spec => []QInv
  BY QInvInit, QInvNext, PTL DEF Spec

\* Nothing is in debt when no answer is to come.
LEMMA NoDebt ==
  ASSUME NEW s, NEW T
  PROVE  ~InDebt({}, s, T)
  <1>1. Cardinality({}) = 0 BY FS_EmptySet
  <1>2. Cardinality(Slots(s)) \in Nat /\ Cardinality(LiveIds({}, T)) \in Nat
    <2>1. {} \in SUBSET Reg OBVIOUS
    <2> QED BY <2>1, DebtCounts
  <1> QED BY <1>1, <1>2 DEF InDebt

\* In a quiet Session every acknowledgement committed was the registration's own.
LEMMA QuietOwn ==
  ASSUME QInv, Quiet
  PROVE  Stream /\ Owed = {} /\ Acked = {} /\ Revoked = {} /\ \A b \in binds : b[1] = b[2]
  <1>1. Stream BY DEF QInv, Quiet, Connected, Listening
  <1>2. Owed = {} /\ Acked = {} /\ Revoked = {}
    BY EmptyViews DEF Quiet, Owed, Sent, Answered, Acked, Revoked
  <1>3. ~Debt BY <1>2, NoDebt DEF Debt
  <1>4. \A b \in binds : b[1] = b[2] BY <1>1, <1>2, <1>3 DEF Stream, Borrowed
  <1> QED BY <1>1, <1>2, <1>4

\* Whenever nothing is under way on the control stream of a ready Session, client
\* and server agree: run_session and ServiceState on the one side, register_service
\* and the control loop's map on the other, whatever acknowledgements, refusals,
\* deadlines, write timeouts and withdrawals crossed before, in either wire mode.
THEOREM QuietAgreed == Spec => []QuietAgreement
  <1>1. QInv => QuietAgreement
    <2> SUFFICES ASSUME QInv, Quiet PROVE ClientSettled /\ ListenersAgree BY DEF QuietAgreement
    <2>1. Stream /\ Owed = {} /\ Acked = {} /\ Revoked = {} /\ \A b \in binds : b[1] = b[2] BY QuietOwn
    <2>2. client = "ready" BY DEF Quiet
    <2>3. Unacknowledged = {} BY <2>1, <2>2 DEF Stream, Answerable
    <2>4. ClientSettled BY <2>2, <2>3 DEF QInv, Routed, ClientSettled
    <2>5. ListenersAgree BY <2>1 DEF Stream, OwnBound, Covered, ListenersAgree
    <2> QED BY <2>4, <2>5
  <1> QED BY <1>1, QuietInvariance, PTL

\* service_state.rs:14-16, "stale, abandoned, and unknown responses can never
\* commit", holds of every quiet Session: an answer that was committed for another
\* registration leaves one that nobody awaits, and the Session ends when it is read.
THEOREM OwnAnswersWhenQuiet == Spec => [](Quiet => CommitsOwnAnswer)
  <1>1. QInv => (Quiet => CommitsOwnAnswer) BY QuietOwn DEF CommitsOwnAnswer
  <1> QED BY <1>1, QuietInvariance, PTL

(***************************************************************************)
(* No caller is forgotten.                                                 *)
(***************************************************************************)

\* The transactions of R are taken; whoever waits afterwards waited before and is
\* neither of R nor of X.
Settles(R, X) ==
  /\ Release(R)
  /\ \A q \in Reg : reply'[q] \in Waiting => reply'[q] = reply[q] /\ q \notin R \cup X

\* Nobody loses his place in the queue but those of X.
Places(X) == \A q \in Reg \ X : Enqueued(q) => Enqueued(q)'

LEMMA SettlesKeeps ==
  ASSUME Types, NoCallForgotten, NEW R, NEW X, Settles(R, X), Places(X),
         client' \in {"ready", "stopped"} => client' = client
  PROVE  NoCallForgotten'
  <1>1. Unacknowledged' = Unacknowledged \ R /\ armed' = armed \ R
    BY ReleaseTypes DEF Settles, Release
  <1> SUFFICES ASSUME NEW q \in Reg
               PROVE  /\ reply'[q] = "queued" => Enqueued(q)'
                      /\ reply'[q] = "waiting" =>
                           q \in Unacknowledged' /\ (client' = "ready" => q \in armed')
                      /\ client' = "stopped" => reply'[q] \notin Waiting
    BY DEF NoCallForgotten
  <1>2. reply'[q] \in Waiting => reply'[q] = reply[q] /\ q \notin R /\ q \notin X BY DEF Settles
  <1>3. reply'[q] = "queued" => Enqueued(q)'
    BY <1>2 DEF NoCallForgotten, Places, Waiting
  <1>4. reply'[q] = "waiting" => q \in Unacknowledged' /\ (client' = "ready" => q \in armed')
    BY <1>1, <1>2 DEF NoCallForgotten, Waiting
  <1>5. client' = "stopped" => reply'[q] \notin Waiting BY <1>2 DEF NoCallForgotten
  <1> QED BY <1>3, <1>4, <1>5

\* Answering those of R and X settles them.
LEMMA AnswerSettles ==
  ASSUME Types, NEW R, NEW X, Release(R), NEW result, result \notin Waiting,
         Answer(R \cup X, result)
  PROVE  Settles(R, X)
  BY DEF Types, CallTypes, Answer, Settles

LEMMA NothingReleased ==
  ASSUME Types, UNCHANGED <<slot, inFlight, armed>>
  PROVE  Release({})
  BY DEF Release

LEMMA NothingSettled ==
  ASSUME Types, UNCHANGED <<slot, inFlight, armed, reply>>
  PROVE  Settles({}, {})
  BY NothingReleased DEF Settles

LEMMA PlacesSame ==
  ASSUME UNCHANGED commands
  PROVE  Places({})
  BY DEF Places, Enqueued

\* Taking a command moves everyone up but the caller at the head.
LEMMA PlacesTaken ==
  ASSUME Types, commands # <<>>, commands' = Tail(commands), NEW X,
         Head(commands).op = "register" => Head(commands).reg \in X
  PROVE  Places(X)
  <1>1. /\ Len(Tail(commands)) = Len(commands) - 1 /\ Len(commands) \in Nat \ {0}
        /\ \A j \in 1..Len(Tail(commands)) : Tail(commands)[j] = commands[j + 1]
        /\ Head(commands) = commands[1]
    <2>1. commands \in Seq(Command) BY DEF Types, CallTypes
    <2> QED BY <2>1, HeadTailProperties, EmptySeq
  <1> SUFFICES ASSUME NEW q \in Reg \ X, Enqueued(q) PROVE Enqueued(q)' BY DEF Places
  <1>2. PICK i \in 1..Len(commands) : commands[i] = [op |-> "register", reg |-> q]
    BY DEF Enqueued
  <1>3. i # 1 BY <1>1, <1>2
  <1>4. /\ i - 1 \in 1..Len(commands')
        /\ commands'[i - 1] = [op |-> "register", reg |-> q]
    BY <1>1, <1>2, <1>3
  <1> QED BY <1>4 DEF Enqueued

LEMMA PlacesGrown ==
  ASSUME Types, NEW c \in Command, commands' = Append(commands, c)
  PROVE  Places({}) /\ \A q \in Reg : c = [op |-> "register", reg |-> q] => Enqueued(q)'
  <1>1. /\ Len(commands') = Len(commands) + 1 /\ Len(commands) \in Nat
        /\ \A i \in 1..Len(commands) : commands'[i] = commands[i]
        /\ commands'[Len(commands) + 1] = c
    <2>1. commands \in Seq(Command) BY DEF Types, CallTypes
    <2> QED BY <2>1, AppendProperties
  <1>2. 1..Len(commands) \subseteq 1..Len(commands') /\ Len(commands) + 1 \in 1..Len(commands')
    BY <1>1
  <1>3. Places({}) BY <1>1, <1>2 DEF Places, Enqueued
  <1>4. \A q \in Reg : c = [op |-> "register", reg |-> q] => Enqueued(q)'
    BY <1>1, <1>2 DEF Enqueued
  <1> QED BY <1>3, <1>4

LEMMA CallStep ==
  ASSUME Types, Routed, ArmedOnly, NoCallForgotten, Next
  PROVE  NoCallForgotten'
  <1> USE DEF clientVars, txnVars, stateVars, callVars
  <1>a. ASSUME NEW R, Settles(R, {}), UNCHANGED commands,
               client' \in {"ready", "stopped"} => client' = client
        PROVE  NoCallForgotten'
    BY <1>a, PlacesSame, SettlesKeeps
  <1>b. ASSUME NEW R, NEW X, Settles(R, X), commands # <<>>, commands' = Tail(commands),
               Head(commands).op = "register" => Head(commands).reg \in X,
               client' \in {"ready", "stopped"} => client' = client
        PROVE  NoCallForgotten'
    BY <1>b, PlacesTaken, SettlesKeeps
  <1>c. ASSUME NEW result, result \notin Waiting, client' = "stopped", Answer(Reg, result)
        PROVE  NoCallForgotten'
    <2>1. \A q \in Reg : reply'[q] \notin Waiting BY <1>c DEF Answer
    <2> QED BY <2>1 DEF NoCallForgotten, Waiting
  <1>d. /\ "disconnected" \notin Waiting /\ "cancelled" \notin Waiting /\ "timeout" \notin Waiting
        /\ "exists" \notin Waiting /\ "exhausted" \notin Waiting /\ "ok" \notin Waiting
        /\ "missed" \notin Waiting /\ \A code : ErrorOf(code) \notin Waiting
    BY DEF Waiting, ErrorOf
  <1>e. ASSUME NEW why, NEW r, LeaveForGood(why, r) PROVE NoCallForgotten'
    BY <1>c, <1>d, <1>e DEF LeaveForGood
  <1>f. ASSUME NEW X, NEW result, NEW why, LeaveClean(X, result, why), result \notin Waiting
        PROVE  Settles(Unacknowledged, X) /\ client' = "down"
    BY <1>f, AnswerSettles DEF LeaveClean
  <1>g. ASSUME NEW R, Release(R), NEW result, result \notin Waiting, Answer(R, result)
        PROVE  Settles(R, {})
    <2>1. R \cup {} = R OBVIOUS
    <2> QED BY <1>g, <2>1, AnswerSettles
  <1>1. ASSUME NEW m \in Modes, Connect(m) PROVE NoCallForgotten'
    <2>1. UNCHANGED commands /\ client' = "init" BY <1>1 DEF Connect
    <2>2. Settles(Unacknowledged, {}) BY <1>1, <1>d, <1>g DEF Connect, SetMode
    <2> QED BY <1>a, <2>1, <2>2
  <1>2. CASE GenerationSpent \/ InitOther BY <1>2, <1>e DEF GenerationSpent, InitOther
  <1>3. CASE Shutdown BY <1>3, <1>c, <1>d DEF Shutdown
  <1>4. CASE (\E r \in Reg : InitRegister(r)) \/ LoseConnection \/ AckMissing \/ ReadOpen
    <2>1. UNCHANGED <<slot, inFlight, armed, reply, commands>> /\ client' \in {client, "down"}
      BY <1>4 DEF InitRegister, LoseConnection, AckMissing, ReadOpen, LeaveDirty
    <2> QED BY <1>a, <2>1, NothingSettled
  <1>5. CASE Activate
    <2>1. UNCHANGED <<slot, inFlight, armed, reply, commands>> /\ client = "init" /\ client' = "ready"
      BY <1>5 DEF Activate
    <2>2. Unacknowledged = {} BY <2>1 DEF Routed
    <2> QED BY <2>1, <2>2 DEF NoCallForgotten, Enqueued, Unacknowledged
  <1>6. CASE InitAck
    <2>1. \/ UNCHANGED <<client, slot, inFlight, armed, reply, commands>>
          \/ \E why, r : LeaveForGood(why, r)
      BY <1>6 DEF InitAck
    <2> QED BY <1>a, <1>e, <2>1, NothingSettled
  <1>7. CASE AckFound
    <2> DEFINE m == Head(toClient[gen])
    <2>1. UNCHANGED <<client, commands>> BY <1>7 DEF AckFound
    <2>2. PICK r \in Found(IdOf[m.reg]) :
            /\ Release({r})
            /\ \/ \E result : result \notin Waiting /\ Answer({r}, result)
               \/ ~Commits(r) /\ UNCHANGED reply
      BY <1>7, <1>d DEF AckFound, Commit
    <2>3. Settles({r}, {})
      <3>1. CASE ~Commits(r) /\ UNCHANGED reply BY <2>2, <3>1 DEF Commits, Settles
      <3> QED BY <1>g, <2>2, <3>1
    <2> QED BY <1>a, <2>1, <2>3
  <1>8. CASE ReadError
    <2>1. UNCHANGED commands BY <1>8 DEF ReadError
    <2>2. CASE slot = None BY <1>8, <1>e, <2>2 DEF ReadError
    <2>3. CASE slot # None
      <3>1. UNCHANGED client /\ Release({slot}) /\ \E code : Answer({slot}, ErrorOf(code))
        BY <1>8, <2>3 DEF ReadError
      <3>2. Settles({slot}, {}) BY <1>d, <1>g, <3>1
      <3> QED BY <1>a, <2>1, <3>1, <3>2
    <2> QED BY <2>2, <2>3
  <1>9. CASE ReadReject
    <2> DEFINE m == Head(toClient[gen])
               F == Found(IdOf[m.reg])
    <2>1. UNCHANGED commands /\ client' \in {client, "down"} BY <1>9 DEF ReadReject, LeaveDirty
    <2>2. Release(F) /\ \E result : result \notin Waiting /\ Answer(F, result)
      BY <1>9, <1>d DEF ReadReject
    <2> HIDE DEF F
    <2>3. Settles(F, {}) BY <1>g, <2>2
    <2> QED BY <1>a, <2>1, <2>3
  <1>10. CASE ReadDrain
    <2>1. UNCHANGED commands /\ LeaveClean({}, "disconnected", "drain") BY <1>10 DEF ReadDrain
    <2>2. Settles(Unacknowledged, {}) /\ client' = "down" BY <1>d, <1>f, <2>1
    <2> QED BY <1>a, <2>1, <2>2
  <1>11. ASSUME NEW R \in SUBSET Reg, ExpireOverdue(R) PROVE NoCallForgotten'
    <2>1. UNCHANGED commands BY <1>11 DEF ExpireOverdue
    <2>2. CASE slot \in R
      <3>1. LeaveClean({}, "timeout", "left") BY <1>11, <2>2 DEF ExpireOverdue
      <3>2. Settles(Unacknowledged, {}) /\ client' = "down" BY <1>d, <1>f, <3>1
      <3> QED BY <1>a, <2>1, <3>2
    <2>3. CASE slot \notin R
      <3>1. UNCHANGED client /\ Release(R) /\ Answer(R, "timeout")
        BY <1>11, <2>3 DEF ExpireOverdue
      <3>2. Settles(R, {}) BY <1>d, <1>g, <3>1
      <3> QED BY <1>a, <2>1, <3>1, <3>2
    <2> QED BY <2>2, <2>3
  <1>12. CASE RefuseRegister
    <2> DEFINE r == Head(commands).reg
    <2>1. /\ UNCHANGED <<client, slot, inFlight, armed>>
          /\ commands # <<>> /\ commands' = Tail(commands)
      BY <1>12 DEF RefuseRegister, NextCommand
    <2>2. \/ reply[r] = "dropped" /\ UNCHANGED reply
          \/ Answer({r}, "exhausted") \/ Answer({r}, "exists")
      BY <1>12 DEF RefuseRegister
    <2>3. \A q \in Reg : reply'[q] \in Waiting => reply'[q] = reply[q] /\ q # r
      BY <1>d, <2>2 DEF Answer, Waiting
    <2>4. Settles({}, {r}) BY <2>1, <2>3, NothingReleased DEF Settles
    <2> HIDE DEF r
    <2>5. Head(commands).reg \in {r} BY DEF r
    <2> QED BY <1>b, <2>1, <2>4, <2>5
  <1>13. ASSUME NEW r \in Reg, Register(r) \/ RegisterWriteError(r) PROVE NoCallForgotten'
    <2>1. /\ commands # <<>> /\ commands' = Tail(commands) /\ Head(commands).reg = r
          /\ client = "ready" /\ client' \in {"ready", "down"}
      BY <1>13 DEF Register, RegisterWriteError, Begins, NextCommand, LeaveDirty
    <2>2. Places({r}) BY <2>1, PlacesTaken
    <2>3. Unacknowledged' = Unacknowledged \cup {r}
      BY <1>13, RegAssumption DEF Register, RegisterWriteError, Begins, NoRoom, Unacknowledged
    <2>4. armed \subseteq armed' /\ (client' = "ready" => r \in armed')
      BY <1>13 DEF Register, RegisterWriteError, Armed, LeaveDirty
    <2>5. reply' = [reply EXCEPT ![r] = "waiting"] BY <1>13 DEF Register, RegisterWriteError
    <2> SUFFICES ASSUME NEW q \in Reg
                 PROVE  /\ reply'[q] = "queued" => Enqueued(q)'
                        /\ reply'[q] = "waiting" =>
                             q \in Unacknowledged' /\ (client' = "ready" => q \in armed')
                        /\ client' = "stopped" => reply'[q] \notin Waiting
      BY DEF NoCallForgotten
    <2>6. CASE q = r BY <2>1, <2>3, <2>4, <2>5, <2>6 DEF Types, CallTypes
    <2>7. CASE q # r
      <3>1. reply'[q] = reply[q] BY <2>5, <2>7
      <3>2. reply'[q] = "queued" => Enqueued(q)' BY <2>2, <2>7, <3>1 DEF NoCallForgotten, Places
      <3> QED BY <2>1, <2>3, <2>4, <3>1, <3>2 DEF NoCallForgotten
    <2> QED BY <2>6, <2>7
  <1>14. ASSUME NEW r \in Reg, RegisterWriteTimeout(r) PROVE NoCallForgotten'
    <2>1. commands # <<>> /\ commands' = Tail(commands) /\ Head(commands).reg \in {r}
      BY <1>14 DEF RegisterWriteTimeout, Begins, NextCommand
    <2>2. CASE mode = "legacy"
      <3>1. LeaveClean({r}, "timeout", "left") BY <1>14, <2>2 DEF RegisterWriteTimeout
      <3>2. Settles(Unacknowledged, {r}) /\ client' = "down" BY <1>d, <1>f, <3>1
      <3> QED BY <1>b, <2>1, <3>2
    <2>3. CASE mode # "legacy"
      <3>1. UNCHANGED <<client, slot, inFlight, armed>> /\ Answer({r}, "timeout")
        BY <1>14, <2>3 DEF RegisterWriteTimeout
      <3>2. {} \cup {r} = {r} OBVIOUS
      <3>3. Settles({}, {r}) BY <1>d, <3>1, <3>2, NothingReleased, AnswerSettles
      <3> QED BY <1>b, <2>1, <3>1, <3>3
    <2> QED BY <2>2, <2>3
  <1>u. ASSUME NEW id, Unregister(id) PROVE Settles(ById(Unacknowledged, id), {})
    BY <1>d, <1>g, <1>u DEF Unregister
  <1>15. CASE UnregisterActive \/ UnregisterOther
    <2>1. /\ commands # <<>> /\ commands' = Tail(commands) /\ Head(commands).op = "unregister"
          /\ Unregister(Head(commands).id) /\ client' \in {client, "down"}
      BY <1>15 DEF UnregisterActive, UnregisterOther, NextCommand, LeaveDirty
    <2>2. Settles(ById(Unacknowledged, Head(commands).id), {}) BY <1>u, <2>1
    <2> QED BY <1>b, <2>1, <2>2
  <1>16. CASE OfflineCommand
    <2>1. commands # <<>> /\ commands' = Tail(commands) /\ UNCHANGED client
      BY <1>16 DEF OfflineCommand
    <2>2. CASE Head(commands).op = "register"
      <3> DEFINE X == {Head(commands).reg}
      <3>1. UNCHANGED <<slot, inFlight, armed>> /\ Answer(X, "disconnected")
        BY <1>16, <2>2 DEF OfflineCommand
      <3>2. {} \cup X = X OBVIOUS
      <3>3. Settles({}, X) BY <1>d, <3>1, <3>2, NothingReleased, AnswerSettles
      <3> QED BY <1>b, <2>1, <3>3
    <2>3. CASE Head(commands).op # "register"
      <3>1. Unregister(Head(commands).id) BY <1>16, <2>3 DEF OfflineCommand
      <3>2. Settles(ById(Unacknowledged, Head(commands).id), {}) BY <1>u, <3>1
      <3> QED BY <1>b, <2>1, <2>3, <3>2
    <2> QED BY <2>2, <2>3
  <1>17. ASSUME NEW r \in Reg, CallRegister(r) PROVE NoCallForgotten'
    <2>1. UNCHANGED <<client, slot, inFlight, armed>> /\ reply[r] = "idle" /\ client # "stopped"
      BY <1>17 DEF CallRegister
    <2>2. CASE client = "ready"
      <3> DEFINE c == [op |-> "register", reg |-> r]
      <3>1. commands' = Append(commands, c) /\ reply' = [reply EXCEPT ![r] = "queued"]
        BY <1>17, <2>2 DEF CallRegister
      <3>2. c \in Command BY DEF Command
      <3>3. Places({}) /\ Enqueued(r)'
        <4> HIDE DEF c
        <4>1. c = [op |-> "register", reg |-> r] BY DEF c
        <4> QED BY <3>1, <3>2, <4>1, PlacesGrown
      <3>4. \A q \in Reg : q # r => reply'[q] = reply[q] BY <3>1
      <3>5. reply'[r] = "queued" BY <3>1 DEF Types, CallTypes
      <3> QED BY <2>1, <3>3, <3>4, <3>5 DEF NoCallForgotten, Places, Unacknowledged
    <2>3. CASE client # "ready"
      <3>1. UNCHANGED commands /\ reply' = [reply EXCEPT ![r] = "disconnected"]
        BY <1>17, <2>3 DEF CallRegister
      <3>2. \A q \in Reg : reply'[q] \in Waiting => reply'[q] = reply[q] BY <1>d, <3>1
      <3>3. Settles({}, {}) BY <2>1, <3>2, NothingReleased DEF Settles
      <3> QED BY <1>a, <2>1, <3>1, <3>3
    <2> QED BY <2>2, <2>3
  <1>18. ASSUME NEW id \in ServiceId, CallUnregister(id) PROVE NoCallForgotten'
    <2> DEFINE c == [op |-> "unregister", id |-> id]
    <2>1. commands' = Append(commands, c) /\ UNCHANGED <<client, slot, inFlight, armed, reply>>
      BY <1>18 DEF CallUnregister
    <2>2. c \in Command BY DEF Command
    <2> HIDE DEF c
    <2>3. Places({}) BY <2>1, <2>2, PlacesGrown
    <2>4. Settles({}, {}) BY <2>1, NothingSettled
    <2> QED BY <2>1, <2>3, <2>4, SettlesKeeps
  <1>19. ASSUME NEW r \in Reg, GiveUp(r) PROVE NoCallForgotten'
    <2>1. UNCHANGED <<client, slot, inFlight, armed, commands>>
          /\ reply' = [reply EXCEPT ![r] = "dropped"]
      BY <1>19 DEF GiveUp
    <2>2. \A q \in Reg : reply'[q] \in Waiting => reply'[q] = reply[q] BY <2>1 DEF Waiting
    <2>3. Settles({}, {}) BY <2>1, <2>2, NothingReleased DEF Settles
    <2> QED BY <1>a, <2>1, <2>3
  <1>20. ASSUME NEW g \in Gen, ServerStep(g) PROVE NoCallForgotten'
    <2>1. UNCHANGED <<client, slot, inFlight, armed, commands, reply>>
      BY <1>20 DEF ServerStep, ServerReads, SrvAdmit, SrvRefuse, SrvUnregister, SrvShutdown,
                   SrvStop, SrvGone, CloseListener, SrvOpen
    <2> QED BY <1>a, <2>1, NothingSettled
  <1> QED
    BY <1>1, <1>2, <1>3, <1>4, <1>5, <1>6, <1>7, <1>8, <1>9, <1>10, <1>11, <1>12, <1>13, <1>14,
       <1>15, <1>16, <1>17, <1>18, <1>19, <1>20, NextCases
    DEF ClientStep, InitStep, ReadMessage, TakeCommand

\* Every caller of register_service is accounted for: queued, or with a transaction
\* whose deadline is set, or answered.  With a timer that fires this is what
\* CallSettles rests on (client.rs, run_session; client/service_state.rs).
THEOREM CallersRemembered == Spec => []NoCallForgotten
  <1>1. Init => NoCallForgotten
    BY DEF Init, NoCallForgotten, Waiting
  <1>2. QInv /\ NoCallForgotten /\ [Next]_vars => NoCallForgotten'
    <2> SUFFICES ASSUME QInv, NoCallForgotten, [Next]_vars PROVE NoCallForgotten' OBVIOUS
    <2>1. CASE Next BY <2>1, CallStep DEF QInv, IInv
    <2>2. CASE UNCHANGED vars
      BY <2>2 DEF vars, clientVars, txnVars, callVars, NoCallForgotten, Enqueued, Unacknowledged
    <2> QED BY <2>1, <2>2
  <1> QED BY <1>1, <1>2, QuietInvariance, PTL DEF Spec

\* Callers are told the truth and none of them is forgotten.
THEOREM CallersAlwaysServed == Spec => []CallersServed
  BY DesiredAcknowledged, CallersRemembered, PTL DEF CallersServed

=============================================================================
