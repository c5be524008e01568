-------------------------- MODULE ReconnectProofs --------------------------
(***************************************************************************)
(* The supervisor for every policy, number of attempts and set of Opens:   *)
(* retries are paced and counted, permits are conserved across Sessions    *)
(* and a terminal error is final.                                          *)
(***************************************************************************)
EXTENDS Reconnect, FiniteSetTheorems, TLAPS

\* The counter runs one behind the attempts until a sleep has been completed.
Counted ==
  /\ worker = "top" => reconnects = attempts
  /\ worker \notin {"top", "ended"} => reconnects = attempts - 1
  /\ worker = "ended" => reconnects \in {attempts - 1, attempts}
  /\ fails <= reconnects

\* A terminal error is not backed off.
Final == worker \in {"top", "backoff"} => result # "terminal"

\* No attempt owns a task before its Session is ready, tasks of earlier ones may
\* live on, and the permits of this Session are free or held by its tasks.
Owned ==
  /\ \A o \in Live : owner[o] <= attempts
  /\ worker \in {"establishing", "handshaking"} => Mine = {}
  /\ permits + Cardinality(Mine) <= MaxOpens
  /\ OpensConserved

Running == {o \in Open : task[o] = "running"}

IInv ==
  /\ TypeOK /\ Counted /\ BackoffPaced /\ Final /\ Owned /\ NoOrphans
  /\ openTasks = Cardinality(Running)

LEMMA Constants ==
  /\ MaxOpens \in Nat /\ MaxOpens > 0 /\ Initial \in Nat /\ Initial > 0
  /\ MaxDelay \in Nat /\ Initial <= MaxDelay /\ JitterCap \in Nat /\ MaxAttempts \in Nat
  BY PolicyAssumption

\* Every set of Opens is finite.
LEMMA FiniteParts == \A S \in SUBSET Open : IsFiniteSet(S) /\ Cardinality(S) \in Nat
  BY FS_Subset, FS_CardinalityType, PolicyAssumption

LEMMA Initially == Init => IInv
  <1> SUFFICES ASSUME Init PROVE IInv OBVIOUS
  <1>1. Live = {} /\ Mine = {} /\ Running = {} BY DEF Init, Live, Mine, Running
  <1>2. Cardinality({}) = 0 BY FS_EmptySet
  <1>3. TypeOK
    <2>1. cancel \in BOOLEAN /\ connected \in BOOLEAN BY DEF Init
    <2>2. nap \in [slept : Nat, of : Nat] BY Constants DEF Init
    <2>3. task \in [Open -> {"new", "running", "releasing", "done", "refused"}] BY DEF Init
    <2>4. owner \in [Open -> 0..MaxAttempts] BY Constants DEF Init
    <2> QED BY <2>1, <2>2, <2>3, <2>4, Constants DEF Init, TypeOK, Workers
  <1>4. BackoffPaced BY Constants, PowersOfTwo DEF Init, BackoffPaced, Least
  <1>5. Counted /\ Final BY DEF Init, Counted, Final
  <1>6. Owned /\ NoOrphans
    BY <1>1, <1>2, Constants DEF Init, Owned, OpensConserved, NoOrphans, InSession
  <1> QED BY <1>1, <1>2, <1>3, <1>4, <1>5, <1>6 DEF IInv, Init

(***************************************************************************)
(* The pace.                                                               *)
(***************************************************************************)
\* Doubling what was cut at the ceiling is cutting what was doubled.
LEMMA DoubledPace ==
  ASSUME NEW n \in 0..MaxAttempts, NEW d, d = Least(Initial * 2 ^ n, MaxDelay)
  PROVE  Least(d * 2, MaxDelay) = Least(Initial * 2 ^ (n + 1), MaxDelay)
  <1> DEFINE e == 2 ^ n
             x == Initial * e
  <1>1. e \in Nat /\ 2 ^ (n + 1) = 2 * e BY PowersOfTwo
  <1>2. x \in Nat /\ Initial * (2 * e) = x * 2 BY <1>1, Constants
  <1>3. d = Least(x, MaxDelay) OBVIOUS
  <1> HIDE DEF e, x
  <1>4. Least(d * 2, MaxDelay) = Least(x * 2, MaxDelay) BY <1>2, <1>3, Constants DEF Least
  <1> QED BY <1>1, <1>2, <1>4 DEF x

LEMMA SleepPaced ==
  ASSUME TypeOK, BackoffPaced, Sleep
  PROVE  /\ BackoffPaced' /\ delay' \in Nat
         /\ nap' \in [slept : Nat, of : Nat]
  <1>1. PICK jitter \in Jitters : nap' = [slept |-> Capped(jitter), of |-> delay] BY DEF Sleep
  <1>2. delay \in Nat /\ delay <= MaxDelay
    BY Constants DEF TypeOK, BackoffPaced, Least
  <1>3. jitter \in Nat BY <1>2, Constants DEF Jitters, Least
  <1>4. /\ nap'.of = delay /\ nap'.slept = Capped(jitter)
        /\ Capped(jitter) \in Nat /\ delay <= Capped(jitter) /\ Capped(jitter) <= MaxDelay
    BY <1>1, <1>2, <1>3, Constants DEF Capped, Least
  <1>5. nap' \in [slept : Nat, of : Nat] BY <1>1, <1>2, <1>4
  <1>6. delay' = Least(Initial * 2 ^ fails', MaxDelay)
    <2>1. fails \in 0..MaxAttempts /\ fails' = fails + 1 /\ delay' = Least(delay * 2, MaxDelay)
      BY DEF TypeOK, Sleep
    <2>2. delay = Least(Initial * 2 ^ fails, MaxDelay) BY DEF BackoffPaced
    <2> QED BY <2>1, <2>2, DoubledPace
  <1>7. delay' \in Nat BY <1>2, Constants DEF Sleep, Least
  <1> QED BY <1>4, <1>5, <1>6, <1>7 DEF BackoffPaced

(***************************************************************************)
(* Steps that leave the tasks alone.                                       *)
(***************************************************************************)
Lives == Supervise \/ Ready \/ SessionError \/ Break \/ Leave \/ Shutdown

LEMMA SuperviseKeeps ==
  ASSUME IInv, Lives
  PROVE  TypeOK' /\ Counted' /\ BackoffPaced' /\ Final'
  <1> USE Constants DEF IInv, TypeOK, Workers, InSession, paceVars, taskVars, Live, Mine
  <1>1. CASE Begin BY <1>1 DEF Begin, Counted, BackoffPaced, Final
  <1>2. CASE Establish \/ CancelEstablish
    BY <1>2 DEF Establish, CancelEstablish, Counted, BackoffPaced, Final
  <1>3. CASE Finish BY <1>3 DEF Finish, Terminal, Counted, BackoffPaced, Final
  <1>4. CASE Sleep
    <2>1. BackoffPaced' /\ delay' \in Nat /\ nap' \in [slept : Nat, of : Nat]
      BY <1>4, SleepPaced
    <2>2. Counted' /\ Final' BY <1>4 DEF Sleep, Counted, Final
    <2>3. TypeOK' BY <1>4, <2>1 DEF Sleep, Counted
    <2> QED BY <2>1, <2>2, <2>3
  <1>5. CASE CancelSleep BY <1>5 DEF CancelSleep, Counted, BackoffPaced, Final
  <1>6. CASE Ready
    <2>1. BackoffPaced' BY <1>6, PowersOfTwo DEF Ready, BackoffPaced, Least
    <2>2. TypeOK' /\ Counted' /\ Final' BY <1>6 DEF Ready, Counted, Final
    <2> QED BY <2>1, <2>2
  <1>7. CASE SessionError BY <1>7 DEF SessionError, Counted, BackoffPaced, Final
  <1>8. CASE Break BY <1>8 DEF Break, Counted, BackoffPaced, Final
  <1>9. CASE Farewell \/ GraceEnds \/ Joined \/ DropSession
    BY <1>9 DEF Farewell, GraceEnds, Joined, DropSession, Counted, BackoffPaced, Final
  <1>10. CASE Shutdown BY <1>10 DEF Shutdown, Counted, BackoffPaced, Final
  <1> QED BY <1>1, <1>2, <1>3, <1>4, <1>5, <1>6, <1>7, <1>8, <1>9, <1>10
      DEF Lives, Supervise, Leave

LEMMA SuperviseOwned ==
  ASSUME IInv, Lives
  PROVE  Owned' /\ openTasks' = Cardinality(Running')
  <1>t. task' = task /\ owner' = owner /\ openTasks' = openTasks
    BY DEF Lives, Supervise, Leave, Begin, Establish, CancelEstablish, Finish, Sleep, CancelSleep,
           Ready, SessionError, Break, Farewell, GraceEnds, Joined, DropSession, Shutdown, taskVars
  <1>l. Live' = Live /\ Running' = Running BY <1>t DEF Live, Running
  <1>1. CASE Begin /\ ~cancel
    <2>1. attempts' = attempts + 1 /\ worker' = "establishing" /\ permits' = permits
      BY <1>1 DEF Begin, taskVars
    <2>2. Mine' = {} BY <1>l, <1>t, <2>1 DEF Mine, IInv, Owned, TypeOK, Live
    <2>3. Cardinality({}) = 0 BY FS_EmptySet
    <2>4. \A o \in Live' : owner'[o] <= attempts'
      BY <1>l, <1>t, <2>1 DEF IInv, Owned, TypeOK, Live
    <2> QED BY <1>l, <1>t, <2>1, <2>2, <2>3, <2>4, Constants
        DEF IInv, Owned, OpensConserved, InSession, TypeOK
  <1>2. CASE Ready
    <2>1. /\ worker = "handshaking" /\ worker' = "ready" /\ permits' = MaxOpens
          /\ attempts' = attempts
      BY <1>2 DEF Ready
    <2>2. Mine' = {} BY <1>l, <1>t, <2>1 DEF Mine, IInv, Owned
    <2>3. Cardinality({}) = 0 BY FS_EmptySet
    <2> QED BY <1>l, <1>t, <2>1, <2>2, <2>3, Constants DEF IInv, Owned, OpensConserved, InSession
  <1>3. CASE ~(Begin /\ ~cancel) /\ ~Ready
    <2>1. attempts' = attempts /\ permits' = permits
      BY <1>3 DEF Lives, Supervise, Leave, Begin, Establish, CancelEstablish, Finish, Sleep,
           CancelSleep, SessionError, Break, Farewell, GraceEnds, Joined, DropSession, Shutdown,
           taskVars, paceVars
    <2>2. Mine' = Mine BY <1>l, <1>t, <2>1 DEF Mine
    <2>3. /\ worker' \in {"establishing", "handshaking"} => worker \in {"establishing", "handshaking"}
          /\ worker' \in InSession \ {"handshaking"} => worker \in InSession \ {"handshaking"}
      BY <1>3 DEF Lives, Supervise, Leave, Begin, Establish, CancelEstablish, Finish, Sleep,
           CancelSleep, SessionError, Break, Farewell, GraceEnds, Joined, DropSession, Shutdown,
           InSession
    <2> QED BY <1>l, <1>t, <2>1, <2>2, <2>3 DEF IInv, Owned, OpensConserved
  <1> QED BY <1>1, <1>2, <1>3

\* The supervisor leaves a Session only when it has joined its tasks or aborted
\* them, and the next attempt begins with none.
LEMMA SuperviseAborts ==
  ASSUME IInv, Lives
  PROVE  NoOrphans'
  <1> USE DEF IInv, NoOrphans, InSession, Live, Mine, TypeOK
  <1>1. CASE Supervise
    BY <1>1 DEF Supervise, Begin, Establish, CancelEstablish, Finish, Sleep, CancelSleep,
                paceVars, taskVars
  <1>2. CASE Leave
    BY <1>2 DEF Leave, Farewell, GraceEnds, Joined, DropSession, paceVars, taskVars
  <1>3. CASE Ready \/ SessionError \/ Break \/ Shutdown
    BY <1>3 DEF Ready, SessionError, Break, Shutdown, paceVars, taskVars
  <1> QED BY <1>1, <1>2, <1>3 DEF Lives

(***************************************************************************)
(* Open tasks.                                                             *)
(***************************************************************************)
Works(o) == ReadOpen(o) \/ RefuseOpen(o) \/ EndTask(o) \/ ReturnPermit(o)

LEMMA TaskOwned ==
  ASSUME IInv, NEW o \in Open, Works(o)
  PROVE  IInv'
  <1>c. /\ task \in [Open -> {"new", "running", "releasing", "done", "refused"}]
        /\ owner \in [Open -> 0..MaxAttempts] /\ permits \in 0..MaxOpens /\ openTasks \in Nat
        /\ attempts \in 0..MaxAttempts
    BY DEF IInv, TypeOK
  <1>f. /\ IsFiniteSet(Mine) /\ Cardinality(Mine) \in Nat
        /\ IsFiniteSet(Running) /\ Cardinality(Running) \in Nat
    BY FiniteParts DEF Mine, Live, Running
  <1>u. /\ worker' = worker /\ attempts' = attempts /\ result' = result /\ reconnects' = reconnects
        /\ delay' = delay /\ fails' = fails /\ nap' = nap
    BY DEF Works, ReadOpen, RefuseOpen, EndTask, ReturnPermit, paceVars
  <1>0. Counted' /\ BackoffPaced' /\ Final'
    BY <1>u DEF IInv, Counted, BackoffPaced, Final
  <1>p. NoOrphans'
    BY <1>c, <1>u DEF Works, ReadOpen, RefuseOpen, EndTask, ReturnPermit, IInv, NoOrphans, Live,
                      InSession
  <1>1. CASE ReadOpen(o)
    <2>1. Mine' = Mine \cup {o} /\ o \notin Mine BY <1>1, <1>c, <1>u DEF ReadOpen, Mine, Live
    <2>2. Cardinality(Mine') = Cardinality(Mine) + 1 BY <2>1, <1>f, FS_AddElement
    <2>3. Running' = Running \cup {o} /\ o \notin Running BY <1>1, <1>c DEF ReadOpen, Running
    <2>4. Cardinality(Running') = Cardinality(Running) + 1 BY <2>3, <1>f, FS_AddElement
    <2>5. \A x \in Live' : owner'[x] <= attempts'
      BY <1>1, <1>c, <1>u DEF ReadOpen, Live, IInv, Owned
    <2>6. Owned'
      BY <1>1, <1>c, <1>f, <1>u, <2>2, <2>5, Constants
      DEF ReadOpen, Room, IInv, Owned, OpensConserved, InSession
    <2>7. TypeOK'
      <3>1. task' \in [Open -> {"new", "running", "releasing", "done", "refused"}]
        BY <1>1, <1>c DEF ReadOpen
      <3>2. owner' \in [Open -> 0..MaxAttempts] BY <1>1, <1>c DEF ReadOpen
      <3>3. permits' \in 0..MaxOpens /\ openTasks' \in Nat
        BY <1>1, <1>c, Constants DEF ReadOpen, Room
      <3> QED BY <1>1, <1>u, <3>1, <3>2, <3>3 DEF ReadOpen, IInv, TypeOK
    <2> QED BY <1>0, <1>p, <1>1, <2>4, <2>6, <2>7 DEF IInv, ReadOpen
  <1>2. CASE RefuseOpen(o)
    <2>1. Mine' = Mine /\ Running' = Running /\ Live' = Live
      BY <1>2, <1>c, <1>u DEF RefuseOpen, Mine, Live, Running
    <2>2. Owned' BY <2>1, <1>2, <1>u DEF RefuseOpen, IInv, Owned, OpensConserved
    <2>3. TypeOK' BY <1>2, <1>c, <1>u DEF RefuseOpen, IInv, TypeOK, paceVars
    <2> QED BY <1>0, <1>p, <1>2, <2>1, <2>2, <2>3 DEF IInv, RefuseOpen
  <1>3. CASE EndTask(o)
    <2>1. Mine' = Mine /\ Live' = Live BY <1>3, <1>c, <1>u DEF EndTask, Mine, Live
    <2>2. Running' = Running \ {o} /\ o \in Running BY <1>3, <1>c DEF EndTask, Running
    <2>3. Cardinality(Running') = Cardinality(Running) - 1 BY <2>2, <1>f, FS_RemoveElement
    <2>4. Cardinality(Running') \in Nat BY FiniteParts DEF Running
    <2>5. Owned' BY <2>1, <1>3, <1>u DEF EndTask, IInv, Owned, OpensConserved
    <2>6. openTasks' = Cardinality(Running') BY <1>3, <2>3 DEF EndTask, IInv
    <2>7. TypeOK' BY <1>3, <1>c, <1>u, <2>4, <2>6 DEF EndTask, IInv, TypeOK, paceVars
    <2> QED BY <1>0, <1>p, <2>5, <2>6, <2>7 DEF IInv
  <1>4. CASE ReturnPermit(o)
    <2>1. Running' = Running BY <1>4, <1>c DEF ReturnPermit, Running
    <2>2. Live' \subseteq Live BY <1>4, <1>c DEF ReturnPermit, Live
    <2>3. Mine' = Mine \ {o} BY <1>4, <1>c, <1>u DEF ReturnPermit, Mine, Live
    <2>4. Cardinality(Mine') = IF o \in Mine THEN Cardinality(Mine) - 1 ELSE Cardinality(Mine)
      BY <2>3, <1>f, FS_RemoveElement
    <2>5. Cardinality(Mine') \in Nat BY FiniteParts DEF Mine, Live
    <2>6. permits' = IF o \in Mine THEN permits + 1 ELSE permits BY <1>4 DEF ReturnPermit
    <2>7. /\ permits' + Cardinality(Mine') = permits + Cardinality(Mine)
          /\ permits' \in Nat
      BY <2>4, <2>6, <1>c, <1>f
    <2>8. Owned' BY <1>4, <1>u, <2>2, <2>3, <2>7 DEF ReturnPermit, IInv, Owned, OpensConserved
    <2>9. permits' \in 0..MaxOpens BY <2>5, <2>7, <1>f, <1>c, Constants DEF IInv, Owned
    <2>10. TypeOK' BY <1>4, <1>c, <1>u, <2>9 DEF ReturnPermit, IInv, TypeOK, paceVars
    <2> QED BY <1>0, <1>p, <1>4, <2>1, <2>8, <2>10 DEF IInv, ReturnPermit
  <1> QED BY <1>1, <1>2, <1>3, <1>4 DEF Works

LEMMA Inductive == IInv /\ [Next]_vars => IInv'
  <1> SUFFICES ASSUME IInv, [Next]_vars PROVE IInv' OBVIOUS
  <1>1. CASE Lives BY <1>1, SuperviseKeeps, SuperviseOwned, SuperviseAborts DEF IInv
  <1>2. ASSUME NEW o \in Open, Works(o) PROVE IInv' BY <1>2, TaskOwned
  <1>3. CASE UNCHANGED vars
    BY <1>3 DEF vars, IInv, TypeOK, Counted, BackoffPaced, Final, Owned, OpensConserved,
                NoOrphans, Running, Live, Mine
  <1> QED BY <1>1, <1>2, <1>3 DEF Next, Lives, Works

\* The inductive invariant.
THEOREM Invariance == Spec => []IInv
  BY Initially, Inductive, PTL DEF Spec

\* Every variable keeps its type: the semaphore never holds more than it was made
\* with and the counter of Open tasks never wraps.
THEOREM TypeCorrect == Spec => []TypeOK
  <1>1. IInv => TypeOK BY DEF IInv
  <1> QED BY Invariance, <1>1, PTL

\* Backoff doubles up to the ceiling, no sleep is shorter than its delay or longer
\* than the ceiling, and the reconnect counter counts completed sleeps only.
THEOREM RetriesPaced == Spec => []BackoffAccounted
  <1>1. IInv => BackoffAccounted
    BY DEF IInv, BackoffAccounted, ReconnectsExact, Counted
  <1> QED BY Invariance, <1>1, PTL

\* The Open permits of a Session are free or held by its own tasks, although tasks of
\* earlier Sessions end beside it.
THEOREM PermitsOfSession == Spec => []OpensConserved
  <1>1. IInv => OpensConserved BY DEF IInv, Owned
  <1> QED BY Invariance, <1>1, PTL

\* No Open task is left to itself: it belongs to the running Session or has been
\* aborted, whichever way the Session before ended (client.rs, run_session).
THEOREM TasksOfSession == Spec => []NoOrphans
  <1>1. IInv => NoOrphans BY DEF IInv
  <1> QED BY Invariance, <1>1, PTL

\* Permits and tasks of every Session are accounted for.
THEOREM OpensSettled == Spec => []OpensAccounted
  BY PermitsOfSession, TasksOfSession, PTL DEF OpensAccounted

\* After a terminal error there is no other attempt.
THEOREM StopsForGood == Spec => TerminalIsFinal
  <1>1. IInv /\ [Next]_vars => [attempts' # attempts => result # "terminal"]_vars
    <2> SUFFICES ASSUME IInv, Next, attempts' # attempts PROVE result # "terminal"
      BY DEF vars
    <2>1. worker = "top"
      BY DEF Next, Supervise, Leave, Begin, Establish, CancelEstablish, Finish, Sleep, CancelSleep,
         Ready, SessionError, Break, Farewell, GraceEnds, Joined, DropSession, Shutdown, paceVars,
         ReadOpen, RefuseOpen, EndTask, ReturnPermit
    <2> QED BY <2>1 DEF IInv, Final
  <1> QED BY Invariance, <1>1, PTL DEF Spec, TerminalIsFinal

=============================================================================
