------------------------------- MODULE Ticket -------------------------------
(***************************************************************************)
(* What the correlation of data connections promises, without tasks, locks *)
(* or counters: a ConnectionId is a ticket.  It is issued once, for one    *)
(* Session and one Service; while it is open it is claimed by at most one  *)
(* DataHello, which names that Session and that Service and comes from the *)
(* Principal that owns the Session; or it becomes void.  A claimed or void *)
(* ticket never changes again.                                             *)
(***************************************************************************)
CONSTANTS Conn, Session, ServiceId, Principal, PrincipalOf, NoScope, NoMessage

VARIABLES
  ticket,  \* ticket[c]: the state of ConnectionId c
  scope,   \* scope[c]: the Session and Service c was issued for
  claim    \* claim[c]: the DataHello that claimed c

vars == <<ticket, scope, claim>>

Init ==
  /\ ticket = [c \in Conn |-> "unissued"]
  /\ scope = [c \in Conn |-> NoScope]
  /\ claim = [c \in Conn |-> NoMessage]

\* A listener of Service v in Session s advertises c.
Issue(c, s, v) ==
  /\ ticket[c] = "unissued"
  /\ ticket' = [ticket EXCEPT ![c] = "open"]
  /\ scope' = [scope EXCEPT ![c] = [sess |-> s, svc |-> v]]
  /\ UNCHANGED claim

\* The right peer presents c for the right Session and Service.
Claim(c, m) ==
  /\ ticket[c] = "open"
  /\ m.conn = c
  /\ [sess |-> m.sess, svc |-> m.svc] = scope[c]
  /\ m.prin = PrincipalOf[m.sess]
  /\ ticket' = [ticket EXCEPT ![c] = "claimed"]
  /\ claim' = [claim EXCEPT ![c] = m]
  /\ UNCHANGED scope

\* Open tickets lapse together: expiry, refusal, unregistration, teardown.
Lapse(R) ==
  /\ \A c \in R : ticket[c] = "open"
  /\ ticket' = [c \in Conn |-> IF c \in R THEN "void" ELSE ticket[c]]
  /\ UNCHANGED <<scope, claim>>

Next ==
  \/ \E c \in Conn, s \in Session, v \in ServiceId : Issue(c, s, v)
  \/ \E c \in Conn :
       \E m \in [sess : Session, svc : ServiceId, conn : {c}, prin : Principal] :
         Claim(c, m)
  \/ \E R \in SUBSET Conn : Lapse(R)

Spec == Init /\ [][Next]_vars
=============================================================================
