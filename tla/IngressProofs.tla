--------------------------- MODULE IngressProofs ---------------------------
(***************************************************************************)
(* The handshake for every set of ends, every number of attempts and every *)
(* limit: both ends mean the same Session, failures have their reasons and *)
(* tasks their owners.                                                     *)
(*                                                                         *)
(* The heart of the invariant is Dialogue: where the server is says where  *)
(* the client can be and what may be on the wire between them.             *)
(***************************************************************************)
EXTENDS Ingress, SequenceTheorems, TLAPS

Talking == {"get", "tls", "upgrade", "hello", "auth", "session"}
Stages == Talking \cup {"idle", "connect", "done"}
Waits == {"tls", "finished", "upgrade", "stream", "first"}
Handlers == Waits \cup {"none", "control", "loop", "joining", "done"}
Controls == {"none", "hello", "auth", "rejecting", "enter", "welcome", "serving", "ended"}
Reasons == {"nothing", "certificate", "transport", "version", "refused", "unavailable"}
Over(f) == f = [n \in Attempts |-> f[n]]

Types ==
  /\ attempt \in 0..MaxAttempts /\ stage \in Stages
  /\ stage \in Talking \cup {"connect"} => attempt \in Attempts
  /\ handler \in [Attempts -> Handlers] /\ control \in [Attempts -> Controls]
  /\ why \in [Attempts -> Reasons]
  /\ Over(outcome) /\ Over(up) /\ Over(down) /\ Over(offer) /\ Over(granted)
  /\ opened \in [Attempts -> Nat] /\ streams \in [Attempts -> Nat]
  /\ lost \subseteq Attempts /\ left \subseteq Attempts /\ dialled \subseteq Attempts
  /\ shutdown \in {"up", "draining", "stopped"}

\* A shutdown disturbs everyone, and cuts no Session before it has begun.
Calm == (shutdown # "up" => disturbed = Attempts) /\ (shutdown = "up" => cut = {})

\* What has not been dialled yet has left no trace.
Fresh ==
  \A n \in Attempts :
    (n > attempt \/ (n = attempt /\ stage = "connect")) =>
      /\ handler[n] = "none" /\ up[n] = <<>> /\ down[n] = <<>>
      /\ n \notin lost /\ n \notin left /\ why[n] = "nothing" /\ outcome[n] = "none"

\* serve_control is there from the ClientHello on; over a stream the handler is it.
LinkedAt(n) ==
  /\ handler[n] \in Waits \cup {"none"} => control[n] = "none"
  /\ handler[n] \in {"control", "loop", "joining"} => control[n] # "none"
  /\ handler[n] \in {"stream", "loop", "joining"} => Quic
  /\ handler[n] = "control" => ~Quic /\ control[n] # "ended"
  /\ handler[n] = "done" /\ ~Quic => control[n] \in {"none", "ended"}
  /\ streams[n] > 0 => handler[n] \in {"loop", "joining"} \/ n \in dropped
  /\ n \in dropped => handler[n] = "done"
  /\ why[n] = "refused" => control[n] \in {"rejecting", "ended"}
Linked == \A n \in Attempts : LinkedAt(n)

\* The capabilities both ends have, between releases of one major version.
Greeted(n) ==
  /\ setup.client.major = setup.server.major
  /\ granted[n] = setup.server.caps \cap setup.client.caps
ServerGreeting(n) == Hello("ServerHello", setup.server.major, granted[n])

(***************************************************************************)
(* The dialogue of the current attempt.                                    *)
(***************************************************************************)
Nothing == {<<>>}
Maybe(m) == {<<>>, <<m>>}
Ws == setup.transport = "websocket_tls"
Says(s, us, ds) == stage = s /\ up[attempt] \in us /\ down[attempt] \in ds

AtTls == Says("tls", Maybe(Msg("tls")), Nothing)
AtFinished ==
  \/ Says("tls", Nothing, Maybe(Msg("tls")))
  \/ Ws /\ Says("upgrade", {<<>>, <<Msg("finished"), Msg("upgrade")>>}, Nothing)
  \/ ~Ws /\ Says("hello", {<<>>, <<Msg("finished"), Greeting>>}, Nothing)
AtUpgrade ==
  \/ Ws /\ Says("upgrade", Maybe(Msg("upgrade")), Nothing)
  \/ ~Ws /\ Says("hello", Maybe(Greeting), Nothing)
AtStream == Says("get", Nothing, Nothing) \/ Says("hello", Maybe(Greeting), Nothing)
AtFirst ==
  \/ Says("hello", Maybe(Greeting), Nothing)
  \/ Says("upgrade", Maybe(Msg("upgrade")), Nothing)
  \/ Says("upgrade", Nothing, Maybe(Msg("upgraded")))
AtHello == Says("hello", Nothing, Nothing) /\ offer[attempt] = Greeting
AtAuth ==
  /\ Greeted(attempt)
  /\ \/ Says("hello", Nothing, Maybe(ServerGreeting(attempt)))
     \/ Says("auth", Maybe(Msg("Auth")), Nothing)
AtRejecting ==
  \/ why[attempt] = "version" /\ Says("hello", Nothing, Nothing)
  \/ why[attempt] = "refused" /\ Says("auth", Nothing, Nothing)
AtEnter == Says("auth", Nothing, Nothing)
AtServing ==
  \/ /\ Says("auth", Nothing, Maybe(Msg("AuthOk")))
     /\ down[attempt] = <<>> => attempt \in lost
  \/ Says("session", Nothing, Nothing)
AtEnd ==
  \/ stage = "hello" /\ down[attempt] = <<>>
  \/ stage = "hello" /\ down[attempt] = <<ServerGreeting(attempt)>> /\ Greeted(attempt)
  \/ stage = "hello" /\ down[attempt] = <<Msg("Error")>> /\ why[attempt] = "version"
  \/ stage = "auth" /\ down[attempt] \in {<<>>, <<Msg("AuthOk")>>, <<Msg("AuthOk"), Msg("Drain")>>}
  \/ stage = "auth" /\ down[attempt] = <<Msg("Error")>> /\ why[attempt] = "refused"
  \/ stage = "session" /\ down[attempt] \in Maybe(Msg("Drain"))
AtDone ==
  \/ stage = "tls" /\ down[attempt] \in Maybe(Msg("tls"))
  \/ stage = "upgrade" /\ down[attempt] \in Maybe(Msg("upgraded"))
  \/ stage \in {"get", "hello"} /\ down[attempt] = <<>>

Dialogue ==
  /\ handler[attempt] # "none" /\ attempt \notin left /\ outcome[attempt] = "none"
  /\ handler[attempt] = "tls" => AtTls
  /\ handler[attempt] = "finished" => AtFinished
  /\ handler[attempt] = "upgrade" => AtUpgrade
  /\ handler[attempt] = "stream" => AtStream
  /\ handler[attempt] = "first" => AtFirst
  /\ control[attempt] = "hello" => AtHello
  /\ control[attempt] = "auth" => AtAuth
  /\ control[attempt] = "rejecting" => AtRejecting
  /\ control[attempt] \in {"enter", "welcome"} => AtEnter
  /\ control[attempt] = "serving" => AtServing
  /\ control[attempt] = "ended" => AtEnd
  /\ handler[attempt] = "done" /\ control[attempt] = "none" => AtDone

\* The client goes on with what the server granted.
Agreed == stage \in {"auth", "session"} => Greeted(attempt) /\ agreed = granted[attempt]

\* Nothing ends by itself.
Undisturbed ==
  attempt \notin disturbed /\ why[attempt] = "nothing" =>
    /\ attempt \notin lost
    /\ handler[attempt] \notin {"done", "joining"}
    /\ control[attempt] \notin {"ended", "rejecting"}

IInv ==
  /\ Types /\ Calm /\ Fresh /\ Linked /\ OutcomeExplained /\ OldClientReleased /\ Agreed
  /\ stage \in Talking => Dialogue /\ Undisturbed

(***************************************************************************)
(* Short sequences and the messages.                                       *)
(***************************************************************************)
LEMMA Short ==
  /\ \A m : /\ <<m>> # <<>> /\ Head(<<m>>) = m /\ Tail(<<m>>) = <<>>
           /\ <<>> \o <<m>> = <<m>>
  /\ \A m, k : /\ <<m, k>> # <<>> /\ Head(<<m, k>>) = m /\ Tail(<<m, k>>) = <<k>>
              /\ <<>> \o <<m, k>> = <<m, k>> /\ <<m>> \o <<k>> = <<m, k>>
<1>1. ASSUME NEW m PROVE <<m>> # <<>>
  OBVIOUS
<1>2. ASSUME NEW m PROVE Head(<<m>>) = m
  OBVIOUS
<1>3. ASSUME NEW m PROVE Tail(<<m>>) = <<>>
  OBVIOUS
<1>4. ASSUME NEW m PROVE <<>> \o <<m>> = <<m>>
  OBVIOUS
<1>5. ASSUME NEW m, NEW k PROVE <<m, k>> # <<>>
  OBVIOUS
<1>6. ASSUME NEW m, NEW k PROVE Head(<<m, k>>) = m
  OBVIOUS
<1>7. ASSUME NEW m, NEW k PROVE Tail(<<m, k>>) = <<k>>
  OBVIOUS
<1>8. ASSUME NEW m, NEW k PROVE <<>> \o <<m, k>> = <<m, k>>
  OBVIOUS
<1>9. ASSUME NEW m, NEW k PROVE <<m>> \o <<k>> = <<m, k>>
  <2>. DEFINE S == {m, k}
  <2>1. <<m>> \in Seq(S) /\ <<k>> \in Seq(S) /\ <<m, k>> \in Seq(S)
    OBVIOUS
  <2>2. Len(<<m>>) = 1 /\ Len(<<k>>) = 1 /\ Len(<<m, k>>) = 2
    OBVIOUS
  <2>3. <<m>>[1] = m /\ <<k>>[1] = k /\ <<m, k>>[1] = m /\ <<m, k>>[2] = k
    OBVIOUS
  <2>. HIDE DEF S
  <2>4. <<m>> \o <<k>> \in Seq(S) /\ Len(<<m>> \o <<k>>) = 2
    BY <2>1, <2>2, ConcatProperties
  <2>5. \A i \in 1..2 : (<<m>> \o <<k>>)[i] = <<m, k>>[i]
    BY <2>1, <2>2, <2>3, ConcatProperties
  <2>. QED BY <2>1, <2>2, <2>4, <2>5, SeqEqual
<1>. QED BY <1>1, <1>2, <1>3, <1>4, <1>5, <1>6, <1>7, <1>8, <1>9, Zenon

LEMMA Kinds ==
  /\ \A k : Msg(k).kind = k
  /\ Greeting.kind = "ClientHello" /\ Greeting.major = setup.client.major
  /\ Greeting.caps = setup.client.caps
  /\ \A n \in Attempts : /\ ServerGreeting(n).kind = "ServerHello"
                         /\ ServerGreeting(n).major = setup.server.major
                         /\ ServerGreeting(n).caps = granted[n]
BY DEF Msg, Greeting, ServerGreeting, Hello

(***************************************************************************)
(* Steps of the server for connection n leave the rest alone.              *)
(***************************************************************************)
Touches(n) ==
  /\ UNCHANGED <<setup, clientVars, left, shutdown, cut>>
  /\ Over(up)' /\ Over(down)' /\ Over(offer)' /\ Over(granted)'
  /\ handler' = [m \in Attempts |-> handler'[m]] /\ control' = [m \in Attempts |-> control'[m]]
  /\ why' = [m \in Attempts |-> why'[m]]
  /\ opened' = [m \in Attempts |-> opened'[m]] /\ streams' = [m \in Attempts |-> streams'[m]]
  /\ \A m \in Attempts \ {n} :
       /\ up'[m] = up[m] /\ down'[m] = down[m] /\ offer'[m] = offer[m]
       /\ granted'[m] = granted[m] /\ handler'[m] = handler[m] /\ control'[m] = control[m]
       /\ why'[m] = why[m] /\ opened'[m] = opened[m] /\ streams'[m] = streams[m]
  /\ lost' \in {lost, lost \cup {n}} /\ disturbed' \in {disturbed, disturbed \cup {n}}
  /\ dropped' \in {dropped, dropped \cup {n}}

\* What is left to show of such a step.
Sound(n) ==
  /\ handler[n] \in Handlers /\ control[n] \in Controls /\ why[n] \in Reasons
  /\ opened[n] \in Nat /\ streams[n] \in Nat
  /\ LinkedAt(n)
Local == Agreed /\ (stage \in Talking => Dialogue /\ Undisturbed)

\* A step that does not concern the dialogue of the current attempt.
Kept ==
  /\ UNCHANGED <<setup, attempt, stage, agreed, left, outcome>>
  /\ up'[attempt] = up[attempt] /\ down'[attempt] = down[attempt]
  /\ offer'[attempt] = offer[attempt]
  /\ granted'[attempt] = granted[attempt] /\ handler'[attempt] = handler[attempt]
  /\ control'[attempt] = control[attempt] /\ why'[attempt] = why[attempt]
  /\ attempt \in lost' <=> attempt \in lost
  /\ attempt \in disturbed => attempt \in disturbed'

LEMMA LocalKept ==
  ASSUME Local, stage \in Talking, Kept
  PROVE  Local'
<1>1. Greeting' = Greeting /\ ServerGreeting(attempt)' = ServerGreeting(attempt)
  BY DEF Kept, Greeting, ServerGreeting, Hello
<1>2. Agreed'
  BY DEF Local, Agreed, Greeted, Kept
<1>3. Undisturbed'
  BY DEF Local, Undisturbed, Kept
<1>4. Dialogue'
  BY <1>1
  DEF Local, Kept, Dialogue, AtTls, AtFinished, AtUpgrade, AtStream, AtFirst, AtHello, AtAuth,
      AtRejecting, AtEnter, AtServing, AtEnd, AtDone, Says, Ws, Greeted, Maybe, Nothing
<1>. QED BY <1>2, <1>3, <1>4 DEF Local

LEMMA ServerStep ==
  ASSUME IInv, NEW n \in Attempts, Touches(n), handler[n] # "none", Sound(n)',
         why'[n] = why[n] \/ (why[n] # "refused" /\ why'[n] # "nothing"),
         n = attempt /\ stage \in Talking => Local'
  PROVE  IInv'
<1>1. /\ Types /\ Calm /\ Fresh /\ Linked /\ OutcomeExplained /\ OldClientReleased /\ Agreed
      /\ stage \in Talking => Dialogue /\ Undisturbed
  BY DEF IInv
<1>2. UNCHANGED <<setup, attempt, stage, outcome, agreed, slot, dialled, left, shutdown, cut>>
  BY DEF Touches, clientVars
<1>3. Types'
  <2>1. handler' \in [Attempts -> Handlers] /\ control' \in [Attempts -> Controls]
    BY <1>1 DEF Types, Touches, Sound
  <2>2. why' \in [Attempts -> Reasons]
    BY <1>1 DEF Types, Touches, Sound
  <2>3. opened' \in [Attempts -> Nat] /\ streams' \in [Attempts -> Nat]
    BY <1>1 DEF Types, Touches, Sound
  <2>4. lost' \subseteq Attempts
    BY <1>1 DEF Types, Touches
  <2>. QED BY <1>1, <1>2, <2>1, <2>2, <2>3, <2>4 DEF Types, Touches, Over
<1>4. Calm'
  BY <1>1, <1>2 DEF Calm, Touches
<1>5. n <= attempt /\ ~(n = attempt /\ stage = "connect")
  BY <1>1 DEF Fresh, Types, Attempts
<1>6. Fresh'
  <2>. SUFFICES ASSUME NEW m \in Attempts, m > attempt \/ (m = attempt /\ stage = "connect")
                PROVE  /\ handler'[m] = "none" /\ up'[m] = <<>> /\ down'[m] = <<>>
                       /\ m \notin lost' /\ m \notin left /\ why'[m] = "nothing"
                       /\ outcome[m] = "none"
    BY <1>2 DEF Fresh
  <2>1. m # n
    BY <1>5, <1>1, IngressAssumption DEF Types, Attempts
  <2>. QED BY <2>1, <1>1 DEF Fresh, Touches
<1>7. Linked'
  <2>. SUFFICES ASSUME NEW m \in Attempts, m # n PROVE LinkedAt(m)'
    BY DEF Linked, Sound
  <2>. QED BY <1>1, <1>2 DEF Linked, LinkedAt, Touches, Quic
<1>8. OutcomeExplained'
  <2>. SUFFICES ASSUME NEW m \in Attempts
                PROVE  /\ outcome[m] = "stopped" => why'[m] = "refused" \/ setup.proxy
                       /\ outcome[m] = "failed" /\ m \notin disturbed' => why'[m] # "nothing"
    BY <1>2 DEF OutcomeExplained
  <2>1. /\ outcome[m] = "stopped" => why[m] = "refused" \/ setup.proxy
        /\ outcome[m] = "failed" /\ m \notin disturbed => why[m] # "nothing"
    BY <1>1 DEF OutcomeExplained
  <2>2. disturbed \subseteq disturbed'
    BY DEF Touches
  <2>3. why'[m] = why[m] \/ (why[m] # "refused" /\ why'[m] # "nothing")
    BY DEF Touches
  <2>. QED BY <2>1, <2>2, <2>3, Zenon
<1>9. OldClientReleased'
  BY <1>1, <1>2 DEF OldClientReleased
<1>10. ASSUME n # attempt \/ stage \notin Talking PROVE Local'
  <2>1. CASE stage \notin Talking
    <3>1. stage' \notin Talking /\ stage' \notin {"auth", "session"}
      BY <2>1, <1>2 DEF Talking
    <3>. QED BY <3>1, Zenon DEF Local, Agreed
  <2>2. CASE stage \in Talking /\ n # attempt
    <3>1. attempt \in Attempts
      BY <2>2, <1>1 DEF Types
    <3>2. Kept
      BY <3>1, <2>2, <1>2 DEF Touches, Kept
    <3>. QED BY <3>2, <2>2, <1>1, LocalKept DEF Local
  <2>. QED BY <1>10, <2>1, <2>2
<1>. QED BY <1>3, <1>4, <1>6, <1>7, <1>8, <1>9, <1>10 DEF IInv, Local

(***************************************************************************)
(* The client.                                                             *)
(***************************************************************************)
LEMMA InitHolds == Init => IInv
<1>. SUFFICES ASSUME Init PROVE IInv
  OBVIOUS
<1>1. Types
  BY IngressAssumption DEF Init, Types, Stages, Talking, Handlers, Controls, Reasons, Over
<1>2. Calm /\ Fresh /\ OutcomeExplained /\ OldClientReleased /\ Agreed
  BY DEF Init, Calm, Fresh, OutcomeExplained, OldClientReleased, Agreed
<1>3. Linked
  BY DEF Init, Linked, LinkedAt, Waits
<1>. QED BY <1>1, <1>2, <1>3 DEF IInv, Init, Talking

\* An attempt that ends takes its dialogue with it.
LEMMA FinishStep ==
  ASSUME IInv, stage \in Talking \cup {"connect"}, NEW how, Finish(how),
         disturbed' \in {disturbed, disturbed \cup {attempt}},
         how = "stopped" => why[attempt] = "refused" \/ setup.proxy,
         how = "failed" /\ attempt \notin disturbed' => why[attempt] # "nothing"
  PROVE  IInv'
<1>1. Types /\ Calm /\ Fresh /\ Linked /\ OutcomeExplained /\ OldClientReleased
  BY DEF IInv
<1>2. attempt \in Attempts
  BY <1>1 DEF Types
<1>3. /\ UNCHANGED <<setup, attempt, handler, control, offer, opened, streams, dropped, granted,
                     shutdown, cut, why>>
      /\ stage' \in {"idle", "done"} /\ slot' = 0 /\ dialled' = dialled \ {attempt}
      /\ left' = left \cup {attempt} /\ lost' \in {lost, lost \cup {attempt}}
  BY DEF Finish, serverVars, CloseClient, Break
<1>4. /\ Over(up)' /\ Over(down)'
      /\ \A n \in Attempts \ {attempt} : up'[n] = up[n] /\ down'[n] = down[n]
  BY <1>1, <1>2 DEF Finish, Break, Types, Over
<1>5. /\ Over(outcome)' /\ outcome'[attempt] = how
      /\ \A n \in Attempts \ {attempt} : outcome'[n] = outcome[n]
  BY <1>1, <1>2 DEF Finish, Types, Over
<1>6. Types'
  BY <1>1, <1>2, <1>3, <1>4, <1>5 DEF Types, Over, Stages, Talking
<1>7. Calm'
  BY <1>1, <1>2, <1>3 DEF Calm
<1>8. Fresh'
  <2>. SUFFICES ASSUME NEW n \in Attempts, n > attempt
                PROVE  /\ handler'[n] = "none" /\ up'[n] = <<>> /\ down'[n] = <<>>
                       /\ n \notin lost' /\ n \notin left' /\ why'[n] = "nothing"
                       /\ outcome'[n] = "none"
    BY <1>3 DEF Fresh
  <2>1. n # attempt
    BY <1>2, IngressAssumption DEF Attempts
  <2>. QED BY <2>1, <1>1, <1>3, <1>4, <1>5 DEF Fresh
<1>9. Linked'
  BY <1>1, <1>3 DEF Linked, LinkedAt, Quic
<1>10. OutcomeExplained'
  <2>. SUFFICES ASSUME NEW n \in Attempts
                PROVE  /\ outcome'[n] = "stopped" => why[n] = "refused" \/ setup.proxy
                       /\ outcome'[n] = "failed" /\ n \notin disturbed' => why[n] # "nothing"
    BY <1>3 DEF OutcomeExplained
  <2>1. CASE n = attempt
    BY <2>1, <1>5
  <2>2. CASE n # attempt
    <3>1. /\ outcome[n] = "stopped" => why[n] = "refused" \/ setup.proxy
          /\ outcome[n] = "failed" /\ n \notin disturbed => why[n] # "nothing"
      BY <1>1 DEF OutcomeExplained
    <3>2. disturbed \subseteq disturbed' /\ outcome'[n] = outcome[n]
      BY <1>5, <2>2
    <3>. QED BY <3>1, <3>2, Zenon
  <2>. QED BY <2>1, <2>2
<1>11. OldClientReleased'
  <2>1. dialled' = {}
    BY <1>1, <1>2, <1>3, IngressAssumption DEF OldClientReleased, Types, Attempts
  <2>. QED BY <2>1, <1>3 DEF OldClientReleased
<1>. QED BY <1>3, <1>6, <1>7, <1>8, <1>9, <1>10, <1>11 DEF IInv, Agreed, Talking

\* A step of the handshake: what the client hears and says, nothing else.
LEMMA ClientGoesOn ==
  ASSUME IInv, stage \in Talking, stage' \in Talking,
         UNCHANGED <<setup, attempt, outcome, slot, dialled, left, lost, serverVars, disturbed>>,
         Over(up)', Over(down)',
         \A n \in Attempts \ {attempt} : up'[n] = up[n] /\ down'[n] = down[n],
         Dialogue', Agreed'
  PROVE  IInv'
<1>1. /\ Types /\ Calm /\ Fresh /\ Linked /\ OutcomeExplained /\ OldClientReleased
      /\ Dialogue /\ Undisturbed
  BY DEF IInv
<1>2. UNCHANGED <<handler, control, offer, granted, opened, streams, dropped, shutdown, cut, why>>
  BY DEF serverVars
<1>3. attempt \in Attempts
  BY <1>1 DEF Types
<1>4. Types' /\ Calm'
  BY <1>1, <1>2 DEF Types, Over, Calm, Stages
<1>5. Fresh'
  <2>. SUFFICES ASSUME NEW n \in Attempts, n > attempt
                PROVE  /\ handler'[n] = "none" /\ up'[n] = <<>> /\ down'[n] = <<>>
                       /\ n \notin lost' /\ n \notin left' /\ why'[n] = "nothing"
                       /\ outcome'[n] = "none"
    BY <1>2 DEF Fresh, Talking
  <2>1. n # attempt
    BY <1>3, IngressAssumption DEF Attempts
  <2>. QED BY <2>1, <1>1, <1>2 DEF Fresh
<1>6. Linked'
  BY <1>1, <1>2 DEF Linked, LinkedAt, Quic
<1>7. OutcomeExplained'
  BY <1>1, <1>2 DEF OutcomeExplained
<1>8. OldClientReleased'
  BY <1>1 DEF OldClientReleased, Talking
<1>9. Undisturbed'
  BY <1>1, <1>2 DEF Undisturbed
<1>. QED BY <1>4, <1>5, <1>6, <1>7, <1>8, <1>9 DEF IInv

LEMMA AttemptStep == IInv /\ Attempt => IInv'
<1>. SUFFICES ASSUME IInv, Attempt PROVE IInv'
  OBVIOUS
<1>1. Types /\ Calm /\ Fresh /\ Linked /\ OutcomeExplained /\ OldClientReleased
  BY DEF IInv
<1>2. /\ stage = "idle" /\ attempt < MaxAttempts /\ attempt' = attempt + 1 /\ stage' = "connect"
      /\ UNCHANGED <<setup, outcome, slot, dialled, up, down, left, lost, disturbed, handler,
                     control, offer, granted, opened, streams, dropped, shutdown, cut, why>>
  BY DEF Attempt, serverVars
<1>3. Types'
  BY <1>1, <1>2, IngressAssumption DEF Types, Over, Attempts, Stages
<1>4. Calm' /\ OutcomeExplained'
  BY <1>1, <1>2 DEF Calm, OutcomeExplained
<1>5. Fresh'
  <2>1. \A n \in Attempts : n > attempt' \/ n = attempt' => n > attempt
    BY <1>1, <1>2, IngressAssumption DEF Types, Attempts
  <2>. QED BY <2>1, <1>1, <1>2 DEF Fresh
<1>6. Linked'
  BY <1>1, <1>2 DEF Linked, LinkedAt, Quic
<1>7. OldClientReleased'
  BY <1>1, <1>2 DEF OldClientReleased
<1>. QED BY <1>2, <1>3, <1>4, <1>5, <1>6, <1>7 DEF IInv, Agreed, Talking

\* The connection is made: its handler is there, over TCP with the first message.
LEMMA ConnectStep == IInv /\ (ConnectTcp \/ ConnectQuic) => IInv'
<1>. SUFFICES ASSUME IInv, ConnectTcp \/ ConnectQuic PROVE IInv'
  OBVIOUS
<1>1. Types /\ Calm /\ Fresh /\ Linked /\ OutcomeExplained /\ OldClientReleased
  BY DEF IInv
<1>2. /\ stage = "connect" /\ stage' \in {"tls", "get"}
      /\ UNCHANGED <<setup, attempt, outcome, agreed, down, left, lost, control, offer, granted,
                     opened, streams, dropped, shutdown, cut, why, disturbed>>
  BY DEF ConnectTcp, ConnectQuic
<1>3. attempt \in Attempts
  BY <1>1, <1>2 DEF Types
<1>4. /\ handler[attempt] = "none" /\ up[attempt] = <<>> /\ down[attempt] = <<>>
      /\ attempt \notin lost /\ attempt \notin left /\ why[attempt] = "nothing"
      /\ outcome[attempt] = "none"
  BY <1>1, <1>2, <1>3 DEF Fresh
<1>5. control[attempt] = "none" /\ ~(streams[attempt] > 0) /\ attempt \notin dropped
  BY <1>1, <1>3, <1>4 DEF Linked, LinkedAt
<1>6. /\ handler' = [n \in Attempts |-> handler'[n]] /\ Over(up)'
      /\ \A n \in Attempts \ {attempt} : handler'[n] = handler[n] /\ up'[n] = up[n]
      /\ \/ ~Quic /\ stage' = "tls" /\ handler'[attempt] = "tls" /\ up'[attempt] = <<Msg("tls")>>
            /\ UNCHANGED <<slot, dialled>>
         \/ Quic /\ stage' = "get" /\ handler'[attempt] = "stream" /\ up'[attempt] = <<>>
            /\ slot' = attempt /\ dialled' = dialled \cup {attempt}
  <2>1. CASE ConnectTcp
    BY <2>1, <1>1, <1>3, <1>4, Short DEF ConnectTcp, TcpHandler, Say, Types, Over
  <2>2. CASE ConnectQuic
    BY <2>2, <1>1, <1>3, <1>4 DEF ConnectQuic, QuicHandler, Types, Over
  <2>. QED BY <2>1, <2>2
<1>7. Types'
  <2>1. handler' \in [Attempts -> Handlers]
    BY <1>1, <1>3, <1>6 DEF Types, Handlers, Waits
  <2>2. dialled' \subseteq Attempts
    BY <1>1, <1>3, <1>6 DEF Types
  <2>. QED BY <2>1, <2>2, <1>1, <1>2, <1>3, <1>6 DEF Types, Over, Stages, Talking
<1>8. Calm' /\ OutcomeExplained'
  BY <1>1, <1>2 DEF Calm, OutcomeExplained
<1>9. Fresh'
  <2>. SUFFICES ASSUME NEW n \in Attempts, n > attempt
                PROVE  /\ handler'[n] = "none" /\ up'[n] = <<>> /\ down'[n] = <<>>
                       /\ n \notin lost' /\ n \notin left' /\ why'[n] = "nothing"
                       /\ outcome'[n] = "none"
    BY <1>2 DEF Fresh
  <2>1. n # attempt
    BY <1>3, IngressAssumption DEF Attempts
  <2>. QED BY <2>1, <1>1, <1>2, <1>6 DEF Fresh
<1>10. Linked'
  <2>. SUFFICES ASSUME NEW n \in Attempts PROVE LinkedAt(n)'
    BY DEF Linked
  <2>1. Quic' <=> Quic
    BY <1>2 DEF Quic
  <2>2. CASE n = attempt
    BY <2>1, <2>2, <1>2, <1>4, <1>5, <1>6 DEF LinkedAt, Waits
  <2>3. CASE n # attempt
    BY <2>1, <2>3, <1>1, <1>2, <1>6 DEF Linked, LinkedAt
  <2>. QED BY <2>2, <2>3
<1>11. OldClientReleased'
  BY <1>1, <1>2, <1>3, <1>6, IngressAssumption DEF OldClientReleased, Types, Attempts
<1>12. Undisturbed'
  BY <1>2, <1>4, <1>5, <1>6 DEF Undisturbed
<1>13. Dialogue'
  BY <1>2, <1>3, <1>4, <1>5, <1>6 DEF Dialogue, AtTls, AtStream, Says, Maybe, Nothing
<1>. QED BY <1>2, <1>7, <1>8, <1>9, <1>10, <1>11, <1>12, <1>13 DEF IInv, Agreed

LEMMA OpenControlStreamStep == IInv /\ OpenControlStream => IInv'
<1>. SUFFICES ASSUME IInv, OpenControlStream PROVE IInv'
  OBVIOUS
<1>1. /\ Types /\ Linked /\ stage = "get" /\ stage \in Talking /\ Dialogue
      /\ attempt \in Attempts
  BY DEF IInv, OpenControlStream, Talking, Types
<1>2. /\ stage' = "hello" /\ down' = down
      /\ UNCHANGED <<setup, attempt, outcome, slot, dialled, left, lost, serverVars, disturbed>>
  BY DEF OpenControlStream, Proceeds
<1>3. UNCHANGED <<handler, control, granted, why>> /\ Greeting' = Greeting
  BY <1>2 DEF serverVars, Greeting, Hello
<1>4. \/ handler[attempt] = "stream" /\ up[attempt] = <<>> /\ down[attempt] = <<>>
      \/ handler[attempt] = "done" /\ down[attempt] = <<>>
  BY <1>1 DEF Types, Handlers, Waits, Controls, Linked, LinkedAt, Dialogue, AtTls, AtFinished,
     AtUpgrade, AtStream, AtFirst, AtHello, AtAuth, AtRejecting, AtEnter, AtServing, AtEnd,
     AtDone, Says, Nothing
<1>5. control[attempt] = "none"
  BY <1>1, <1>4 DEF Types, Controls, Linked, LinkedAt, Waits, Dialogue, AtHello, AtAuth,
     AtRejecting, AtEnter, AtServing, AtEnd, Says
<1>6. /\ Over(up)' /\ Over(down)'
      /\ \A n \in Attempts \ {attempt} : up'[n] = up[n] /\ down'[n] = down[n]
      /\ up[attempt] = <<>> => up'[attempt] \in Maybe(Greeting)
  BY <1>1, <1>2, Short DEF OpenControlStream, Say, Types, Over, Maybe
<1>7. Dialogue'
  BY <1>1, <1>2, <1>3, <1>4, <1>5, <1>6 DEF Dialogue, AtStream, AtDone, Says, Nothing, Maybe
<1>. QED BY <1>1, <1>2, <1>6, <1>7, ClientGoesOn DEF Agreed, Talking

\* What can have come, and from which server.
LEMMA Heeded ==
  ASSUME IInv, stage \in Talking, down[attempt] # <<>>
  PROVE  \/ /\ stage = "tls" /\ control[attempt] = "none" /\ down[attempt] = <<Msg("tls")>>
            /\ handler[attempt] = "done" \/ (handler[attempt] = "finished" /\ up[attempt] = <<>>)
         \/ /\ stage = "upgrade" /\ control[attempt] = "none"
            /\ down[attempt] = <<Msg("upgraded")>>
            /\ handler[attempt] = "done" \/ (handler[attempt] = "first" /\ up[attempt] = <<>>)
         \/ /\ stage = "hello" /\ Greeted(attempt)
            /\ down[attempt] = <<ServerGreeting(attempt)>>
            /\ control[attempt] = "ended" \/ (control[attempt] = "auth" /\ up[attempt] = <<>>)
            /\ handler[attempt] \notin Waits
         \/ /\ stage = "hello" /\ control[attempt] = "ended" /\ down[attempt] = <<Msg("Error")>>
            /\ why[attempt] = "version"
         \/ /\ stage = "auth" /\ control[attempt] = "ended" /\ down[attempt] = <<Msg("Error")>>
            /\ why[attempt] = "refused"
         \/ /\ stage = "auth" /\ control[attempt] = "ended" /\ handler[attempt] \notin Waits
            /\ down[attempt] \in {<<Msg("AuthOk")>>, <<Msg("AuthOk"), Msg("Drain")>>}
         \/ /\ stage = "auth" /\ control[attempt] = "serving" /\ handler[attempt] \notin Waits
            /\ down[attempt] = <<Msg("AuthOk")>> /\ up[attempt] = <<>>
         \/ /\ stage = "session" /\ control[attempt] = "ended"
<1>1. Types /\ Linked /\ Dialogue /\ attempt \in Attempts
  BY DEF IInv, Types
<1>2. /\ handler[attempt] \in Handlers /\ control[attempt] \in Controls
      /\ LinkedAt(attempt)
  BY <1>1 DEF Types, Linked
<1>3. CASE control[attempt] = "none"
  <2>1. handler[attempt] \in Waits \cup {"done"}
    BY <1>1, <1>2, <1>3 DEF Handlers, LinkedAt, Dialogue
  <2>. QED BY <2>1, <1>1, <1>3 DEF Waits, Dialogue, AtTls, AtFinished, AtUpgrade, AtStream,
              AtFirst, AtDone, Says, Nothing, Maybe
<1>4. CASE control[attempt] # "none"
  <2>1. handler[attempt] \notin Waits
    BY <1>2, <1>4 DEF LinkedAt
  <2>. QED BY <2>1, <1>1, <1>2, <1>4 DEF Controls, Dialogue, AtHello, AtAuth, AtRejecting, AtEnter,
              AtServing, AtEnd, Says, Nothing, Maybe
<1>. QED BY <1>3, <1>4

LEMMA TlsConnectedStep == IInv /\ TlsConnected => IInv'
<1>. SUFFICES ASSUME IInv, TlsConnected PROVE IInv'
  OBVIOUS
<1>1. /\ Types /\ stage = "tls" /\ stage \in Talking /\ Dialogue /\ down[attempt] # <<>>
      /\ attempt \in Attempts
  BY DEF IInv, TlsConnected, Receives, Talking, Types
<1>2. /\ stage' = IF Ws THEN "upgrade" ELSE "hello"
      /\ UNCHANGED <<setup, attempt, outcome, slot, dialled, left, lost, serverVars, disturbed>>
  BY DEF TlsConnected, Proceeds, Ws
<1>3. UNCHANGED <<handler, control, granted, why>> /\ Greeting' = Greeting /\ (Ws' <=> Ws)
  BY <1>2 DEF serverVars, Greeting, Hello, Ws
<1>4. /\ control[attempt] = "none" /\ down[attempt] = <<Msg("tls")>>
      /\ handler[attempt] = "done" \/ (handler[attempt] = "finished" /\ up[attempt] = <<>>)
  BY <1>1, Heeded
<1>5. /\ Over(up)' /\ Over(down)' /\ down'[attempt] = <<>>
      /\ \A n \in Attempts \ {attempt} : up'[n] = up[n] /\ down'[n] = down[n]
      /\ up[attempt] = <<>> =>
           up'[attempt] \in {<<>>, <<Msg("finished"), IF Ws THEN Msg("upgrade") ELSE Greeting>>}
  BY <1>1, <1>4, Short DEF TlsConnected, Say, Heard, Types, Over, Ws
<1>6. Dialogue'
  BY <1>1, <1>2, <1>3, <1>4, <1>5 DEF Dialogue, AtFinished, AtDone, Says, Nothing, Maybe
<1>. QED BY <1>1, <1>2, <1>5, <1>6, ClientGoesOn DEF Agreed, Talking

LEMMA UpgradedStep == IInv /\ Upgraded => IInv'
<1>. SUFFICES ASSUME IInv, Upgraded PROVE IInv'
  OBVIOUS
<1>1. /\ Types /\ stage = "upgrade" /\ stage \in Talking /\ Dialogue /\ down[attempt] # <<>>
      /\ attempt \in Attempts
  BY DEF IInv, Upgraded, Receives, Talking, Types
<1>2. /\ stage' = "hello"
      /\ UNCHANGED <<setup, attempt, outcome, slot, dialled, left, lost, serverVars, disturbed>>
  BY DEF Upgraded, Proceeds
<1>3. UNCHANGED <<handler, control, granted, why>> /\ Greeting' = Greeting
  BY <1>2 DEF serverVars, Greeting, Hello
<1>4. /\ control[attempt] = "none" /\ down[attempt] = <<Msg("upgraded")>>
      /\ handler[attempt] = "done" \/ (handler[attempt] = "first" /\ up[attempt] = <<>>)
  BY <1>1, Heeded
<1>5. /\ Over(up)' /\ Over(down)' /\ down'[attempt] = <<>>
      /\ \A n \in Attempts \ {attempt} : up'[n] = up[n] /\ down'[n] = down[n]
      /\ up[attempt] = <<>> => up'[attempt] \in Maybe(Greeting)
  BY <1>1, <1>4, Short DEF Upgraded, Say, Heard, Types, Over, Maybe
<1>6. Dialogue'
  BY <1>1, <1>2, <1>3, <1>4, <1>5 DEF Dialogue, AtFirst, AtDone, Says, Nothing, Maybe
<1>. QED BY <1>1, <1>2, <1>5, <1>6, ClientGoesOn DEF Agreed, Talking

LEMMA ReadServerHelloStep == IInv /\ ReadServerHello => IInv'
<1>. SUFFICES ASSUME IInv, ReadServerHello PROVE IInv'
  OBVIOUS
<1>1. /\ Types /\ stage = "hello" /\ stage \in Talking /\ Dialogue /\ down[attempt] # <<>>
      /\ attempt \in Attempts
  BY DEF IInv, ReadServerHello, Receives, Talking, Types
<1>2. CASE down[attempt] = <<ServerGreeting(attempt)>> /\ Greeted(attempt)
  <2>1. Message = ServerGreeting(attempt)
    BY <1>2, Short DEF Message
  <2>2. Message.kind = "ServerHello" /\ Message.major = setup.client.major
        /\ Message.caps = granted[attempt]
    BY <2>1, <1>1, <1>2, Kinds DEF Greeted
  <2>3. /\ agreed' = setup.client.caps \cap granted[attempt] /\ stage' = "auth"
        /\ Say(attempt, <<Msg("Auth")>>) /\ Heard(attempt)
        /\ UNCHANGED <<setup, attempt, outcome, slot, dialled, left, lost, serverVars, disturbed>>
    BY <2>2 DEF ReadServerHello, Intersect
  <2>4. UNCHANGED <<handler, control, granted, why>>
    BY <2>3 DEF serverVars
  <2>5. Agreed' /\ Greeted(attempt)'
    BY <2>3, <2>4, <1>2 DEF Agreed, Greeted
  <2>6. /\ control[attempt] = "ended" \/ (control[attempt] = "auth" /\ up[attempt] = <<>>)
        /\ handler[attempt] \notin Waits
    BY <1>1, <1>2, <2>2, Heeded, Short, Kinds DEF Message
  <2>7. /\ Over(up)' /\ Over(down)' /\ down'[attempt] = <<>>
        /\ \A n \in Attempts \ {attempt} : up'[n] = up[n] /\ down'[n] = down[n]
        /\ up[attempt] = <<>> => up'[attempt] \in Maybe(Msg("Auth"))
    BY <1>1, <1>2, <2>3, Short DEF Say, Heard, Types, Over, Maybe
  <2>8. Dialogue'
    BY <1>1, <2>3, <2>4, <2>5, <2>6, <2>7 DEF Dialogue, Waits, AtAuth, AtEnd, Says, Nothing, Maybe
  <2>. QED BY <1>1, <2>3, <2>5, <2>7, <2>8, ClientGoesOn DEF Talking
<1>3. CASE down[attempt] = <<Msg("Error")>> /\ why[attempt] = "version"
  <2>1. Message.kind = "Error"
    BY <1>3, Short, Kinds DEF Message
  <2>2. Finish("failed") /\ disturbed' = disturbed
    BY <2>1 DEF ReadServerHello
  <2>. QED BY <2>2, <1>1, <1>3, FinishStep
<1>. QED BY <1>1, <1>2, <1>3, Heeded

LEMMA ReadAuthOkStep == IInv /\ ReadAuthOk => IInv'
<1>. SUFFICES ASSUME IInv, ReadAuthOk PROVE IInv'
  OBVIOUS
<1>1. /\ Types /\ stage = "auth" /\ stage \in Talking /\ Dialogue /\ down[attempt] # <<>>
      /\ attempt \in Attempts /\ Agreed
  BY DEF IInv, ReadAuthOk, Receives, Talking, Types
<1>2. CASE /\ down[attempt] \in {<<Msg("AuthOk")>>, <<Msg("AuthOk"), Msg("Drain")>>}
           /\ handler[attempt] \notin Waits
           /\ \/ control[attempt] = "ended"
              \/ /\ control[attempt] = "serving" /\ up[attempt] = <<>>
                 /\ down[attempt] = <<Msg("AuthOk")>>
  <2>1. Message.kind = "AuthOk"
    BY <1>2, Short, Kinds DEF Message
  <2>2. /\ stage' = "session" /\ Heard(attempt)
        /\ UNCHANGED <<setup, attempt, outcome, agreed, slot, dialled, up, left, lost, serverVars,
                       disturbed>>
    BY <2>1 DEF ReadAuthOk
  <2>3. UNCHANGED <<handler, control, granted, why>>
    BY <2>2 DEF serverVars
  <2>4. Agreed'
    BY <1>1, <2>2, <2>3 DEF Agreed, Greeted
  <2>5. /\ Over(up)' /\ Over(down)' /\ down'[attempt] = Tail(down[attempt])
        /\ \A n \in Attempts \ {attempt} : up'[n] = up[n] /\ down'[n] = down[n]
    BY <1>1, <2>2 DEF Heard, Types, Over
  <2>6. /\ down'[attempt] \in Maybe(Msg("Drain"))
        /\ down[attempt] = <<Msg("AuthOk")>> => down'[attempt] = <<>>
    <3>1. CASE down[attempt] = <<Msg("AuthOk")>>
      BY <2>5, <3>1, Short DEF Maybe
    <3>2. CASE down[attempt] = <<Msg("AuthOk"), Msg("Drain")>>
      BY <2>5, <3>2, Short DEF Maybe
    <3>. QED BY <1>2, <3>1, <3>2
  <2>7. Dialogue'
    BY <1>1, <1>2, <2>2, <2>3, <2>6 DEF Dialogue, Waits, AtServing, AtEnd, Says, Nothing
  <2>. QED BY <1>1, <2>2, <2>4, <2>5, <2>7, ClientGoesOn DEF Talking
<1>3. CASE down[attempt] = <<Msg("Error")>> /\ why[attempt] = "refused"
  <2>1. Message.kind = "Error"
    BY <1>3, Short, Kinds DEF Message
  <2>2. Finish("stopped") /\ disturbed' = disturbed
    BY <2>1 DEF ReadAuthOk
  <2>. QED BY <2>2, <1>1, <1>3, FinishStep
<1>. QED BY <1>1, <1>2, <1>3, Heeded

\* The other ends of an attempt.
LEMMA EndStep ==
  IInv /\ (ProxyRefuses \/ ReadDrain \/ ClientReadFails \/ ClientTimeout \/ ClientCancel) => IInv'
<1>. SUFFICES ASSUME IInv PROVE ProxyRefuses \/ ReadDrain \/ ClientReadFails \/ ClientTimeout
                                  \/ ClientCancel => IInv'
  OBVIOUS
<1>1. Types /\ (stage \in Talking => Undisturbed)
  BY DEF IInv
<1>2. ProxyRefuses => IInv'
  BY FinishStep DEF ProxyRefuses
<1>3. ReadDrain => IInv'
  BY FinishStep DEF ReadDrain, Receives, Talking
<1>4. ASSUME ClientReadFails PROVE IInv'
  <2>1. stage \in Talking /\ (handler[attempt] = "done" \/ attempt \in lost)
    BY <1>4 DEF ClientReadFails, Gone, Talking
  <2>2. attempt \notin disturbed => why[attempt] # "nothing"
    BY <1>1, <2>1 DEF Undisturbed
  <2>. DEFINE how == IF stage = "session" THEN "ended" ELSE "failed"
  <2>3. Finish(how) /\ disturbed' = disturbed /\ how # "stopped"
    BY <1>4 DEF ClientReadFails
  <2>. HIDE DEF how
  <2>. QED BY <2>1, <2>2, <2>3, FinishStep
<1>5. ClientTimeout => IInv'
  BY FinishStep DEF ClientTimeout, Talking
<1>6. ClientCancel => IInv'
  BY <1>1, FinishStep DEF ClientCancel, Types, Stages
<1>. QED BY <1>2, <1>3, <1>4, <1>5, <1>6

(***************************************************************************)
(* The connection's task.                                                  *)
(***************************************************************************)
\* A task that ends before serve_control leaves the client waiting ...
LEMMA DoneFromWaiting ==
  ASSUME Dialogue, handler[attempt] \in Waits
  PROVE  AtDone /\ stage \notin {"auth", "session"}
BY DEF Waits, Dialogue, AtTls, AtFinished, AtUpgrade, AtStream, AtFirst, AtDone, Says, Nothing,
       Maybe

\* ... and one that ends later leaves it with what was sent.
LEMMA EndFromControl ==
  ASSUME Dialogue, control[attempt] \in Controls \ {"none"}
  PROVE  AtEnd
BY DEF Controls, Dialogue, AtHello, AtAuth, AtRejecting, AtEnter, AtServing, AtEnd, Says, Nothing,
       Maybe

LEMMA AcceptTlsStep ==
  ASSUME NEW n \in Attempts, IInv, AcceptTls(n)
  PROVE  IInv'
<1>1. Types /\ LinkedAt(n) /\ Agreed /\ handler[n] = "tls" /\ up[n] # <<>>
  BY DEF IInv, Linked, AcceptTls, Got
<1>2. Touches(n)
  BY <1>1 DEF AcceptTls, At, Read, Answer, Goes, Touches, Types, Over, clientVars
<1>3. /\ handler'[n] = "finished" /\ up'[n] = Tail(up[n])
      /\ down'[n] = IF n \in lost THEN down[n] ELSE down[n] \o <<Msg("tls")>>
      /\ UNCHANGED <<setup, control, why, streams, dropped, opened, granted, offer, lost,
                     disturbed>>
  BY <1>1 DEF AcceptTls, At, Read, Answer, Goes, Types, Over
<1>4. Sound(n)'
  BY <1>1, <1>3 DEF Sound, LinkedAt, Types, Handlers, Waits, Quic
<1>5. ASSUME n = attempt, stage \in Talking PROVE Local'
  <2>1. Dialogue /\ Undisturbed
    BY <1>5 DEF IInv
  <2>2. UNCHANGED <<attempt, stage, agreed, left, outcome>>
    BY DEF AcceptTls, Goes, clientVars
  <2>3. stage = "tls" /\ up[attempt] = <<Msg("tls")>> /\ down[attempt] = <<>>
    BY <2>1, <1>1, <1>5 DEF Dialogue, AtTls, Says, Maybe, Nothing
  <2>4. up'[attempt] = <<>> /\ down'[attempt] \in Maybe(Msg("tls")) /\ control[attempt] = "none"
    BY <2>3, <1>1, <1>3, <1>5, Short DEF Maybe, LinkedAt, Waits
  <2>5. Dialogue'
    BY <2>1, <2>2, <2>3, <2>4, <1>3, <1>5 DEF Dialogue, AtFinished, Says, Nothing
  <2>6. Undisturbed'
    BY <2>1, <2>2, <2>4, <1>3, <1>5 DEF Undisturbed
  <2>. QED BY <2>2, <2>3, <2>5, <2>6 DEF Local, Agreed
<1>. QED BY <1>1, <1>2, <1>3, <1>4, <1>5, ServerStep

LEMMA TlsAcceptedStep ==
  ASSUME NEW n \in Attempts, IInv, TlsAccepted(n)
  PROVE  IInv'
<1>1. Types /\ LinkedAt(n) /\ Agreed /\ handler[n] = "finished" /\ up[n] # <<>>
  BY DEF IInv, Linked, TlsAccepted, Got
<1>2. Touches(n)
  BY <1>1 DEF TlsAccepted, At, Read, Blame, Goes, Touches, Types, Over, clientVars
<1>3. /\ \/ handler'[n] \in {"upgrade", "first"} /\ why' = why
         \/ handler'[n] = "done" /\ why'[n] = "certificate"
      /\ up'[n] = Tail(up[n])
      /\ UNCHANGED <<setup, down, control, streams, dropped, opened, granted, offer, lost,
                     disturbed>>
  BY <1>1 DEF TlsAccepted, At, Read, Blame, Goes, Types, Over
<1>4. Sound(n)'
  BY <1>1, <1>3 DEF Sound, LinkedAt, Types, Handlers, Waits, Reasons, Quic
<1>5. ASSUME n = attempt, stage \in Talking PROVE Local'
  <2>1. Dialogue /\ Undisturbed
    BY <1>5 DEF IInv
  <2>2. UNCHANGED <<attempt, stage, agreed, left, outcome>>
    BY DEF TlsAccepted, Goes, clientVars
  <2>3. /\ down[attempt] = <<>> /\ control[attempt] = "none"
        /\ \/ Ws /\ stage = "upgrade" /\ up[attempt] = <<Msg("finished"), Msg("upgrade")>>
           \/ ~Ws /\ stage = "hello" /\ up[attempt] = <<Msg("finished"), Greeting>>
    BY <2>1, <1>1, <1>5 DEF Dialogue, AtFinished, Says, Nothing, LinkedAt, Waits
  <2>4. \/ Ws /\ stage = "upgrade" /\ up'[attempt] = <<Msg("upgrade")>>
        \/ ~Ws /\ stage = "hello" /\ up'[attempt] = <<Greeting>>
    <3>1. ASSUME NEW m, up[attempt] = <<Msg("finished"), m>> PROVE up'[attempt] = <<m>>
      <4>1. up'[attempt] = Tail(<<Msg("finished"), m>>)
        BY <3>1, <1>3, <1>5, Zenon
      <4>. QED BY <4>1, Short, Zenon
    <3>. QED BY <2>3, <3>1
  <2>5. Greeting' = Greeting /\ (Ws' <=> Ws)
    BY <1>3 DEF Greeting, Hello, Ws
  <2>6. Dialogue'
    BY <2>1, <2>2, <2>3, <2>4, <2>5, <1>3, <1>5
    DEF Dialogue, AtUpgrade, AtFirst, AtDone, Says, Nothing, Maybe
  <2>7. Undisturbed'
    BY <2>1, <2>2, <2>3, <1>3, <1>5 DEF Undisturbed
  <2>. QED BY <2>2, <2>3, <2>6, <2>7 DEF Local, Agreed
<1>. QED BY <1>1, <1>2, <1>3, <1>4, <1>5, ServerStep DEF LinkedAt, Waits

LEMMA UpgradeWebsocketStep ==
  ASSUME NEW n \in Attempts, IInv, UpgradeWebsocket(n)
  PROVE  IInv'
<1>1. Types /\ LinkedAt(n) /\ Agreed /\ handler[n] = "upgrade" /\ up[n] # <<>>
  BY DEF IInv, Linked, UpgradeWebsocket, Got
<1>2. Touches(n)
  BY <1>1 DEF UpgradeWebsocket, At, Read, Answer, Blame, Goes, Touches, Types, Over, clientVars
<1>3. /\ \/ /\ Head(up[n]).kind = "upgrade" /\ handler'[n] = "first" /\ why' = why
            /\ down'[n] = IF n \in lost THEN down[n] ELSE down[n] \o <<Msg("upgraded")>>
         \/ /\ Head(up[n]).kind # "upgrade" /\ handler'[n] = "done" /\ why'[n] = "transport"
            /\ down' = down
      /\ up'[n] = Tail(up[n])
      /\ UNCHANGED <<setup, control, streams, dropped, opened, granted, offer, lost, disturbed>>
  BY <1>1 DEF UpgradeWebsocket, At, Read, Answer, Blame, Goes, Types, Over
<1>4. Sound(n)'
  BY <1>1, <1>3 DEF Sound, LinkedAt, Types, Handlers, Waits, Reasons, Quic
<1>5. ASSUME n = attempt, stage \in Talking PROVE Local'
  <2>1. Dialogue /\ Undisturbed
    BY <1>5 DEF IInv
  <2>2. UNCHANGED <<attempt, stage, agreed, left, outcome>>
    BY DEF UpgradeWebsocket, Goes, clientVars
  <2>3. /\ down[attempt] = <<>> /\ control[attempt] = "none"
        /\ \/ stage = "upgrade" /\ up[attempt] = <<Msg("upgrade")>>
           \/ stage = "hello" /\ up[attempt] = <<Greeting>>
    BY <2>1, <1>1, <1>5 DEF Dialogue, AtUpgrade, Says, Nothing, Maybe, LinkedAt, Waits
  <2>4. /\ up'[attempt] = <<>>
        /\ Head(up[attempt]).kind = "upgrade" => stage = "upgrade"
    <3>1. CASE stage = "upgrade"
      BY <3>1, <2>3, <1>3, <1>5, Short
    <3>2. CASE stage = "hello"
      <4>1. up[attempt] = <<Greeting>>
        BY <3>2, <2>3
      <4>2. Head(up[attempt]) = Greeting /\ up'[attempt] = <<>>
        BY <4>1, <1>3, <1>5, Short
      <4>. QED BY <4>2, Kinds
    <3>. QED BY <2>3, <3>1, <3>2
  <2>5. Head(up[attempt]).kind = "upgrade" => down'[attempt] \in Maybe(Msg("upgraded"))
    BY <2>3, <1>3, <1>5, Short DEF Maybe
  <2>6. Dialogue'
    BY <2>1, <2>2, <2>3, <2>4, <2>5, <1>3, <1>5
    DEF Dialogue, AtFirst, AtDone, Says, Nothing, Maybe
  <2>7. Undisturbed'
    BY <2>1, <2>2, <2>3, <1>3, <1>5 DEF Undisturbed
  <2>. QED BY <2>2, <2>3, <2>6, <2>7 DEF Local, Agreed
<1>. QED BY <1>1, <1>2, <1>3, <1>4, <1>5, ServerStep DEF LinkedAt, Waits

LEMMA AcceptControlStreamStep ==
  ASSUME NEW n \in Attempts, IInv, AcceptControlStream(n)
  PROVE  IInv'
<1>1. Types /\ LinkedAt(n) /\ Agreed /\ handler[n] = "stream" /\ up[n] # <<>>
  BY DEF IInv, Linked, AcceptControlStream, Got
<1>2. Touches(n)
  BY <1>1 DEF AcceptControlStream, At, Goes, Touches, Types, Over, clientVars
<1>3. /\ handler'[n] = "first"
      /\ UNCHANGED <<setup, up, down, control, why, streams, dropped, opened, granted, offer, lost,
                     disturbed>>
  BY <1>1 DEF AcceptControlStream, At, Goes, Types
<1>4. Sound(n)'
  BY <1>1, <1>3 DEF Sound, LinkedAt, Types, Handlers, Waits, Quic
<1>5. ASSUME n = attempt, stage \in Talking PROVE Local'
  <2>1. Dialogue /\ Undisturbed
    BY <1>5 DEF IInv
  <2>2. UNCHANGED <<attempt, stage, agreed, left, outcome>> /\ Greeting' = Greeting
    BY <1>3 DEF AcceptControlStream, Goes, clientVars, Greeting, Hello
  <2>3. /\ stage = "hello" /\ up[attempt] = <<Greeting>> /\ down[attempt] = <<>>
        /\ control[attempt] = "none"
    BY <2>1, <1>1, <1>5 DEF Dialogue, AtStream, Says, Maybe, Nothing, LinkedAt, Waits
  <2>4. Dialogue'
    BY <2>1, <2>2, <2>3, <1>3, <1>5 DEF Dialogue, AtFirst, Says, Nothing, Maybe
  <2>5. Undisturbed'
    BY <2>1, <2>2, <2>3, <1>3, <1>5 DEF Undisturbed
  <2>. QED BY <2>2, <2>3, <2>4, <2>5 DEF Local, Agreed
<1>. QED BY <1>1, <1>2, <1>3, <1>4, <1>5, ServerStep

LEMMA ReadFirstStep ==
  ASSUME NEW n \in Attempts, IInv, ReadFirst(n)
  PROVE  IInv'
<1>1. Types /\ LinkedAt(n) /\ Agreed /\ handler[n] = "first" /\ up[n] # <<>>
  BY DEF IInv, Linked, ReadFirst, Got
<1>2. Touches(n)
  BY <1>1 DEF ReadFirst, StartControl, At, Read, Blame, Touches, Types, Over, clientVars
<1>3. /\ \/ /\ Head(up[n]).kind = "ClientHello" /\ why' = why
            /\ \/ handler'[n] = "loop" /\ Quic
               \/ handler'[n] = "control" /\ ~Quic
            /\ control'[n] = "hello" /\ offer'[n] = Head(up[n])
         \/ /\ handler'[n] = "done" /\ why'[n] \in {"transport", "version"}
            /\ UNCHANGED <<control, offer>>
      /\ up'[n] = Tail(up[n])
      /\ UNCHANGED <<setup, down, streams, dropped, opened, granted, lost, disturbed>>
  BY <1>1 DEF ReadFirst, Unreadable, StartControl, At, Read, Blame, Types, Over
<1>4. Sound(n)'
  <2>1. /\ handler'[n] \in Handlers /\ control'[n] \in Controls /\ why'[n] \in Reasons
        /\ opened'[n] \in Nat /\ streams'[n] \in Nat
    BY <1>1, <1>3 DEF Types, Handlers, Waits, Controls, Reasons
  <2>2. LinkedAt(n)'
    BY <1>1, <1>3 DEF LinkedAt, Waits, Quic
  <2>. QED BY <2>1, <2>2 DEF Sound
<1>5. ASSUME n = attempt, stage \in Talking PROVE Local'
  <2>1. Dialogue /\ Undisturbed
    BY <1>5 DEF IInv
  <2>2. UNCHANGED <<attempt, stage, agreed, left, outcome>> /\ Greeting' = Greeting
    BY <1>3 DEF ReadFirst, clientVars, Greeting, Hello
  <2>3. /\ down[attempt] = <<>> /\ control[attempt] = "none"
        /\ \/ stage = "upgrade" /\ up[attempt] = <<Msg("upgrade")>>
           \/ stage = "hello" /\ up[attempt] = <<Greeting>>
    BY <2>1, <1>1, <1>5 DEF Dialogue, AtFirst, Says, Nothing, Maybe, LinkedAt, Waits
  <2>4. /\ up'[attempt] = <<>>
        /\ Head(up[attempt]).kind = "ClientHello" =>
             stage = "hello" /\ Head(up[attempt]) = Greeting
    <3>1. CASE stage = "upgrade"
      <4>1. up[attempt] = <<Msg("upgrade")>>
        BY <3>1, <2>3
      <4>2. Head(up[attempt]) = Msg("upgrade") /\ up'[attempt] = <<>>
        BY <4>1, <1>3, <1>5, Short
      <4>. QED BY <4>2, Kinds
    <3>2. CASE stage = "hello"
      BY <3>2, <2>3, <1>3, <1>5, Short
    <3>. QED BY <2>3, <3>1, <3>2
  <2>5. Dialogue'
    BY <2>1, <2>2, <2>3, <2>4, <1>3, <1>5
    DEF Dialogue, AtHello, AtDone, Says, Nothing, Maybe
  <2>6. Undisturbed'
    BY <2>1, <2>2, <2>3, <1>3, <1>5 DEF Undisturbed
  <2>. QED BY <2>2, <2>3, <2>5, <2>6 DEF Local, Agreed
<1>. QED BY <1>1, <1>2, <1>3, <1>4, <1>5, ServerStep DEF LinkedAt, Waits

LEMMA HandlerEndStep ==
  ASSUME NEW n \in Attempts, IInv, HandlerFails(n) \/ HandlerTimeout(n)
  PROVE  IInv'
<1>1. Types /\ Calm /\ LinkedAt(n) /\ Agreed /\ handler[n] \in Waits
  BY DEF IInv, Linked, HandlerFails, HandlerTimeout, Waiting, Waits
<1>2. Touches(n)
  <2>1. CASE HandlerFails(n)
    BY <2>1, <1>1 DEF HandlerFails, At, Goes, Touches, Types, Over, clientVars
  <2>2. CASE HandlerTimeout(n)
    BY <2>2, <1>1 DEF HandlerTimeout, At, Touches, Types, Over, clientVars
  <2>. QED BY <2>1, <2>2
<1>3. /\ handler'[n] = "done"
      /\ UNCHANGED <<setup, clientVars, left, up, down, control, why, streams, dropped, opened,
                     granted, offer, lost>>
      /\ disturbed' = disturbed \cup {n} \/ (disturbed' = disturbed /\ HandlerFails(n))
  BY <1>1 DEF HandlerFails, HandlerTimeout, At, Goes, Types
<1>4. Sound(n)'
  BY <1>1, <1>3 DEF Sound, LinkedAt, Types, Handlers, Waits, Quic
<1>5. ASSUME n = attempt, stage \in Talking PROVE Local'
  <2>1. Dialogue /\ Undisturbed
    BY <1>5 DEF IInv
  <2>2. UNCHANGED <<attempt, stage, agreed, outcome>>
    BY <1>3 DEF clientVars
  <2>3. AtDone /\ stage \notin {"auth", "session"}
    BY <2>1, <1>1, <1>5, DoneFromWaiting
  <2>4. control[attempt] = "none"
    BY <1>1, <1>5 DEF LinkedAt
  <2>5. Dialogue'
    BY <2>1, <2>2, <2>3, <2>4, <1>3, <1>5 DEF Dialogue, AtDone, Maybe
  <2>6. Undisturbed'
    <3>1. CASE attempt \in disturbed'
      BY <3>1, <2>2 DEF Undisturbed
    <3>2. CASE attempt \notin disturbed'
      <4>1. HandlerFails(n) /\ attempt \notin disturbed /\ n \notin left
        BY <3>2, <1>3, <1>5, <2>1 DEF Dialogue
      <4>2. n \in lost
        BY <4>1, <1>1, <1>5 DEF HandlerFails, Calm
      <4>. QED BY <4>1, <4>2, <2>1, <2>2, <1>3, <1>5 DEF Undisturbed
    <3>. QED BY <3>1, <3>2
  <2>. QED BY <2>2, <2>3, <2>5, <2>6 DEF Local, Agreed
<1>6. handler[n] # "none"
  BY <1>1 DEF Waits
<1>. QED BY <1>2, <1>3, <1>4, <1>5, <1>6, ServerStep

(***************************************************************************)
(* serve_control.                                                          *)
(***************************************************************************)
\* A step of serve_control that goes on.
LEMMA ControlGoesOn ==
  ASSUME NEW n \in Attempts, IInv, Touches(n), control[n] \notin {"none", "ended"},
         control'[n] \in Controls \ {"none", "ended"},
         UNCHANGED <<handler, streams, dropped, opened>>,
         \/ why' = why /\ why[n] # "refused"
         \/ why'[n] \in Reasons \ {"nothing", "refused"} /\ why[n] # "refused"
         \/ why'[n] = "refused" /\ why[n] # "refused" /\ control'[n] = "rejecting",
         n = attempt /\ stage \in Talking => Local'
  PROVE  IInv'
<1>1. Types /\ LinkedAt(n)
  BY DEF IInv, Linked
<1>2. setup' = setup
  BY DEF Touches
<1>3. LinkedAt(n)'
  BY <1>1, <1>2 DEF LinkedAt, Waits, Quic
<1>4. why'[n] \in Reasons
  BY <1>1 DEF Types, Reasons
<1>5. Sound(n)'
  BY <1>1, <1>3, <1>4 DEF Sound, Types
<1>6. handler[n] # "none"
  BY <1>1 DEF LinkedAt
<1>. QED BY <1>5, <1>6, ServerStep

\* serve_control returns, with the connection if it was the connection's task.
LEMMA ControlEnds ==
  ASSUME NEW n \in Attempts, IInv, Touches(n), control[n] # "none", Return(n),
         UNCHANGED <<streams, dropped, opened, granted, lost>>,
         \/ why'[n] = why[n]
         \/ why'[n] \in Reasons \ {"nothing"} /\ why[n] # "refused",
         n = attempt /\ stage \in Talking =>
           AtEnd' /\ (attempt \in disturbed' \/ why'[attempt] # "nothing")
  PROVE  IInv'
<1>1. Types /\ LinkedAt(n) /\ Agreed
  BY DEF IInv, Linked
<1>2. UNCHANGED <<setup, attempt, stage, agreed, left, outcome>>
  BY DEF Touches, clientVars
<1>3. /\ control'[n] = "ended"
      /\ handler'[n] = IF handler[n] = "control" THEN "done" ELSE handler[n]
  BY <1>1 DEF Return, To, Types
<1>4. LinkedAt(n)'
  BY <1>1, <1>2, <1>3 DEF LinkedAt, Waits, Quic
<1>5. handler'[n] \in Handlers /\ control'[n] \in Controls /\ why'[n] \in Reasons
  BY <1>1, <1>3 DEF Types, Handlers, Controls
<1>6. Sound(n)'
  BY <1>1, <1>4, <1>5 DEF Sound, Types
<1>7. ASSUME n = attempt, stage \in Talking PROVE Local'
  <2>1. Dialogue
    BY <1>7 DEF IInv
  <2>2. handler'[attempt] \notin Waits \cup {"none"}
    BY <1>1, <1>3, <1>7 DEF LinkedAt, Waits
  <2>3. Dialogue'
    BY <2>1, <2>2, <1>2, <1>3, <1>7 DEF Dialogue, Waits
  <2>4. Undisturbed'
    BY <1>2, <1>7 DEF Undisturbed
  <2>5. Agreed'
    BY <1>1, <1>2 DEF Agreed, Greeted
  <2>. QED BY <2>3, <2>4, <2>5 DEF Local
<1>8. handler[n] # "none"
  BY <1>1 DEF LinkedAt
<1>. QED BY <1>6, <1>7, <1>8, ServerStep

LEMMA ControlHelloStep ==
  ASSUME NEW n \in Attempts, IInv, ControlHello(n)
  PROVE  IInv'
<1>1. Types /\ LinkedAt(n) /\ Agreed /\ control[n] = "hello"
  BY DEF IInv, Linked, ControlHello
<1>2. /\ UNCHANGED <<setup, clientVars, left, lost, offer, opened, streams, dropped, shutdown, cut,
                     up, handler, disturbed>>
      /\ UNCHANGED <<attempt, stage, agreed, outcome>>
  BY DEF ControlHello, ControlFrame, clientVars
<1>3. Touches(n)
  BY <1>1, <1>2 DEF ControlHello, To, Blame, Answer, Touches, Types, Over
<1>4. \/ /\ offer[n].major # setup.server.major
         /\ control'[n] = "rejecting" /\ why'[n] = "version" /\ UNCHANGED <<granted, down>>
      \/ /\ offer[n].major = setup.server.major
         /\ control'[n] = "auth" /\ why' = why
         /\ granted'[n] = setup.server.caps \cap offer[n].caps
         /\ down'[n] = IF n \in lost THEN down[n]
                       ELSE down[n] \o <<Hello("ServerHello", setup.server.major, granted'[n])>>
  BY <1>1 DEF ControlHello, To, Blame, Answer, Negotiate, Intersect, Types, Over
<1>5. ASSUME n = attempt, stage \in Talking PROVE Local'
  <2>1. Dialogue /\ Undisturbed
    BY <1>5 DEF IInv
  <2>2. stage = "hello" /\ up[n] = <<>> /\ down[n] = <<>> /\ offer[n] = Greeting
    BY <2>1, <1>1, <1>5 DEF Dialogue, AtHello, Says, Nothing
  <2>3. offer[n].major = setup.client.major /\ offer[n].caps = setup.client.caps
    BY <2>2, Kinds
  <2>4. Agreed'
    BY <2>2, <1>2 DEF Agreed
  <2>5. handler[attempt] \notin Waits \cup {"none"}
    BY <1>1, <1>5 DEF LinkedAt
  <2>6. CASE control'[n] = "rejecting" /\ why'[n] = "version" /\ UNCHANGED down
    <3>1. Dialogue'
      BY <2>1, <2>2, <2>5, <2>6, <1>2, <1>5 DEF Dialogue, AtRejecting, Says, Nothing, Waits
    <3>2. Undisturbed'
      BY <2>6, <1>2, <1>5 DEF Undisturbed
    <3>. QED BY <2>4, <3>1, <3>2 DEF Local
  <2>7. CASE /\ offer[n].major = setup.server.major
             /\ control'[n] = "auth" /\ why' = why
             /\ granted'[n] = setup.server.caps \cap offer[n].caps
             /\ down'[n] = IF n \in lost THEN down[n]
                 ELSE down[n] \o <<Hello("ServerHello", setup.server.major, granted'[n])>>
    <3>1. Greeted(attempt)'
      BY <2>3, <2>7, <1>2, <1>5 DEF Greeted
    <3>2. ServerGreeting(attempt)' = Hello("ServerHello", setup.server.major, granted'[n])
      BY <1>2, <1>5 DEF ServerGreeting
    <3>3. down'[attempt] \in Maybe(ServerGreeting(attempt)')
      BY <3>2, <2>2, <2>7, <1>5, Short DEF Maybe
    <3>4. Dialogue'
      BY <2>1, <2>2, <2>5, <2>7, <3>1, <3>3, <1>2, <1>5
      DEF Dialogue, AtAuth, Says, Nothing, Maybe, Waits
    <3>5. Undisturbed'
      BY <2>1, <2>7, <1>2, <1>5 DEF Undisturbed
    <3>. QED BY <2>4, <3>4, <3>5 DEF Local
  <2>. QED BY <1>4, <2>6, <2>7
<1>6. why[n] # "refused"
  BY <1>1 DEF LinkedAt
<1>7. control'[n] \in Controls \ {"none", "ended"}
  BY <1>4 DEF Controls
<1>8. why' = why \/ why'[n] \in Reasons \ {"nothing", "refused"}
  BY <1>4 DEF Reasons
<1>. QED BY <1>1, <1>2, <1>3, <1>5, <1>6, <1>7, <1>8, ControlGoesOn

LEMMA ControlAuthStep ==
  ASSUME NEW n \in Attempts, IInv, ControlAuth(n)
  PROVE  IInv'
<1>1. Types /\ LinkedAt(n) /\ Agreed /\ control[n] = "auth" /\ up[n] # <<>>
  BY DEF IInv, Linked, ControlAuth
<1>2. /\ UNCHANGED <<setup, clientVars, left, lost, offer, opened, streams, dropped, shutdown, cut,
                     down, granted, handler, disturbed>>
      /\ UNCHANGED <<attempt, stage, agreed, outcome>>
  BY DEF ControlAuth, ControlFrame, clientVars
<1>3. Touches(n)
  BY <1>1, <1>2 DEF ControlAuth, Read, To, Blame, Touches, Types, Over
<1>4. /\ up'[n] = Tail(up[n])
      /\ \/ control'[n] = "enter" /\ why' = why
         \/ control'[n] = "rejecting" /\ why'[n] = "refused"
  BY <1>1 DEF ControlAuth, Read, To, Blame, Types, Over
<1>5. ASSUME n = attempt, stage \in Talking PROVE Local'
  <2>1. Dialogue /\ Undisturbed
    BY <1>5 DEF IInv
  <2>2. stage = "auth" /\ up[n] = <<Msg("Auth")>> /\ down[n] = <<>>
    BY <2>1, <1>1, <1>5 DEF Dialogue, AtAuth, Says, Nothing, Maybe
  <2>3. up'[n] = <<>>
    BY <2>2, <1>4, Short
  <2>4. Agreed'
    BY <1>1, <1>2 DEF Agreed, Greeted
  <2>5. handler[attempt] \notin Waits \cup {"none"}
    BY <1>1, <1>5 DEF LinkedAt
  <2>6. Dialogue'
    BY <2>1, <2>2, <2>3, <2>5, <1>2, <1>4, <1>5
    DEF Dialogue, AtEnter, AtRejecting, Says, Nothing, Waits
  <2>7. Undisturbed'
    BY <2>1, <1>2, <1>4, <1>5 DEF Undisturbed
  <2>. QED BY <2>4, <2>6, <2>7 DEF Local
<1>6. why[n] # "refused"
  BY <1>1 DEF LinkedAt
<1>7. control'[n] \in Controls \ {"none", "ended"}
  BY <1>4 DEF Controls
<1>. QED BY <1>1, <1>2, <1>3, <1>4, <1>5, <1>6, <1>7, ControlGoesOn

LEMMA ControlRejectStep ==
  ASSUME NEW n \in Attempts, IInv, ControlReject(n)
  PROVE  IInv'
<1>1. Types /\ control[n] = "rejecting"
  BY DEF IInv, ControlReject
<1>2. /\ UNCHANGED <<setup, clientVars, left, lost, offer, opened, streams, dropped, shutdown, cut,
                     up, granted, why, disturbed>>
      /\ UNCHANGED <<attempt, stage, agreed, outcome>> /\ Return(n)
  BY DEF ControlReject, ControlFrame, clientVars
<1>3. Touches(n)
  BY <1>1, <1>2 DEF ControlReject, Answer, Return, To, Touches, Types, Over
<1>4. down'[n] = IF n \in lost THEN down[n] ELSE down[n] \o <<Msg("Error")>>
  BY <1>1 DEF ControlReject, Answer, Types, Over
<1>5. ASSUME n = attempt, stage \in Talking PROVE AtEnd' /\ why'[attempt] # "nothing"
  <2>1. Dialogue
    BY <1>5 DEF IInv
  <2>2. /\ down[n] = <<>>
        /\ \/ stage = "hello" /\ why[attempt] = "version"
           \/ stage = "auth" /\ why[attempt] = "refused"
    BY <2>1, <1>1, <1>5 DEF Dialogue, AtRejecting, Says, Nothing
  <2>3. down'[attempt] \in {<<>>, <<Msg("Error")>>}
    BY <2>2, <1>4, <1>5, Short
  <2>. QED BY <2>2, <2>3, <1>2 DEF AtEnd
<1>. QED BY <1>1, <1>2, <1>3, <1>5, ControlEnds

LEMMA ControlEnterStep ==
  ASSUME NEW n \in Attempts, IInv, ControlEnter(n)
  PROVE  IInv'
<1>1. Types /\ LinkedAt(n) /\ Agreed /\ control[n] = "enter"
  BY DEF IInv, Linked, ControlEnter
<1>2. /\ UNCHANGED <<setup, clientVars, left, lost, offer, opened, streams, dropped, shutdown, cut,
                     up, down, granted, disturbed>>
      /\ UNCHANGED <<attempt, stage, agreed, outcome>>
  BY DEF ControlEnter, ControlFrame, clientVars
<1>3. why[n] # "refused"
  BY <1>1 DEF LinkedAt
<1>4. n = attempt /\ stage \in Talking =>
        Dialogue /\ Undisturbed /\ stage = "auth" /\ up[attempt] = <<>> /\ down[attempt] = <<>>
  BY <1>1 DEF IInv, Dialogue, AtEnter, Says, Nothing
<1>5. CASE Return(n) /\ Blame(n, "unavailable")
  <2>1. Touches(n)
    BY <1>1, <1>2, <1>5 DEF Return, To, Blame, Touches, Types, Over
  <2>2. why'[n] = "unavailable"
    BY <1>1, <1>5 DEF Blame, Types
  <2>3. n = attempt /\ stage \in Talking => AtEnd'
    BY <1>2, <1>4 DEF AtEnd
  <2>. QED BY <2>1, <2>2, <2>3, <1>1, <1>2, <1>3, <1>5, ControlEnds DEF Reasons
<1>6. CASE To(n, "welcome") /\ UNCHANGED <<handler, why>>
  <2>1. Touches(n) /\ control'[n] = "welcome"
    BY <1>1, <1>2, <1>6 DEF To, Touches, Types, Over
  <2>2. ASSUME n = attempt, stage \in Talking PROVE Local'
    <3>1. handler[attempt] \notin Waits \cup {"none"}
      BY <1>1, <2>2 DEF LinkedAt
    <3>2. Dialogue'
      BY <3>1, <2>1, <2>2, <1>2, <1>4, <1>6 DEF Dialogue, AtEnter, Says, Nothing, Waits
    <3>3. Undisturbed'
      BY <2>1, <2>2, <1>2, <1>4, <1>6 DEF Undisturbed
    <3>4. Agreed'
      BY <1>1, <1>2 DEF Agreed, Greeted
    <3>. QED BY <3>2, <3>3, <3>4 DEF Local
  <2>. QED BY <2>1, <2>2, <1>1, <1>2, <1>3, <1>6, ControlGoesOn DEF Controls
<1>. QED BY <1>5, <1>6 DEF ControlEnter

LEMMA ControlWelcomeStep ==
  ASSUME NEW n \in Attempts, IInv, ControlWelcome(n)
  PROVE  IInv'
<1>1. Types /\ LinkedAt(n) /\ Agreed /\ control[n] = "welcome"
  BY DEF IInv, Linked, ControlWelcome
<1>2. /\ UNCHANGED <<setup, clientVars, left, lost, offer, opened, streams, dropped, shutdown, cut,
                     up, granted, handler, why, disturbed>>
      /\ UNCHANGED <<attempt, stage, agreed, outcome>>
  BY DEF ControlWelcome, ControlFrame, clientVars
<1>3. Touches(n) /\ control'[n] = "serving"
  BY <1>1, <1>2 DEF ControlWelcome, Answer, To, Touches, Types, Over
<1>4. down'[n] = IF n \in lost THEN down[n] ELSE down[n] \o <<Msg("AuthOk")>>
  BY <1>1 DEF ControlWelcome, Answer, Types, Over
<1>5. ASSUME n = attempt, stage \in Talking PROVE Local'
  <2>1. Dialogue /\ Undisturbed
    BY <1>5 DEF IInv
  <2>2. stage = "auth" /\ up[n] = <<>> /\ down[n] = <<>>
    BY <2>1, <1>1, <1>5 DEF Dialogue, AtEnter, Says, Nothing
  <2>3. down'[n] \in Maybe(Msg("AuthOk")) /\ (down'[n] = <<>> => n \in lost)
    BY <2>2, <1>4, Short DEF Maybe
  <2>4. Agreed'
    BY <1>1, <1>2 DEF Agreed, Greeted
  <2>5. handler[attempt] \notin Waits \cup {"none"}
    BY <1>1, <1>5 DEF LinkedAt
  <2>6. Dialogue'
    BY <2>1, <2>2, <2>3, <2>5, <1>2, <1>3, <1>5
    DEF Dialogue, AtServing, Says, Nothing, Waits
  <2>7. Undisturbed'
    BY <2>1, <1>2, <1>3, <1>5 DEF Undisturbed
  <2>. QED BY <2>4, <2>6, <2>7 DEF Local
<1>6. why[n] # "refused" /\ control'[n] \in Controls \ {"none", "ended"}
  BY <1>1, <1>3 DEF LinkedAt, Controls
<1>. QED BY <1>1, <1>2, <1>3, <1>5, <1>6, ControlGoesOn

\* serve_control ends without an answer.
LEMMA ControlBreaksStep ==
  ASSUME NEW n \in Attempts, IInv, ControlFails(n) \/ ControlTimeout(n)
  PROVE  IInv'
<1>1. Types /\ Calm /\ control[n] \in {"auth", "serving"}
  BY DEF IInv, ControlFails, ControlTimeout
<1>2. /\ UNCHANGED <<setup, clientVars, left, lost, offer, opened, streams, dropped, shutdown, cut,
                     up, down, granted, why>>
      /\ UNCHANGED <<attempt, stage, agreed, outcome>> /\ Return(n)
      /\ disturbed' = disturbed \cup {n} \/ (disturbed' = disturbed /\ ControlFails(n))
  BY DEF ControlFails, ControlTimeout, ControlFrame, clientVars
<1>3. Touches(n)
  BY <1>1, <1>2 DEF Return, To, Touches, Types, Over
<1>4. ASSUME n = attempt, stage \in Talking
      PROVE  AtEnd' /\ (attempt \in disturbed' \/ why'[attempt] # "nothing")
  <2>1. Dialogue /\ Undisturbed
    BY <1>4 DEF IInv
  <2>2. AtEnd
    BY <2>1, <1>1, <1>4, EndFromControl DEF Controls
  <2>3. ServerGreeting(attempt)' = ServerGreeting(attempt)
    BY <1>2 DEF ServerGreeting
  <2>4. AtEnd'
    BY <2>2, <2>3, <1>2 DEF AtEnd, Greeted, Maybe
  <2>5. CASE ControlFails(n) /\ attempt \notin disturbed
    <3>1. n \in left \cup lost \/ n \in cut
      BY <2>5 DEF ControlFails, Broken
    <3>2. n \notin left
      BY <2>1, <1>4 DEF Dialogue
    <3>3. n \notin cut
      BY <2>5, <1>1, <1>4 DEF Calm
    <3>. QED BY <3>1, <3>2, <3>3, <2>1, <2>4, <2>5, <1>2, <1>4 DEF Undisturbed
  <2>. QED BY <2>4, <2>5, <1>2, <1>4
<1>. QED BY <1>1, <1>2, <1>3, <1>4, ControlEnds

LEMMA ControlDrainStep ==
  ASSUME NEW n \in Attempts, IInv, ControlDrain(n)
  PROVE  IInv'
<1>1. Types /\ Calm /\ control[n] = "serving" /\ shutdown = "draining"
  BY DEF IInv, ControlDrain
<1>2. /\ UNCHANGED <<setup, clientVars, left, lost, offer, opened, streams, dropped, shutdown, cut,
                     up, granted, why, disturbed>>
      /\ UNCHANGED <<attempt, stage, agreed, outcome>> /\ Return(n)
  BY DEF ControlDrain, ControlFrame, clientVars
<1>3. Touches(n)
  BY <1>1, <1>2 DEF ControlDrain, Answer, Return, To, Touches, Types, Over
<1>4. down'[n] = IF n \in lost THEN down[n] ELSE down[n] \o <<Msg("Drain")>>
  BY <1>1 DEF ControlDrain, Answer, Types, Over
<1>5. ASSUME n = attempt, stage \in Talking PROVE AtEnd' /\ attempt \in disturbed'
  <2>1. Dialogue
    BY <1>5 DEF IInv
  <2>2. \/ stage = "auth" /\ down[n] = <<Msg("AuthOk")>>
        \/ stage = "auth" /\ down[n] = <<>> /\ n \in lost
        \/ stage = "session" /\ down[n] = <<>>
    BY <2>1, <1>1, <1>5 DEF Dialogue, AtServing, Says, Nothing, Maybe
  <2>3. down[n] = <<Msg("AuthOk")>> =>
          down'[n] \in {<<Msg("AuthOk")>>, <<Msg("AuthOk"), Msg("Drain")>>}
    BY <1>4, Short
  <2>4. down[n] = <<>> => down'[n] \in Maybe(Msg("Drain")) /\ (n \in lost => down'[n] = <<>>)
    BY <1>4, Short DEF Maybe
  <2>. QED BY <2>2, <2>3, <2>4, <1>1, <1>2, <1>5 DEF AtEnd, Calm
<1>. QED BY <1>1, <1>2, <1>3, <1>5, ControlEnds

(***************************************************************************)
(* handle_quic_connection and the environment.                             *)
(***************************************************************************)
LEMMA BreakFrame ==
  ASSUME NEW n \in Attempts, Types, Break(n)
  PROVE  /\ Over(up)' /\ Over(down)' /\ lost' = lost \cup {n}
         /\ \A m \in Attempts \ {n} : up'[m] = up[m] /\ down'[m] = down[m]
         /\ up'[n] \in {up[n], <<>>} /\ down'[n] \in {down[n], <<>>}
BY DEF Break, Types, Over

\* What is lost on the way does not contradict what was said.
LEMMA DialogueBroken ==
  ASSUME Dialogue, attempt \in Attempts,
         UNCHANGED <<setup, attempt, stage, outcome, left, offer, granted, why, control>>,
         \/ handler'[attempt] = handler[attempt]
         \/ handler'[attempt] \notin Waits \cup {"none", "done"},
         lost' = lost \cup {attempt},
         up'[attempt] \in {up[attempt], <<>>}, down'[attempt] \in {down[attempt], <<>>}
  PROVE  Dialogue'
<1>1. Greeting' = Greeting /\ ServerGreeting(attempt)' = ServerGreeting(attempt)
  BY DEF Greeting, ServerGreeting, Hello
<1>2. /\ handler'[attempt] # "none" /\ attempt \notin left' /\ outcome'[attempt] = "none"
  BY DEF Dialogue
<1>3. \A s, us, ds : <<>> \in us /\ <<>> \in ds /\ Says(s, us, ds) => Says(s, us, ds)'
  BY DEF Says
<1>4. (AtTls => AtTls') /\ (AtHello => AtHello') /\ (AtEnter => AtEnter')
  BY <1>1, <1>3 DEF AtTls, AtHello, AtEnter, Maybe, Nothing
<1>5. (AtFinished => AtFinished') /\ (AtUpgrade => AtUpgrade')
  BY <1>1 DEF AtFinished, AtUpgrade, Says, Ws, Maybe, Nothing
<1>6. (AtStream => AtStream') /\ (AtFirst => AtFirst')
  BY <1>1 DEF AtStream, AtFirst, Says, Maybe, Nothing
<1>7. (AtAuth => AtAuth') /\ (AtRejecting => AtRejecting')
  BY <1>1 DEF AtAuth, AtRejecting, Greeted, Says, Maybe, Nothing
<1>8. (AtServing => AtServing') /\ (AtEnd => AtEnd')
  BY <1>1 DEF AtServing, AtEnd, Greeted, Says, Maybe, Nothing
<1>9. AtDone => AtDone'
  BY DEF AtDone, Maybe
<1>. QED BY <1>2, <1>4, <1>5, <1>6, <1>7, <1>8, <1>9 DEF Dialogue, Waits

\* Data streams are no part of the dialogue.
LEMMA StreamStep ==
  ASSUME NEW n \in Attempts, IInv, (OpenDataStream /\ n = attempt) \/ QuicAccept(n) \/ StreamEnds(n)
  PROVE  IInv'
<1>1. Types /\ LinkedAt(n) /\ Local
  BY DEF IInv, Linked, Local
<1>2. /\ UNCHANGED <<setup, clientVars, up, down, left, lost, handler, control, offer, granted,
                     dropped, shutdown, cut, why, disturbed>>
      /\ UNCHANGED <<attempt, stage, agreed, outcome>>
  BY DEF OpenDataStream, QuicAccept, StreamEnds, QuicFrame, clientVars
<1>3. /\ opened' \in [Attempts -> Nat] /\ streams' \in [Attempts -> Nat]
      /\ \A m \in Attempts \ {n} : opened'[m] = opened[m] /\ streams'[m] = streams[m]
      /\ streams'[n] = streams[n] \/ streams[n] > 0 \/ handler[n] = "loop"
  <2>1. /\ opened \in [Attempts -> Nat] /\ streams \in [Attempts -> Nat]
        /\ opened[n] \in Nat /\ streams[n] \in Nat
    BY <1>1 DEF Types
  <2>2. CASE OpenDataStream /\ n = attempt
    <3>1. opened' = [opened EXCEPT ![n] = opened[n] + 1] /\ streams' = streams
      BY <2>2 DEF OpenDataStream
    <3>. QED BY <3>1, <2>1
  <2>3. CASE QuicAccept(n)
    <3>1. /\ handler[n] = "loop" /\ opened[n] > 0 /\ opened' = [opened EXCEPT ![n] = opened[n] - 1]
          /\ streams' = streams \/ streams' = [streams EXCEPT ![n] = streams[n] + 1]
      BY <2>3 DEF QuicAccept
    <3>. QED BY <3>1, <2>1
  <2>4. CASE StreamEnds(n)
    <3>1. /\ streams[n] > 0 /\ streams' = [streams EXCEPT ![n] = streams[n] - 1]
          /\ opened' = opened
      BY <2>4 DEF StreamEnds
    <3>. QED BY <3>1, <2>1
  <2>. QED BY <2>2, <2>3, <2>4
<1>4. Touches(n)
  BY <1>1, <1>2, <1>3 DEF Touches, Types, Over
<1>5. LinkedAt(n)'
  BY <1>1, <1>2, <1>3 DEF LinkedAt, Quic, Types
<1>6. Sound(n)'
  BY <1>1, <1>2, <1>3, <1>5 DEF Sound, Types
<1>7. handler[n] # "none"
  <2>1. CASE OpenDataStream /\ n = attempt
    BY <2>1 DEF OpenDataStream, IInv, Talking, Dialogue
  <2>2. CASE QuicAccept(n)
    BY <2>2 DEF QuicAccept
  <2>3. CASE StreamEnds(n)
    BY <2>3, <1>1 DEF StreamEnds, LinkedAt
  <2>. QED BY <2>1, <2>2, <2>3
<1>8. stage \in Talking => Local'
  BY <1>1, <1>2, LocalKept DEF Kept
<1>. QED BY <1>2, <1>4, <1>6, <1>7, <1>8, ServerStep

LEMMA QuicAcceptFailsStep ==
  ASSUME NEW n \in Attempts, IInv, QuicAcceptFails(n)
  PROVE  IInv'
<1>1. Types /\ LinkedAt(n) /\ Agreed /\ handler[n] = "loop" /\ n \in lost
  BY DEF IInv, Linked, QuicAcceptFails
<1>2. /\ UNCHANGED <<setup, clientVars, up, down, left, lost, control, offer, granted, opened,
                     streams, shutdown, cut, why, disturbed>>
      /\ UNCHANGED <<attempt, stage, agreed, outcome>>
  BY DEF QuicAcceptFails, QuicFrame, clientVars
<1>3. Touches(n) /\ handler'[n] = "done" /\ dropped' = dropped \cup {n}
  BY <1>1, <1>2 DEF QuicAcceptFails, At, AbortStreams, Touches, Types, Over
<1>4. LinkedAt(n)'
  BY <1>1, <1>2, <1>3 DEF LinkedAt, Quic, Waits
<1>5. Sound(n)'
  BY <1>1, <1>2, <1>3, <1>4 DEF Sound, Types, Handlers
<1>6. ASSUME n = attempt, stage \in Talking PROVE Local'
  <2>1. Dialogue /\ Undisturbed
    BY <1>6 DEF IInv
  <2>2. control[attempt] # "none"
    BY <1>1, <1>6 DEF LinkedAt
  <2>3. Greeting' = Greeting /\ ServerGreeting(attempt)' = ServerGreeting(attempt)
    BY <1>2 DEF Greeting, ServerGreeting, Hello
  <2>4. Dialogue'
    BY <2>1, <2>2, <2>3, <1>2, <1>3, <1>6
    DEF Dialogue, AtHello, AtAuth, AtRejecting, AtEnter, AtServing, AtEnd, Says, Greeted, Maybe,
        Nothing
  <2>5. Undisturbed'
    BY <2>1, <1>1, <1>2, <1>6 DEF Undisturbed
  <2>6. Agreed'
    BY <1>1, <1>2 DEF Agreed, Greeted
  <2>. QED BY <2>4, <2>5, <2>6 DEF Local
<1>. QED BY <1>1, <1>2, <1>3, <1>5, <1>6, ServerStep

LEMMA QuicCloseStep ==
  ASSUME NEW n \in Attempts, IInv, QuicClose(n)
  PROVE  IInv'
<1>1. Types /\ Calm /\ LinkedAt(n) /\ Agreed /\ handler[n] = "loop"
  BY DEF IInv, Linked, QuicClose
<1>2. /\ UNCHANGED <<setup, clientVars, left, control, offer, granted, opened, streams, dropped,
                     shutdown, cut, why, disturbed>>
      /\ UNCHANGED <<attempt, stage, agreed, outcome>> /\ Break(n)
  BY DEF QuicClose, QuicFrame, clientVars
<1>3. Touches(n) /\ handler'[n] = "joining"
  BY <1>1, <1>2, BreakFrame DEF QuicClose, At, Touches, Types, Over
<1>4. LinkedAt(n)'
  BY <1>1, <1>2, <1>3 DEF LinkedAt, Quic, Waits
<1>5. Sound(n)'
  BY <1>1, <1>2, <1>3, <1>4 DEF Sound, Types, Handlers
<1>6. ASSUME n = attempt, stage \in Talking PROVE Local'
  <2>1. Dialogue /\ Undisturbed
    BY <1>6 DEF IInv
  <2>2. Dialogue'
    BY <2>1, <1>1, <1>2, <1>3, <1>6, BreakFrame, DialogueBroken DEF Waits
  <2>3. shutdown # "up" \/ control[n] = "ended"
    BY <1>1 DEF QuicClose, Cancelled
  <2>4. Undisturbed'
    BY <2>1, <2>3, <1>1, <1>2, <1>6 DEF Undisturbed, Calm
  <2>5. Agreed'
    BY <1>1, <1>2 DEF Agreed, Greeted
  <2>. QED BY <2>2, <2>4, <2>5 DEF Local
<1>. QED BY <1>1, <1>2, <1>3, <1>5, <1>6, ServerStep

LEMMA QuicJoinStep ==
  ASSUME NEW n \in Attempts, IInv, QuicJoin(n)
  PROVE  IInv'
<1>1. Types /\ LinkedAt(n) /\ Agreed /\ handler[n] = "joining" /\ streams[n] = 0
  BY DEF IInv, Linked, QuicJoin
<1>2. /\ UNCHANGED <<setup, clientVars, up, down, left, lost, offer, granted, opened, streams,
                     dropped, shutdown, cut, why, disturbed>>
      /\ UNCHANGED <<attempt, stage, agreed, outcome>>
  BY DEF QuicJoin, QuicFrame, clientVars
<1>3. Touches(n) /\ handler'[n] = "done" /\ control'[n] = "ended"
  BY <1>1, <1>2 DEF QuicJoin, At, To, Touches, Types, Over
<1>4. LinkedAt(n)'
  BY <1>1, <1>2, <1>3 DEF LinkedAt, Quic, Waits
<1>5. Sound(n)'
  BY <1>1, <1>2, <1>3, <1>4 DEF Sound, Types, Handlers, Controls
<1>6. ASSUME n = attempt, stage \in Talking PROVE Local'
  <2>1. Dialogue /\ Undisturbed
    BY <1>6 DEF IInv
  <2>2. AtEnd
    BY <2>1, <1>1, <1>6, EndFromControl DEF LinkedAt, Types
  <2>3. ServerGreeting(attempt)' = ServerGreeting(attempt)
    BY <1>2 DEF ServerGreeting
  <2>4. AtEnd'
    BY <2>2, <2>3, <1>2 DEF AtEnd, Greeted, Maybe
  <2>5. Dialogue'
    BY <2>1, <2>4, <1>2, <1>3, <1>6 DEF Dialogue
  <2>6. Undisturbed'
    BY <2>1, <1>1, <1>2, <1>6 DEF Undisturbed
  <2>7. Agreed'
    BY <1>1, <1>2 DEF Agreed, Greeted
  <2>. QED BY <2>5, <2>6, <2>7 DEF Local
<1>. QED BY <1>1, <1>2, <1>3, <1>5, <1>6, ServerStep

LEMMA LoseStep ==
  ASSUME NEW n \in Attempts, IInv, Lose(n)
  PROVE  IInv'
<1>1. Types /\ LinkedAt(n) /\ Agreed /\ handler[n] # "none"
  BY DEF IInv, Linked, Lose
<1>2. /\ UNCHANGED <<setup, clientVars, left, handler, control, offer, granted, opened, streams,
                     dropped, shutdown, cut, why>>
      /\ UNCHANGED <<attempt, stage, agreed, outcome>> /\ Break(n)
      /\ disturbed' = disturbed \cup {n}
  BY DEF Lose, clientVars, serverVars
<1>3. Touches(n)
  BY <1>1, <1>2, BreakFrame DEF Touches, Types, Over
<1>4. Sound(n)'
  BY <1>1, <1>2 DEF Sound, Types, LinkedAt, Quic
<1>5. ASSUME n = attempt, stage \in Talking PROVE Local'
  <2>1. Dialogue
    BY <1>5 DEF IInv
  <2>2. Dialogue'
    BY <2>1, <1>1, <1>2, <1>5, BreakFrame, DialogueBroken
  <2>3. Undisturbed'
    BY <1>2, <1>5 DEF Undisturbed
  <2>4. Agreed'
    BY <1>1, <1>2 DEF Agreed, Greeted
  <2>. QED BY <2>2, <2>3, <2>4 DEF Local
<1>. QED BY <1>1, <1>2, <1>3, <1>4, <1>5, ServerStep

LEMMA ShutdownStep == IInv /\ Shutdown => IInv'
<1>. SUFFICES ASSUME IInv, Shutdown PROVE IInv'
  OBVIOUS
<1>1. Types /\ Calm /\ Fresh /\ Linked /\ OutcomeExplained /\ OldClientReleased /\ Local
  BY DEF IInv, Local
<1>2. /\ shutdown' = "draining" /\ disturbed' = Attempts
      /\ UNCHANGED <<setup, attempt, stage, outcome, agreed, slot, dialled, up, down, left, lost,
                     handler, control, offer, granted, opened, streams, dropped, why>>
  BY DEF Shutdown, clientVars
<1>3. Types'
  BY <1>1, <1>2 DEF Types, Over
<1>4. Calm' /\ Fresh' /\ OldClientReleased'
  BY <1>1, <1>2 DEF Calm, Fresh, OldClientReleased
<1>5. Linked'
  BY <1>1, <1>2 DEF Linked, LinkedAt, Quic
<1>6. OutcomeExplained'
  BY <1>1, <1>2 DEF OutcomeExplained
<1>7. CASE stage \in Talking
  <2>1. attempt \in Attempts
    BY <1>1, <1>7 DEF Types
  <2>2. Kept
    BY <1>2, <2>1 DEF Kept
  <2>. QED BY <2>2, <1>1, <1>3, <1>4, <1>5, <1>6, <1>7, LocalKept DEF IInv, Local
<1>8. CASE stage \notin Talking
  BY <1>2, <1>3, <1>4, <1>5, <1>6, <1>8 DEF IInv, Agreed, Talking
<1>. QED BY <1>7, <1>8

LEMMA ForceStopStep == IInv /\ ForceStop => IInv'
<1>. SUFFICES ASSUME IInv, ForceStop PROVE IInv'
  OBVIOUS
<1>1. Types /\ Calm /\ Fresh /\ Linked /\ OutcomeExplained /\ OldClientReleased /\ Agreed
  BY DEF IInv
<1>2. /\ shutdown = "draining" /\ shutdown' = "stopped"
      /\ UNCHANGED <<setup, attempt, stage, outcome, agreed, slot, dialled, up, down, left, lost,
                     offer, granted, opened, streams, why, disturbed>>
  BY DEF ForceStop, clientVars
<1>3. /\ handler' = [n \in Attempts |-> IF handler[n] = "none" THEN "none" ELSE "done"]
      /\ dropped' = dropped \cup {n \in Attempts : handler[n] \in {"loop", "joining"}}
      /\ \/ Quic /\ control' = control
         \/ ~Quic /\ control' = [n \in Attempts |-> IF control[n] = "none" THEN "none" ELSE "ended"]
  BY DEF ForceStop
<1>4. Types'
  <2>1. handler' \in [Attempts -> Handlers]
    BY <1>3 DEF Handlers
  <2>2. control' \in [Attempts -> Controls]
    BY <1>1, <1>3 DEF Types, Controls
  <2>. QED BY <2>1, <2>2, <1>1, <1>2 DEF Types, Over
<1>5. Calm' /\ OldClientReleased' /\ OutcomeExplained'
  BY <1>1, <1>2 DEF Calm, OldClientReleased, OutcomeExplained
<1>6. Fresh'
  BY <1>1, <1>2, <1>3 DEF Fresh
<1>7. Linked'
  <2>. SUFFICES ASSUME NEW n \in Attempts PROVE LinkedAt(n)'
    BY DEF Linked
  <2>1. LinkedAt(n) /\ control[n] \in Controls
    BY <1>1 DEF Linked, Types
  <2>2. /\ handler'[n] \in {"none", "done"} /\ (handler'[n] = "none" <=> handler[n] = "none")
        /\ n \in dropped' <=> n \in dropped \/ handler[n] \in {"loop", "joining"}
    BY <1>3
  <2>3. control'[n] \in {control[n], "ended"} /\ (control'[n] = "none" <=> control[n] = "none")
        /\ (~Quic => control'[n] \in {"none", "ended"})
    BY <1>3
  <2>. QED BY <2>1, <2>2, <2>3, <1>2 DEF LinkedAt, Quic, Waits
<1>8. ASSUME stage \in Talking PROVE Dialogue' /\ Undisturbed'
  <2>1. Dialogue /\ attempt \in Attempts
    BY <1>1, <1>8 DEF IInv, Types
  <2>2. Undisturbed'
    BY <2>1, <1>1, <1>2 DEF Undisturbed, Calm
  <2>3. /\ handler'[attempt] = "done" /\ control[attempt] \in Controls
        /\ control'[attempt] = control[attempt] \/ (control[attempt] # "none"
                                                     /\ control'[attempt] = "ended")
    BY <2>1, <1>1, <1>3 DEF Types, Dialogue
  <2>4. Greeting' = Greeting /\ ServerGreeting(attempt)' = ServerGreeting(attempt)
    BY <1>2 DEF Greeting, ServerGreeting, Hello
  <2>5. CASE control[attempt] = "none"
    <3>1. AtDone
      <4>1. handler[attempt] \in Waits \cup {"done"}
        BY <2>1, <2>5, <1>1 DEF Types, Linked, LinkedAt, Handlers, Dialogue
      <4>. QED BY <4>1, <2>1, <2>5, DoneFromWaiting DEF Dialogue
    <3>2. AtDone' /\ control'[attempt] = "none"
      BY <3>1, <2>3, <2>5, <1>2 DEF AtDone
    <3>3. Dialogue'
      BY <3>2, <2>1, <2>3, <1>2 DEF Dialogue
    <3>. QED BY <3>3, <2>2
  <2>6. CASE control[attempt] # "none"
    <3>1. AtEnd
      BY <2>1, <2>3, <2>6, EndFromControl
    <3>2. AtEnd'
      BY <3>1, <2>4, <1>2 DEF AtEnd, Greeted
    <3>3. CASE control'[attempt] = "ended"
      <4>1. Dialogue'
        BY <3>2, <3>3, <2>1, <2>3, <1>2 DEF Dialogue
      <4>. QED BY <4>1, <2>2
    <3>4. CASE control'[attempt] = control[attempt]
      <4>1. Dialogue'
        BY <3>4, <2>1, <2>3, <2>4, <2>6, <1>2
        DEF Dialogue, AtHello, AtAuth, AtRejecting, AtEnter, AtServing, AtEnd, Says, Greeted,
            Maybe, Nothing
      <4>. QED BY <4>1, <2>2
    <3>. QED BY <3>3, <3>4, <2>3
  <2>. QED BY <2>5, <2>6
<1>9. Agreed'
  BY <1>1, <1>2 DEF Agreed, Greeted
<1>. QED BY <1>2, <1>4, <1>5, <1>6, <1>7, <1>8, <1>9 DEF IInv

(***************************************************************************)
(* Together.                                                               *)
(***************************************************************************)
LEMMA StutterStep == IInv /\ UNCHANGED vars => IInv'
<1>. SUFFICES ASSUME IInv, UNCHANGED vars PROVE IInv'
  OBVIOUS
<1>1. Types /\ Calm /\ Fresh /\ Linked /\ OutcomeExplained /\ OldClientReleased /\ Local
  BY DEF IInv, Local
<1>2. UNCHANGED <<setup, attempt, stage, outcome, agreed, slot, dialled, up, down, left, lost,
                  handler, control, offer, granted, opened, streams, dropped, shutdown, cut, why,
                  disturbed>>
  BY DEF vars, clientVars, serverVars
<1>3. Types'
  BY <1>1, <1>2 DEF Types, Over
<1>4. Calm' /\ Fresh' /\ OldClientReleased'
  BY <1>1, <1>2 DEF Calm, Fresh, OldClientReleased
<1>5. Linked' /\ OutcomeExplained'
  BY <1>1, <1>2 DEF Linked, LinkedAt, Quic, OutcomeExplained
<1>6. CASE stage \in Talking
  BY <1>1, <1>2, <1>3, <1>4, <1>5, <1>6, LocalKept DEF IInv, Local, Kept
<1>7. CASE stage \notin Talking
  BY <1>2, <1>3, <1>4, <1>5, <1>7 DEF IInv, Agreed, Talking
<1>. QED BY <1>6, <1>7

\* The invariant: every connection has been dialled, serve_control is where its
\* handler says, and the two ends of the current attempt are at matching points of
\* the dialogue (client.rs run_session, server/accept.rs, server/control.rs).
THEOREM Invariance == Spec => []IInv
<1>1. Init => IInv
  BY InitHolds
<1>2. IInv /\ [Next]_vars => IInv'
  <2>. SUFFICES ASSUME IInv, [Next]_vars PROVE IInv'
    OBVIOUS
  <2>1. CASE Attempt \/ ConnectTcp \/ ConnectQuic
    BY <2>1, AttemptStep, ConnectStep
  <2>2. CASE ClientStep
    BY <2>2, OpenControlStreamStep, TlsConnectedStep, UpgradedStep, ReadServerHelloStep,
       ReadAuthOkStep, EndStep DEF ClientStep
  <2>3. CASE ProxyRefuses \/ ClientTimeout \/ ClientCancel
    BY <2>3, EndStep
  <2>4. CASE OpenDataStream
    <3>1. attempt \in Attempts
      BY <2>4 DEF OpenDataStream, IInv, Types, Talking
    <3>. QED BY <3>1, <2>4, StreamStep
  <2>5. ASSUME NEW n \in Attempts, HandlerStep(n) PROVE IInv'
    BY <2>5, AcceptTlsStep, TlsAcceptedStep, UpgradeWebsocketStep, AcceptControlStreamStep,
       ReadFirstStep, HandlerEndStep, StreamStep, QuicAcceptFailsStep, QuicCloseStep, QuicJoinStep
    DEF HandlerStep
  <2>6. ASSUME NEW n \in Attempts, ControlStep(n) PROVE IInv'
    BY <2>6, ControlHelloStep, ControlAuthStep, ControlRejectStep, ControlEnterStep,
       ControlWelcomeStep, ControlBreaksStep, ControlDrainStep
    DEF ControlStep
  <2>7. ASSUME NEW n \in Attempts,
               StreamEnds(n) \/ HandlerTimeout(n) \/ ControlTimeout(n) \/ Lose(n)
        PROVE  IInv'
    BY <2>7, StreamStep, HandlerEndStep, ControlBreaksStep, LoseStep
  <2>8. CASE Shutdown \/ ForceStop
    BY <2>8, ShutdownStep, ForceStopStep
  <2>9. CASE UNCHANGED vars
    BY <2>9, StutterStep
  <2>. QED BY <2>1, <2>2, <2>3, <2>4, <2>5, <2>6, <2>7, <2>8, <2>9 DEF Next
<1>. QED BY <1>1, <1>2, PTL DEF Spec

\* control.rs, for any releases and any number of attempts: a client in a Session
\* is served by the server or was, and both have the same capabilities, although
\* each has intersected the two sets for itself.
THEOREM NoPhantomSession == Spec => []SessionAgreed
<1>1. IInv => SessionAgreed
  <2>. SUFFICES ASSUME IInv, stage = "session" PROVE /\ agreed = granted[attempt]
                                                    /\ agreed \subseteq setup.client.caps \cap setup.server.caps
                                                    /\ control[attempt] \in {"serving", "ended"}
    BY DEF SessionAgreed
  <2>1. Types /\ Linked /\ Agreed /\ Dialogue /\ attempt \in Attempts
    BY DEF IInv, Talking, Types
  <2>2. agreed = granted[attempt] /\ agreed \subseteq setup.client.caps \cap setup.server.caps
    BY <2>1 DEF Agreed, Greeted
  <2>3. /\ control[attempt] \in Controls /\ handler[attempt] \in Handlers /\ LinkedAt(attempt)
    BY <2>1 DEF Types, Linked
  <2>4. handler[attempt] \notin Waits
    BY <2>1, DoneFromWaiting
  <2>5. control[attempt] # "none"
    BY <2>1, <2>3, <2>4 DEF LinkedAt, Handlers, Dialogue, AtDone
  <2>6. control[attempt] \in {"serving", "ended"}
    BY <2>1, <2>3, <2>5 DEF Controls, Dialogue, AtHello, AtAuth, AtRejecting, AtEnter, Says
  <2>. QED BY <2>2, <2>6
<1>. QED BY <1>1, Invariance, PTL

\* client/reconnect.rs: a client gives up for good only on a verdict about its
\* token or source, or of its proxy, and no attempt fails without a reason, be it
\* the server's or a disturbance, over every transport.
THEOREM FailuresHaveReasons == Spec => []OutcomeExplained
<1>1. IInv => OutcomeExplained
  BY DEF IInv
<1>. QED BY <1>1, Invariance, PTL

\* accept.rs and reconnect.rs: a data stream task is joined by its handler before
\* that ends, or has been told to stop by a handler that could not, and a QUIC
\* client never outlives its attempt.
THEOREM NoOrphans == Spec => []TasksOwned
<1>1. IInv => TasksOwned
  BY DEF IInv, TasksOwned, StreamsOwned, Linked, LinkedAt
<1>. QED BY <1>1, Invariance, PTL

=============================================================================
