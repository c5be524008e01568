------------------------------ MODULE CliProofs ------------------------------
(***************************************************************************)
(* What check says, what the library is given and who is let in, for every *)
(* file, every content of the inputs and every moment at which they change.*)
(*                                                                         *)
(* The inputs are read one at a time.  While none has changed, the ones    *)
(* already read are those a single look at the file and the inputs would   *)
(* give: what an invocation meets is then a function of the two (Meets),   *)
(* and check and start have it in common.  Whatever changes, an input was  *)
(* judged by the bytes that were taken, not by its metadata.               *)
(***************************************************************************)
EXTENDS Cli, SequenceTheorems, WellFoundedInduction, TLAPS

(***************************************************************************)
(* What an invocation meets if file f and inputs w stay as they are.       *)
(***************************************************************************)
InputError(i, w) ==
  LET m == Held(i, w)
  IN  IF IsVariable(i.field) THEN VariableError(i, m)
      ELSE IF StatError(m) # "ok" THEN StatError(m) ELSE BytesError(m)

\* The first of the inputs that cannot be used decides.
InputChecks(c, w) ==
  [k \in DOMAIN Inputs(c) |->
     <<InputError(Inputs(c)[k], w) = "ok", InputError(Inputs(c)[k], w)>>]

\* The fields of the first p inputs, what they hold, and the inputs after them.
FieldsRead(c, p) == {Inputs(c)[k].field : k \in 1..p}
Snapshot(c, w, p) == [f \in FieldsRead(c, p) |-> Held(Input(f, c), w)]
Rest(c, p) == SubSeq(Inputs(c), p + 1, Len(Inputs(c)))

Foreseen(verb, c, w) ==
  IF Structure(verb, c) # "ok" THEN Structure(verb, c)
  ELSE IF FirstError(InputChecks(c, w)) # "ok" THEN FirstError(InputChecks(c, w))
  ELSE IF ~ServicesResolve(c) THEN "config_resolution"
  ELSE IF Validates(c, Snapshot(c, w, Len(Inputs(c)))) THEN "ok"
  ELSE Category("Configuration")

Meets(k, f, w) ==
  IF f = Unreadable THEN "config_parse"
  ELSE IF ~Overridable(f, k.over) THEN "config_resolution"
  ELSE Foreseen(k.verb, Overridden(f, k.over), w)

\* What check makes of them.
Check == [verb |-> "check", over |-> Empty]
Report(f, w) ==
  [verdict |-> Meets(Check, f, w),
   options |-> IF f = Unreadable THEN None ELSE Options(Overridden(f, Empty))]

(***************************************************************************)
(* The inductive invariant.                                                *)
(***************************************************************************)
Before == {"idle", "parse", "resolve", "inputs", "read", "build", "open", "failed"}
Resolved == {"inputs", "read", "build", "open"}
Looping == {"loop", "stopping", "exited"}

Typed ==
  /\ file \in Files \cup Spoiled
  /\ DOMAIN world = DOMAIN World
  /\ \A n \in DOMAIN World : Given(world[n]) => world[n].len \in Nat
  /\ cmd \in Commands \cup {None} /\ (pc # "idle" => cmd \in Commands)
  /\ pc \in Before \cup Looping \cup {"up", "killed"}

\* What each stage of an invocation has and has not done.
Staged ==
  /\ pc \in {"idle", "parse"} => cfg = None
  /\ pc \in {"idle", "parse", "resolve"} => taken = Empty
  /\ pc \in {"resolve"} \cup Resolved => DOMAIN cfg = FileFields
  /\ pc \in {"build", "open"} => cmd.verb # "check"
  /\ pc \in Before => running = None /\ policy = BindPolicyDefault /\ binds = {}
  /\ pc \in Looping => touched
  /\ cmd = None => checked = None
  /\ pc \in {"parse", "resolve", "up"} \cup Resolved => verdict = "ok"

\* How far the reading of the inputs has come.
Halfway ==
  pc \in {"inputs", "read"} =>
    \E p \in 0..Len(Inputs(cfg)) :
      /\ todo = Rest(cfg, p)
      /\ DOMAIN taken = FieldsRead(cfg, p)
      /\ pc = "read" => p < Len(Inputs(cfg)) /\ ~IsVariable(Inputs(cfg)[p + 1].field)
      /\ ~touched =>
           /\ \A k \in 1..p : InputError(Inputs(cfg)[k], world) = "ok"
           /\ taken = Snapshot(cfg, world, p)
           /\ pc = "read" => StatError(Held(Inputs(cfg)[p + 1], world)) = "ok"

\* What was taken is usable, whatever has changed.
Usable ==
  /\ \A f \in DOMAIN taken :
       /\ f = "token_env" => SecretToken(taken[f])
       /\ ~IsVariable(f) => taken[f].len \in 1..MaxFrameBytes
  /\ pc \in {"build", "open"} => "token_env" \in DOMAIN taken

\* While nothing has changed, the invocation does as foreseen.
Foretold ==
  ~touched =>
    /\ pc \in {"resolve"} \cup Resolved =>
         /\ file # Unreadable /\ Overridable(file, cmd.over)
         /\ cfg = Overridden(file, cmd.over)
    /\ pc \in Resolved => Structure(cmd.verb, cfg) = "ok"
    /\ pc \in {"build", "open", "up"} => Meets(cmd, file, world) = "ok"
    /\ pc = "up" => file # Unreadable /\ running = Options(Overridden(file, cmd.over))
    /\ pc = "failed" /\ cmd.interval >= MinSnapshotInterval =>
         IF Meets(cmd, file, world) = "ok"
         THEN verdict \in {"tls_material", "runtime_start"}
         ELSE verdict = Meets(cmd, file, world)
    /\ Given(checked) => checked = Report(file, world)

\* Public binds are asked for before they are configured, permitted and made.
Consented ==
  /\ pc \in {"resolve"} \cup Resolved => (cfg.allow_public_service_binds => asked)
  /\ policy.allow_public => asked
  /\ PublicOnlyByConsent

IInv == Typed /\ Staged /\ Halfway /\ Usable /\ Foretold /\ Consented

(***************************************************************************)
(* Ordered checks.                                                         *)
(***************************************************************************)
\* A set of naturals has a least element.
LEMMA LeastCheck ==
  ASSUME NEW T \in SUBSET Nat, T # {}
  PROVE  \E x \in T : \A y \in T : x <= y
  <1> DEFINE Below == {p \in Nat \X Nat : p[1] < p[2]}
  <1>1. IsWellFoundedOn(Below, Nat) BY NatLessThanWellFounded DEF OpToRel
  <1>2. PICK x \in T : \A y \in T : ~(<<y, x>> \in Below)
    <2> HIDE DEF Below
    <2> QED BY <1>1, WFMin
  <1>3. \A y \in T : x <= y
    <2> SUFFICES ASSUME NEW y \in T PROVE x <= y OBVIOUS
    <2>1. ~(<<y, x>> \in Below) BY <1>2
    <2> QED BY <2>1
  <1> QED BY <1>3

\* The first check that fails decides ...
LEMMA FirstFails ==
  ASSUME NEW n \in Nat, NEW checks, DOMAIN checks = 1..n, NEW i \in 1..n,
         ~checks[i][1], \A j \in 1..(i - 1) : checks[j][1]
  PROVE  FirstError(checks) = checks[i][2]
  <1> DEFINE failed == {k \in DOMAIN checks : ~checks[k][1]}
             least == CHOOSE k \in failed : \A j \in failed : k <= j
  <1>1. i \in failed /\ \A j \in failed : i <= j OBVIOUS
  <1>2. least \in failed /\ \A j \in failed : least <= j BY <1>1
  <1>3. least = i BY <1>1, <1>2
  <1> QED BY <1>1, <1>3 DEF FirstError

\* ... and there is no error if and only if none fails.
LEMMA NoneFails ==
  ASSUME NEW n \in Nat, NEW checks, DOMAIN checks = 1..n,
         \A i \in 1..n : ~checks[i][1] => checks[i][2] # "ok"
  PROVE  FirstError(checks) = "ok" <=> \A i \in 1..n : checks[i][1]
  <1> DEFINE failed == {k \in DOMAIN checks : ~checks[k][1]}
  <1>1. CASE failed = {} BY <1>1 DEF FirstError
  <1>2. CASE failed # {}
    <2>1. failed \in SUBSET Nat OBVIOUS
    <2>2. PICK i \in failed : \A j \in failed : i <= j BY <1>2, <2>1, LeastCheck
    <2>3. i \in 1..n /\ ~checks[i][1] BY <2>2
    <2>4. \A j \in 1..(i - 1) : checks[j][1] BY <2>2, <2>3
    <2>5. FirstError(checks) = checks[i][2]
      <3> HIDE DEF failed
      <3> QED BY <2>3, <2>4, FirstFails
    <2> QED BY <2>3, <2>5
  <1> QED BY <1>1, <1>2

\* load_token_with: a token that is taken is one the library accepts.
LEMMA TokenJudged ==
  ASSUME NEW i, NEW v, i.field = "token_env", VariableError(i, v) = "ok"
  PROVE  SecretToken(v)
  <1> DEFINE checks == <<
         <<i.name # [name |-> ""], "config_resolution">>,
         <<Given(v), "missing_secret_reference">>,
         <<Given(v) => SecretToken(v), "config_resolution">> >>
  <1>1. FirstError(checks) = "ok" BY DEF VariableError
  <1>2. DOMAIN checks = 1..3 /\ \A k \in 1..3 : ~checks[k][1] => checks[k][2] # "ok" OBVIOUS
  <1>3. \A k \in 1..3 : checks[k][1]
    <2> HIDE DEF checks
    <2> QED BY <1>1, <1>2, NoneFails
  <1>4. 2 \in 1..3 /\ 3 \in 1..3 OBVIOUS
  <1>5. checks[2][1] /\ checks[3][1]
    <2> HIDE DEF checks
    <2> QED BY <1>3, <1>4
  <1> QED BY <1>5

\* read_material: what is read is judged itself.
LEMMA BytesJudged ==
  ASSUME NEW m, Given(m) => m.len \in Nat, BytesError(m) = "ok"
  PROVE  m.len \in 1..MaxFrameBytes
  <1> DEFINE checks == <<
         <<Given(m), "config_resolution">>,
         <<Given(m) => m.readable /\ ~m.dir, "config_resolution">>,
         <<Given(m) => m.len <= MaxFrameBytes, "tls_material">>,
         <<Given(m) => m.len # 0, "tls_material">> >>
  <1>1. FirstError(checks) = "ok" BY DEF BytesError
  <1>2. DOMAIN checks = 1..4 /\ \A k \in 1..4 : ~checks[k][1] => checks[k][2] # "ok" OBVIOUS
  <1>3. \A k \in 1..4 : checks[k][1]
    <2> HIDE DEF checks
    <2> QED BY <1>1, <1>2, NoneFails
  <1>4. 1 \in 1..4 /\ 3 \in 1..4 /\ 4 \in 1..4 OBVIOUS
  <1>5. checks[1][1] /\ checks[3][1] /\ checks[4][1]
    <2> HIDE DEF checks
    <2> QED BY <1>3, <1>4
  <1>6. m.len \in Nat /\ m.len <= MaxFrameBytes /\ m.len # 0
    <2>1. Given(m) BY <1>5
    <2>2. m.len <= MaxFrameBytes BY <1>5, <2>1
    <2>3. m.len # 0 BY <1>5, <2>1
    <2> QED BY <2>1, <2>2, <2>3
  <1>7. MaxFrameBytes \in Nat BY DEF MaxFrameBytes
  <1> QED BY <1>6, <1>7

(***************************************************************************)
(* The inputs, in order.                                                   *)
(***************************************************************************)
Slots(c) == {Input(f, c) : f \in InputFields}

LEMMA OneOrNone ==
  ASSUME NEW c, NEW f \in InputFields
  PROVE  Optional(f, c) \in Seq(Slots(c))
  <1>1. Input(f, c) \in Slots(c) BY DEF Slots
  <1>2. <<Input(f, c)>> \in Seq(Slots(c)) /\ <<>> \in Seq(Slots(c)) BY <1>1
  <1> QED BY <1>2 DEF Optional

\* The token comes first, and every input is the one its field names.
LEMMA InputsShape ==
  ASSUME NEW c
  PROVE  /\ Inputs(c) \in Seq(Slots(c)) /\ Len(Inputs(c)) \in Nat \ {0}
         /\ DOMAIN Inputs(c) = 1..Len(Inputs(c))
         /\ Inputs(c)[1].field = "token_env"
  <1>1. \A f \in InputFields : Input(f, c) \in Slots(c) BY DEF Slots
  <1>2. CASE c.mode = "client"
    <2> DEFINE t == <<Input("token_env", c)>>
               o1 == Optional("ca_cert", c)
               o2 == Optional("outbound_proxy_env", c)
               o3 == Optional("client_cert", c)
               o4 == Optional("client_key", c)
    <2>1. t \in Seq(Slots(c)) /\ Len(t) = 1 /\ t[1].field = "token_env"
      BY <1>1 DEF InputFields, Input
    <2>2. /\ o1 \in Seq(Slots(c)) /\ o2 \in Seq(Slots(c))
          /\ o3 \in Seq(Slots(c)) /\ o4 \in Seq(Slots(c))
      BY OneOrNone DEF InputFields
    <2>3. Inputs(c) = t \o o1 \o o2 \o o3 \o o4 BY <1>2 DEF Inputs, ClientInputs
    <2> HIDE DEF t, o1, o2, o3, o4
    <2>4. ASSUME NEW s \in Seq(Slots(c)), NEW o \in Seq(Slots(c)), Len(s) >= 1, s[1].field = "token_env"
          PROVE  s \o o \in Seq(Slots(c)) /\ Len(s \o o) >= 1 /\ (s \o o)[1].field = "token_env"
      BY <2>4, ConcatProperties
    <2>5. t \o o1 \in Seq(Slots(c)) /\ Len(t \o o1) >= 1 /\ (t \o o1)[1].field = "token_env"
      BY <2>1, <2>2, <2>4
    <2>6. /\ t \o o1 \o o2 \in Seq(Slots(c)) /\ Len(t \o o1 \o o2) >= 1
          /\ (t \o o1 \o o2)[1].field = "token_env"
      BY <2>2, <2>4, <2>5
    <2>7. /\ t \o o1 \o o2 \o o3 \in Seq(Slots(c)) /\ Len(t \o o1 \o o2 \o o3) >= 1
          /\ (t \o o1 \o o2 \o o3)[1].field = "token_env"
      BY <2>2, <2>4, <2>6
    <2>8. /\ Inputs(c) \in Seq(Slots(c)) /\ Len(Inputs(c)) >= 1
          /\ Inputs(c)[1].field = "token_env"
      BY <2>2, <2>3, <2>4, <2>7
    <2> QED BY <2>8
  <1>3. CASE c.mode # "client"
    <2> DEFINE t == <<Input("token_env", c), Input("tls_cert", c), Input("tls_key", c)>>
               o == Optional("client_ca", c)
    <2>1. t \in Seq(Slots(c)) /\ Len(t) = 3 /\ t[1].field = "token_env"
      BY <1>1 DEF InputFields, Input
    <2>2. o \in Seq(Slots(c)) BY OneOrNone DEF InputFields
    <2>3. Inputs(c) = t \o o BY <1>3 DEF Inputs, ServerInputs
    <2> HIDE DEF t, o
    <2>4. /\ Inputs(c) \in Seq(Slots(c)) /\ Len(Inputs(c)) >= 1
          /\ Inputs(c)[1].field = "token_env"
      BY <2>1, <2>2, <2>3, ConcatProperties
    <2> QED BY <2>4
  <1> QED BY <1>2, <1>3

LEMMA InputOfField ==
  ASSUME NEW c, NEW k \in 1..Len(Inputs(c))
  PROVE  /\ Inputs(c)[k] = Input(Inputs(c)[k].field, c)
         /\ Inputs(c)[k].field \in InputFields
  <1>1. Inputs(c)[k] \in Slots(c) BY InputsShape, ElementOfSeq
  <1>2. PICK f \in InputFields : Inputs(c)[k] = Input(f, c) BY <1>1 DEF Slots
  <1> QED BY <1>2 DEF Input

\* Reading starts with all of them, and takes them one by one.
LEMMA RestStarts ==
  ASSUME NEW c
  PROVE  Rest(c, 0) = Inputs(c) /\ FieldsRead(c, 0) = {}
  <1>1. Inputs(c) \in Seq(Slots(c)) BY InputsShape
  <1>2. SubSeq(Inputs(c), 1, Len(Inputs(c))) = Inputs(c) BY <1>1, SubSeqFull
  <1> QED BY <1>2 DEF Rest, FieldsRead

LEMMA RestMoves ==
  ASSUME NEW c, NEW p \in 0..Len(Inputs(c))
  PROVE  /\ Rest(c, p) = <<>> <=> p = Len(Inputs(c))
         /\ p < Len(Inputs(c)) =>
              /\ Head(Rest(c, p)) = Inputs(c)[p + 1]
              /\ Tail(Rest(c, p)) = Rest(c, p + 1)
              /\ FieldsRead(c, p + 1) = FieldsRead(c, p) \cup {Inputs(c)[p + 1].field}
  <1> DEFINE s == Inputs(c)
             n == Len(Inputs(c))
  <1>1. s \in Seq(Slots(c)) /\ n \in Nat BY InputsShape
  <1>2. \A k \in (p + 1)..n : s[k] \in Slots(c) BY <1>1, ElementOfSeq
  <1>3. Rest(c, p) = <<>> <=> p = n
    <2> HIDE DEF s, n
    <2>1. Len(Rest(c, p)) = IF p + 1 <= n THEN n - (p + 1) + 1 ELSE 0
      BY <1>1, <1>2, SubSeqProperties DEF Rest, s, n
    <2>2. Rest(c, p) \in Seq(Slots(c)) BY <1>1, <1>2, SubSeqProperties DEF Rest, s, n
    <2>3. p \in 0..n BY DEF n
    <2> QED BY <1>1, <2>1, <2>2, <2>3, EmptySeq DEF n
  <1>4. ASSUME p < n
        PROVE  Head(Rest(c, p)) = s[p + 1] /\ Tail(Rest(c, p)) = Rest(c, p + 1)
    <2>1. p + 1 \in 1..Len(s) /\ Len(s) \in (p + 1)..Len(s) BY <1>1, <1>4
    <2>2. /\ Head(SubSeq(s, p + 1, Len(s))) = s[p + 1]
          /\ Tail(SubSeq(s, p + 1, Len(s))) = SubSeq(s, p + 1 + 1, Len(s))
      BY <1>1, <2>1, HeadTailOfSubSeq
    <2> QED BY <2>2 DEF Rest
  <1>5. ASSUME p < n PROVE FieldsRead(c, p + 1) = FieldsRead(c, p) \cup {s[p + 1].field}
    <2>1. 1..(p + 1) = (1..p) \cup {p + 1} BY <1>1, <1>5
    <2> QED BY <2>1 DEF FieldsRead
  <1> QED BY <1>3, <1>4, <1>5

(***************************************************************************)
(* What is foreseen, from how far the reading has come.                    *)
(***************************************************************************)
LEMMA ChecksShape ==
  ASSUME NEW c, NEW w
  PROVE  /\ DOMAIN InputChecks(c, w) = 1..Len(Inputs(c)) /\ Len(Inputs(c)) \in Nat
         /\ \A k \in 1..Len(Inputs(c)) :
              /\ InputChecks(c, w)[k][1] <=> InputError(Inputs(c)[k], w) = "ok"
              /\ InputChecks(c, w)[k][2] = InputError(Inputs(c)[k], w)
  <1>1. DOMAIN Inputs(c) = 1..Len(Inputs(c)) /\ Len(Inputs(c)) \in Nat BY InputsShape
  <1> QED BY <1>1 DEF InputChecks

\* An input that cannot be used, after others that can, is what is met.
LEMMA MeetsInput ==
  ASSUME NEW verb, NEW c, NEW w, NEW p \in 0..Len(Inputs(c)), p < Len(Inputs(c)),
         Structure(verb, c) = "ok",
         \A k \in 1..p : InputError(Inputs(c)[k], w) = "ok",
         InputError(Inputs(c)[p + 1], w) # "ok"
  PROVE  Foreseen(verb, c, w) = InputError(Inputs(c)[p + 1], w)
  <1> DEFINE n == Len(Inputs(c))
             checks == InputChecks(c, w)
  <1>1. n \in Nat /\ DOMAIN checks = 1..n BY ChecksShape
  <1>2. p + 1 \in 1..n /\ (p + 1) - 1 = p BY <1>1
  <1>3. ~checks[p + 1][1] /\ checks[p + 1][2] = InputError(Inputs(c)[p + 1], w)
    BY <1>2, ChecksShape
  <1>4. \A j \in 1..((p + 1) - 1) : checks[j][1] BY <1>1, <1>2, ChecksShape
  <1>5. FirstError(checks) = checks[p + 1][2]
    <2> HIDE DEF checks, n
    <2> QED BY <1>1, <1>2, <1>3, <1>4, FirstFails
  <1> QED BY <1>3, <1>5 DEF Foreseen

\* When all can be used, the library decides.
LEMMA MeetsLibrary ==
  ASSUME NEW verb, NEW c, NEW w, Structure(verb, c) = "ok",
         \A k \in 1..Len(Inputs(c)) : InputError(Inputs(c)[k], w) = "ok"
  PROVE  Foreseen(verb, c, w) =
           IF ~ServicesResolve(c) THEN "config_resolution"
           ELSE IF Validates(c, Snapshot(c, w, Len(Inputs(c)))) THEN "ok"
           ELSE Category("Configuration")
  <1> DEFINE n == Len(Inputs(c))
             checks == InputChecks(c, w)
  <1>1. n \in Nat /\ DOMAIN checks = 1..n BY ChecksShape
  <1>2. \A k \in 1..n : checks[k][1] BY ChecksShape
  <1>3. FirstError(checks) = "ok"
    <2> HIDE DEF checks, n
    <2> QED BY <1>1, <1>2, NoneFails
  <1> QED BY <1>3 DEF Foreseen

(***************************************************************************)
(* The end of an invocation.                                               *)
(***************************************************************************)
Unmoved == UNCHANGED <<inputVars, cmd, running, policy, loopVars>>

LEMMA Unmoving ==
  ASSUME Unmoved
  PROVE  /\ file' = file /\ world' = world /\ touched' = touched /\ cmd' = cmd
         /\ running' = running /\ policy' = policy /\ binds' = binds
  BY DEF Unmoved, inputVars, loopVars, bindVars

\* The verdict v that ends the invocation is the one foreseen, if nothing changed.
AsForeseen(v) ==
  ~touched =>
    /\ IF Meets(cmd, file, world) = "ok"
       THEN v \in {"tls_material", "runtime_start"} \/ (cmd.verb = "check" /\ v = "ok")
       ELSE v = Meets(cmd, file, world)
    /\ cmd.verb = "check" => v = Meets(cmd, file, world)
    /\ cmd.verb = "check" =>
         IF file = Unreadable THEN cfg = None
         ELSE Given(cfg) /\ cfg = Overridden(file, cmd.over)

LEMMA EndForetold ==
  ASSUME IInv, pc \in {"parse", "resolve"} \cup Resolved, NEW v, End(v), Unmoved, AsForeseen(v)
  PROVE  Foretold'
  <1> SUFFICES ASSUME ~touched
               PROVE  /\ pc' = "failed" /\ cmd.interval >= MinSnapshotInterval =>
                           IF Meets(cmd, file, world) = "ok"
                           THEN verdict' \in {"tls_material", "runtime_start"}
                           ELSE verdict' = Meets(cmd, file, world)
                      /\ Given(checked') => checked' = Report(file, world)
    <2>1. pc' \in {"idle", "failed"} BY DEF End
    <2> QED BY <2>1, Unmoving DEF Foretold, Resolved
  <1>1. cmd \in Commands BY DEF IInv, Typed, Resolved
  <1>2. CASE cmd.verb = "check"
    <2>1. cmd.over = Empty BY <1>1, <1>2, CliAssumption
    <2>2. Meets(cmd, file, world) = Meets(Check, file, world) BY <1>2, <2>1 DEF Meets, Check
    <2>3. v = Meets(Check, file, world) BY <1>2, <2>2 DEF AsForeseen
    <2>4. (IF Given(cfg) THEN Options(cfg) ELSE None)
            = (IF file = Unreadable THEN None ELSE Options(Overridden(file, Empty)))
      BY <1>2, <2>1 DEF AsForeseen, Given
    <2>5. /\ pc' = "idle"
          /\ checked' = [verdict |-> v, options |-> IF Given(cfg) THEN Options(cfg) ELSE None]
      BY <1>2 DEF End
    <2> QED BY <2>3, <2>4, <2>5 DEF Report
  <1>3. CASE cmd.verb # "check"
    <2>1. verdict' = v /\ checked' = checked BY <1>3 DEF End
    <2>2. Given(checked) => checked = Report(file, world) BY DEF IInv, Foretold
    <2> QED BY <1>3, <2>1, <2>2 DEF AsForeseen
  <1> QED BY <1>2, <1>3

LEMMA EndKeeps ==
  ASSUME IInv, pc \in {"parse", "resolve"} \cup Resolved, NEW v, End(v), Unmoved, AsForeseen(v)
  PROVE  IInv'
  <1>0. /\ pc' \in {"idle", "failed"} /\ cfg' = None /\ taken' = Empty /\ asked' = asked
        /\ (pc' = "idle" <=> cmd.verb = "check")
    BY DEF End
  <1>1. Typed' BY <1>0, Unmoving DEF IInv, Typed, Before, Looping, Resolved
  <1>2. Staged'
    <2>1. cmd \in Commands BY DEF IInv, Typed, Resolved
    <2>2. cmd # None BY <2>1, CliAssumption DEF Given
    <2> QED BY <1>0, <2>2, Unmoving DEF IInv, Staged, Before, Looping, Resolved
  <1>3. Halfway' BY <1>0 DEF Halfway
  <1>4. Usable'
    <2>1. DOMAIN taken' = {} BY <1>0 DEF Empty
    <2> QED BY <1>0, <2>1 DEF Usable
  <1>5. Foretold' BY EndForetold
  <1>6. Consented'
    BY <1>0, Unmoving DEF IInv, Consented, PublicOnlyByConsent, Resolved
  <1> QED BY <1>1, <1>2, <1>3, <1>4, <1>5, <1>6 DEF IInv

(***************************************************************************)
(* The configuration is read.                                              *)
(***************************************************************************)
LEMMA OverriddenShape ==
  ASSUME NEW c, DOMAIN c = FileFields, NEW o
  PROVE  /\ DOMAIN Overridden(c, o) = FileFields
         /\ Overridden(c, o).allow_public_service_binds =>
              c.allow_public_service_binds \/ "allow_public_service_binds" \in DOMAIN o
  <1> DEFINE flags == [f \in DOMAIN c |-> IF f \in DOMAIN o THEN o[f] ELSE c[f]]
             only == <<[flags.services[1] EXCEPT !.bind_port = o["bind_port"]]>>
  <1>1. /\ DOMAIN flags = FileFields
        /\ flags.allow_public_service_binds =>
             c.allow_public_service_binds \/ "allow_public_service_binds" \in DOMAIN o
    BY DEF FileFields
  <1>2. Overridden(c, o) = IF "bind_port" \in DOMAIN o THEN [flags EXCEPT !.services = only] ELSE flags
    BY DEF Overridden
  <1> HIDE DEF flags, only
  <1> QED BY <1>1, <1>2 DEF FileFields

LEMMA ConfigGiven ==
  ASSUME NEW c, DOMAIN c = FileFields
  PROVE  Given(c)
  <1>1. "mode" \in DOMAIN c BY DEF FileFields
  <1>2. DOMAIN None = {"kind"} BY DEF None
  <1> QED BY <1>1, <1>2 DEF Given

LEMMA ReadConfigStep ==
  ASSUME IInv, ReadConfig
  PROVE  IInv'
  <1>0. pc = "parse" /\ Unmoved BY DEF ReadConfig, Unmoved
  <1>1. cmd \in Commands /\ file \in Files \cup Spoiled BY <1>0 DEF IInv, Typed
  <1>2. CASE file = Unreadable
    <2>1. End("config_parse") BY <1>2 DEF ReadConfig
    <2>2. AsForeseen("config_parse") BY <1>0, <1>2 DEF AsForeseen, Meets, IInv, Staged
    <2> QED BY <1>0, <2>1, <2>2, EndKeeps
  <1>3. CASE file # Unreadable /\ ~Overridable(file, cmd.over)
    <2>1. End("config_resolution") BY <1>3 DEF ReadConfig
    <2>2. cmd.verb # "check"
      <3>1. cmd.over = Empty => Overridable(file, cmd.over) BY DEF Overridable, Empty
      <3> QED BY <1>1, <1>3, <3>1, CliAssumption
    <2>3. AsForeseen("config_resolution") BY <1>3, <2>2 DEF AsForeseen, Meets
    <2> QED BY <1>0, <2>1, <2>3, EndKeeps
  <1>4. CASE file # Unreadable /\ Overridable(file, cmd.over)
    <2>1. /\ cfg' = Overridden(file, cmd.over) /\ pc' = "resolve" /\ checked' = checked
          /\ verdict' = verdict /\ todo' = todo /\ taken' = taken
          /\ asked' = (\/ file.allow_public_service_binds
                       \/ "allow_public_service_binds" \in DOMAIN cmd.over)
      BY <1>4 DEF ReadConfig
    <2>2. DOMAIN file = FileFields BY <1>1, <1>4, CliAssumption
    <2>3. DOMAIN cfg' = FileFields /\ (cfg'.allow_public_service_binds => asked')
      BY <2>1, <2>2, OverriddenShape
    <2>4. Typed' BY <1>0, <2>1, Unmoving DEF IInv, Typed, Before
    <2>5. Staged'
      BY <1>0, <2>1, <2>3, Unmoving DEF IInv, Staged, Before, Looping, Resolved
    <2>6. Halfway' BY <2>1 DEF Halfway
    <2>7. Usable' BY <1>0, <2>1 DEF IInv, Usable
    <2>8. Foretold' BY <1>0, <1>4, <2>1, Unmoving DEF IInv, Foretold, Resolved
    <2>9. Consented'
      <3>1. policy' = BindPolicyDefault /\ binds' = {} BY <1>0, Unmoving DEF IInv, Staged, Before
      <3>2. ~policy'.allow_public BY <3>1 DEF BindPolicyDefault
      <3> QED BY <2>1, <2>3, <3>1, <3>2 DEF Consented, PublicOnlyByConsent
    <2> QED BY <2>4, <2>5, <2>6, <2>7, <2>8, <2>9 DEF IInv
  <1> QED BY <1>2, <1>3, <1>4

\* What is met while nothing has changed is what is foreseen for the configuration.
LEMMA MeetsConfig ==
  ASSUME IInv, ~touched, pc \in {"resolve"} \cup Resolved
  PROVE  /\ Meets(cmd, file, world) = Foreseen(cmd.verb, cfg, world)
         /\ file # Unreadable /\ Given(cfg) /\ cfg = Overridden(file, cmd.over)
  <1>1. file # Unreadable /\ Overridable(file, cmd.over) /\ cfg = Overridden(file, cmd.over)
    BY DEF IInv, Foretold
  <1>2. DOMAIN cfg = FileFields BY DEF IInv, Staged
  <1> QED BY <1>1, <1>2, ConfigGiven DEF Meets

LEMMA EndAsForeseen ==
  ASSUME IInv, pc \in {"resolve"} \cup Resolved, NEW v,
         v # "ok" \/ cmd.verb = "check", ~touched => v = Foreseen(cmd.verb, cfg, world)
  PROVE  AsForeseen(v)
  BY MeetsConfig DEF AsForeseen

LEMMA ResolveStep ==
  ASSUME IInv, Resolve
  PROVE  IInv'
  <1> DEFINE v == Structure(cmd.verb, cfg)
  <1>0. pc = "resolve" /\ Unmoved BY DEF Resolve, Unmoved
  <1>1. CASE v # "ok"
    <2>1. End(v) BY <1>1 DEF Resolve
    <2>2. v = Foreseen(cmd.verb, cfg, world) BY <1>1 DEF Foreseen
    <2> HIDE DEF v
    <2> QED BY <1>0, <1>1, <2>1, <2>2, EndAsForeseen, EndKeeps
  <1>2. CASE v = "ok"
    <2>1. /\ todo' = Inputs(cfg) /\ pc' = "inputs" /\ checked' = checked /\ verdict' = verdict
          /\ cfg' = cfg /\ asked' = asked /\ taken' = taken
      BY <1>2 DEF Resolve
    <2>2. taken = Empty BY <1>0 DEF IInv, Staged
    <2>3. Typed' BY <1>0, <2>1, Unmoving DEF IInv, Typed, Before
    <2>4. Staged' BY <1>0, <2>1, Unmoving DEF IInv, Staged, Before, Looping, Resolved
    <2>5. Halfway'
      <3>1. 0 \in 0..Len(Inputs(cfg)) BY InputsShape
      <3>2. Rest(cfg, 0) = Inputs(cfg) /\ FieldsRead(cfg, 0) = {} BY RestStarts
      <3>3. DOMAIN taken = {} /\ taken = Snapshot(cfg, world, 0) BY <2>2, <3>2 DEF Empty, Snapshot
      <3> SUFFICES /\ todo' = Rest(cfg', 0)
                   /\ DOMAIN taken' = FieldsRead(cfg', 0)
                   /\ pc' # "read"
                   /\ \A k \in 1..0 : InputError(Inputs(cfg')[k], world') = "ok"
                   /\ taken' = Snapshot(cfg', world', 0)
        BY <2>1, <3>1 DEF Halfway
      <3> QED BY <1>0, <2>1, <3>2, <3>3, Unmoving
    <2>6. Usable' BY <2>1 DEF IInv, Usable
    <2>7. Foretold' BY <1>0, <1>2, <2>1, Unmoving DEF IInv, Foretold, Resolved
    <2>8. Consented'
      BY <1>0, <2>1, Unmoving DEF IInv, Consented, PublicOnlyByConsent, Resolved
    <2> QED BY <2>3, <2>4, <2>5, <2>6, <2>7, <2>8 DEF IInv
  <1> QED BY <1>1, <1>2

(***************************************************************************)
(* The inputs are read.                                                    *)
(***************************************************************************)
\* How far the reading has come, as a relation on the number p of inputs taken.
At(p) ==
  /\ p \in 0..Len(Inputs(cfg))
  /\ todo = Rest(cfg, p)
  /\ DOMAIN taken = FieldsRead(cfg, p)
  /\ pc = "read" => p < Len(Inputs(cfg)) /\ ~IsVariable(Inputs(cfg)[p + 1].field)
  /\ ~touched =>
       /\ \A k \in 1..p : InputError(Inputs(cfg)[k], world) = "ok"
       /\ taken = Snapshot(cfg, world, p)
       /\ pc = "read" => StatError(Held(Inputs(cfg)[p + 1], world)) = "ok"

LEMMA Position ==
  ASSUME IInv, pc \in {"inputs", "read"}
  PROVE  \E p : At(p)
  BY DEF IInv, Halfway, At

LEMMA NextInput ==
  ASSUME NEW p, At(p), todo # <<>>
  PROVE  /\ p \in Nat /\ p + 1 \in 1..Len(Inputs(cfg)) /\ p < Len(Inputs(cfg))
         /\ Head(todo) = Inputs(cfg)[p + 1]
  <1>1. p \in 0..Len(Inputs(cfg)) /\ Len(Inputs(cfg)) \in Nat /\ todo = Rest(cfg, p)
    BY InputsShape DEF At
  <1>2. p # Len(Inputs(cfg)) BY <1>1, RestMoves
  <1>3. p < Len(Inputs(cfg)) BY <1>1, <1>2
  <1> QED BY <1>1, <1>3, RestMoves

LEMMA HeldLength ==
  ASSUME IInv, NEW i
  PROVE  Given(Held(i, world)) => Held(i, world).len \in Nat
  BY DEF IInv, Typed, Held, Given

LEMMA TakeKeeps ==
  ASSUME IInv, pc \in {"inputs", "read"}, NEW p, At(p), todo # <<>>, NEW i, i = Inputs(cfg)[p + 1],
         Take(i), Unmoved,
         i.field = "token_env" => SecretToken(Held(i, world)),
         ~IsVariable(i.field) => Held(i, world).len \in 1..MaxFrameBytes,
         ~touched => InputError(i, world) = "ok"
  PROVE  IInv'
  <1>1. /\ todo' = Tail(todo) /\ pc' = "inputs" /\ checked' = checked /\ verdict' = verdict
        /\ cfg' = cfg /\ asked' = asked
        /\ taken' = [f \in DOMAIN taken \cup {i.field} |->
                       IF f = i.field THEN Held(i, world) ELSE taken[f]]
    BY DEF Take
  <1>2. p \in Nat /\ p + 1 \in 1..Len(Inputs(cfg)) /\ p < Len(Inputs(cfg)) BY NextInput
  <1>3. /\ todo' = Rest(cfg, p + 1)
        /\ FieldsRead(cfg, p + 1) = FieldsRead(cfg, p) \cup {i.field}
    <2>1. p \in 0..Len(Inputs(cfg)) /\ todo = Rest(cfg, p) BY DEF At
    <2> QED BY <1>1, <1>2, <2>1, RestMoves
  <1>4. i = Input(i.field, cfg) BY <1>2, InputOfField
  <1>5. DOMAIN taken' = FieldsRead(cfg, p + 1) BY <1>1, <1>3 DEF At
  <1>6. Typed' BY <1>1, Unmoving DEF IInv, Typed, Before
  <1>7. Staged' BY <1>1, Unmoving DEF IInv, Staged, Before, Looping, Resolved
  <1>8. Halfway'
    <2>1. ASSUME ~touched
          PROVE  /\ \A k \in 1..(p + 1) : InputError(Inputs(cfg)[k], world) = "ok"
                 /\ taken' = Snapshot(cfg, world, p + 1)
      <3>1. \A k \in 1..p : InputError(Inputs(cfg)[k], world) = "ok" BY <2>1 DEF At
      <3>2. \A k \in 1..(p + 1) : k \in 1..p \/ k = p + 1 BY <1>2
      <3>3. \A k \in 1..(p + 1) : InputError(Inputs(cfg)[k], world) = "ok"
        BY <2>1, <3>1, <3>2
      <3>4. taken = [f \in FieldsRead(cfg, p) |-> Held(Input(f, cfg), world)]
        BY <2>1 DEF At, Snapshot
      <3>5. taken' = [f \in FieldsRead(cfg, p + 1) |-> Held(Input(f, cfg), world)]
        BY <1>1, <1>3, <1>4, <3>4
      <3> QED BY <3>3, <3>5 DEF Snapshot
    <2>2. p + 1 \in 0..Len(Inputs(cfg)) BY <1>2
    <2> QED BY <1>1, <1>3, <1>5, <2>1, <2>2, Unmoving DEF Halfway
  <1>9. Usable'
    <2> SUFFICES ASSUME NEW f \in DOMAIN taken'
                 PROVE  /\ f = "token_env" => SecretToken(taken'[f])
                        /\ ~IsVariable(f) => taken'[f].len \in 1..MaxFrameBytes
      BY <1>1 DEF Usable
    <2>1. CASE f = i.field
      <3>1. taken'[f] = Held(i, world) BY <1>1, <2>1
      <3> QED BY <2>1, <3>1
    <2>2. CASE f # i.field
      <3>1. f \in DOMAIN taken /\ taken'[f] = taken[f] BY <1>1, <2>2
      <3> QED BY <3>1 DEF IInv, Usable
    <2> QED BY <2>1, <2>2
  <1>10. Foretold' BY <1>1, Unmoving DEF IInv, Foretold, Resolved
  <1>11. Consented' BY <1>1, Unmoving DEF IInv, Consented, PublicOnlyByConsent, Resolved
  <1> QED BY <1>6, <1>7, <1>8, <1>9, <1>10, <1>11 DEF IInv

\* An input that cannot be used ends the invocation as foreseen.
LEMMA RefusedKeeps ==
  ASSUME IInv, pc \in {"inputs", "read"}, NEW p, At(p), todo # <<>>, NEW v, v # "ok",
         End(v), Unmoved, ~touched => InputError(Inputs(cfg)[p + 1], world) = v
  PROVE  IInv'
  <1>1. p \in 0..Len(Inputs(cfg)) /\ p < Len(Inputs(cfg)) BY NextInput DEF At
  <1>2. ASSUME ~touched PROVE v = Foreseen(cmd.verb, cfg, world)
    <2>1. Structure(cmd.verb, cfg) = "ok" BY <1>2 DEF IInv, Foretold, Resolved
    <2>2. \A k \in 1..p : InputError(Inputs(cfg)[k], world) = "ok" BY <1>2 DEF At
    <2> QED BY <1>1, <1>2, <2>1, <2>2, MeetsInput
  <1>3. pc \in Resolved BY DEF Resolved
  <1>4. AsForeseen(v) BY <1>2, <1>3, EndAsForeseen
  <1> QED BY <1>3, <1>4, EndKeeps

LEMMA ReadVariableStep ==
  ASSUME IInv, ReadVariable
  PROVE  IInv'
  <1>0. pc = "inputs" /\ todo # <<>> /\ IsVariable(Head(todo).field) /\ Unmoved
    BY DEF ReadVariable, Unmoved
  <1>1. PICK p : At(p) BY <1>0, Position
  <1>2. PICK i : i = Inputs(cfg)[p + 1] OBVIOUS
  <1>3. PICK v : v = VariableError(i, Held(i, world)) OBVIOUS
  <1>4. Head(todo) = i BY <1>0, <1>1, <1>2, NextInput
  <1>5. InputError(i, world) = v BY <1>0, <1>3, <1>4 DEF InputError
  <1>6. IF v = "ok" THEN Take(i) ELSE End(v) BY <1>3, <1>4 DEF ReadVariable
  <1>7. CASE v = "ok"
    <2>1. i.field = "token_env" => SecretToken(Held(i, world)) BY <1>3, <1>7, TokenJudged
    <2> QED BY <1>0, <1>1, <1>2, <1>4, <1>5, <1>6, <1>7, <2>1, TakeKeeps
  <1>8. CASE v # "ok" BY <1>0, <1>1, <1>2, <1>5, <1>6, <1>8, RefusedKeeps
  <1> QED BY <1>7, <1>8

LEMMA StatFileStep ==
  ASSUME IInv, StatFile
  PROVE  IInv'
  <1>0. pc = "inputs" /\ todo # <<>> /\ ~IsVariable(Head(todo).field) /\ Unmoved
    BY DEF StatFile, Unmoved
  <1>1. PICK p : At(p) BY <1>0, Position
  <1>2. PICK i : i = Inputs(cfg)[p + 1] OBVIOUS
  <1>3. PICK v : v = StatError(Held(i, world)) OBVIOUS
  <1>4. Head(todo) = i /\ p < Len(Inputs(cfg)) BY <1>0, <1>1, <1>2, NextInput
  <1>5. CASE v # "ok"
    <2>1. End(v) BY <1>3, <1>4, <1>5 DEF StatFile
    <2>2. InputError(i, world) = v BY <1>0, <1>3, <1>4, <1>5 DEF InputError
    <2> QED BY <1>0, <1>1, <1>2, <1>5, <2>1, <2>2, RefusedKeeps
  <1>6. CASE v = "ok"
    <2>1. /\ pc' = "read" /\ checked' = checked /\ verdict' = verdict
          /\ cfg' = cfg /\ asked' = asked /\ todo' = todo /\ taken' = taken
      BY <1>3, <1>4, <1>6 DEF StatFile, resolveVars
    <2>2. Typed' BY <1>0, <2>1, Unmoving DEF IInv, Typed, Before
    <2>3. Staged' BY <1>0, <2>1, Unmoving DEF IInv, Staged, Before, Looping, Resolved
    <2>4. Halfway'
      <3>1. p \in 0..Len(Inputs(cfg)) BY <1>1 DEF At
      <3> QED BY <1>0, <1>1, <1>2, <1>3, <1>4, <1>6, <2>1, <3>1, Unmoving DEF Halfway, At
    <2>5. Usable' BY <2>1 DEF IInv, Usable
    <2>6. Foretold' BY <1>0, <2>1, Unmoving DEF IInv, Foretold, Resolved
    <2>7. Consented' BY <1>0, <2>1, Unmoving DEF IInv, Consented, PublicOnlyByConsent, Resolved
    <2> QED BY <2>2, <2>3, <2>4, <2>5, <2>6, <2>7 DEF IInv
  <1> QED BY <1>5, <1>6

LEMMA ReadFileStep ==
  ASSUME IInv, ReadFile
  PROVE  IInv'
  <1>0. pc = "read" /\ Unmoved BY DEF ReadFile, Unmoved
  <1>1. PICK p : At(p) BY <1>0, Position
  <1>2. PICK i : i = Inputs(cfg)[p + 1] OBVIOUS
  <1>3. PICK v : v = BytesError(Held(i, world)) OBVIOUS
  <1>4. todo # <<>> /\ ~IsVariable(i.field)
    <2>1. p < Len(Inputs(cfg)) /\ p \in 0..Len(Inputs(cfg)) BY <1>0, <1>1 DEF At
    <2>2. Rest(cfg, p) # <<>> BY <2>1, InputsShape, RestMoves
    <2> QED BY <1>0, <1>1, <1>2, <2>2 DEF At
  <1>5. Head(todo) = i BY <1>1, <1>2, <1>4, NextInput
  <1>6. ~touched => InputError(i, world) = v
    <2>1. ~touched => StatError(Held(i, world)) = "ok" BY <1>0, <1>1, <1>2 DEF At
    <2> QED BY <1>3, <1>4, <2>1 DEF InputError
  <1>7. IF v = "ok" THEN Take(i) ELSE End(v) BY <1>3, <1>5 DEF ReadFile
  <1>8. CASE v = "ok"
    <2>1. Held(i, world).len \in 1..MaxFrameBytes BY <1>3, <1>8, HeldLength, BytesJudged
    <2>2. i.field # "token_env" BY <1>4 DEF IsVariable
    <2> QED BY <1>0, <1>1, <1>2, <1>4, <1>6, <1>7, <1>8, <2>1, <2>2, TakeKeeps
  <1>9. CASE v # "ok" BY <1>0, <1>1, <1>2, <1>4, <1>6, <1>7, <1>9, RefusedKeeps
  <1> QED BY <1>8, <1>9

(***************************************************************************)
(* The library is called.                                                  *)
(***************************************************************************)
LEMMA LowerStep ==
  ASSUME IInv, Lower
  PROVE  IInv'
  <1>0. pc = "inputs" /\ pc \in Resolved /\ todo = <<>> /\ Unmoved
    BY DEF Lower, Unmoved, Resolved
  <1>1. PICK p : At(p) BY <1>0, Position
  <1>2. PICK n : n = Len(Inputs(cfg)) OBVIOUS
  <1>3. p = n /\ DOMAIN taken = FieldsRead(cfg, n)
    <2>1. p \in 0..Len(Inputs(cfg)) /\ todo = Rest(cfg, p) BY <1>1 DEF At
    <2>2. p = n BY <1>0, <1>2, <2>1, RestMoves
    <2> QED BY <1>1, <2>2 DEF At
  <1>4. ASSUME ~touched
        PROVE  Foreseen(cmd.verb, cfg, world) =
                 IF ~ServicesResolve(cfg) THEN "config_resolution"
                 ELSE IF Validates(cfg, taken) THEN "ok" ELSE Category("Configuration")
    <2>1. Structure(cmd.verb, cfg) = "ok" BY <1>0, <1>4 DEF IInv, Foretold
    <2>2. \A k \in 1..Len(Inputs(cfg)) : InputError(Inputs(cfg)[k], world) = "ok"
      BY <1>1, <1>2, <1>3, <1>4 DEF At
    <2>3. taken = Snapshot(cfg, world, Len(Inputs(cfg))) BY <1>1, <1>2, <1>3, <1>4 DEF At
    <2> QED BY <2>1, <2>2, <2>3, MeetsLibrary
  <1>5. Category("Configuration") = "profile_validation" BY DEF Category
  <1>6. CASE ~ServicesResolve(cfg)
    <2>1. End("config_resolution") BY <1>6 DEF Lower
    <2>2. AsForeseen("config_resolution") BY <1>0, <1>4, <1>6, EndAsForeseen
    <2> QED BY <1>0, <2>1, <2>2, EndKeeps
  <1>7. CASE ServicesResolve(cfg) /\ cmd.verb = "check"
    <2>1. PICK v : v = IF Validates(cfg, taken) THEN "ok" ELSE Category("Configuration") OBVIOUS
    <2>2. End(v) BY <1>7, <2>1 DEF Lower
    <2>3. AsForeseen(v) BY <1>0, <1>4, <1>7, <2>1, EndAsForeseen
    <2> QED BY <1>0, <2>2, <2>3, EndKeeps
  <1>8. CASE ServicesResolve(cfg) /\ cmd.verb # "check" /\ ~Validates(cfg, taken)
    <2>1. End(Category("Configuration")) BY <1>8 DEF Lower, StartValidates
    <2>2. AsForeseen(Category("Configuration")) BY <1>0, <1>4, <1>5, <1>8, EndAsForeseen
    <2> QED BY <1>0, <2>1, <2>2, EndKeeps
  <1>9. CASE ServicesResolve(cfg) /\ cmd.verb # "check" /\ Validates(cfg, taken)
    <2>1. /\ pc' = "build" /\ checked' = checked /\ verdict' = verdict
          /\ cfg' = cfg /\ asked' = asked /\ todo' = todo /\ taken' = taken
      BY <1>9 DEF Lower, StartValidates, resolveVars
    <2>2. Typed' BY <1>0, <2>1, Unmoving DEF IInv, Typed, Before
    <2>3. Staged' BY <1>0, <1>9, <2>1, Unmoving DEF IInv, Staged, Before, Looping, Resolved
    <2>4. Halfway' BY <2>1 DEF Halfway
    <2>5. Usable'
      <3>1. 1 \in 1..n /\ Inputs(cfg)[1].field = "token_env" BY <1>2, InputsShape
      <3>2. "token_env" \in DOMAIN taken BY <1>3, <3>1 DEF FieldsRead
      <3> QED BY <2>1, <3>2 DEF IInv, Usable
    <2>6. Foretold'
      <3>1. ~touched => Meets(cmd, file, world) = "ok" BY <1>0, <1>4, <1>9, MeetsConfig
      <3> QED BY <1>0, <2>1, <3>1, Unmoving DEF IInv, Foretold, Resolved
    <2>7. Consented' BY <1>0, <2>1, Unmoving DEF IInv, Consented, PublicOnlyByConsent, Resolved
    <2> QED BY <2>2, <2>3, <2>4, <2>5, <2>6, <2>7 DEF IInv
  <1> QED BY <1>6, <1>7, <1>8, <1>9

\* Only building the TLS configuration and binding the socket are not foreseen.
LEMMA LateFailure ==
  ASSUME IInv, pc \in {"build", "open"}, NEW v \in {"tls_material", "runtime_start"},
         End(v), Unmoved
  PROVE  IInv'
  <1>1. cmd.verb # "check" BY DEF IInv, Staged
  <1>2. ~touched => Meets(cmd, file, world) = "ok" BY DEF IInv, Foretold
  <1>3. AsForeseen(v) BY <1>1, <1>2 DEF AsForeseen
  <1>4. pc \in Resolved BY DEF Resolved
  <1> QED BY <1>3, <1>4, EndKeeps

LEMMA BuildStep ==
  ASSUME IInv, Build
  PROVE  IInv'
  <1>0. pc = "build" /\ Unmoved BY DEF Build, Unmoved
  <1>1. CASE End(Category("Tls"))
    <2>1. Category("Tls") = "tls_material" BY DEF Category
    <2> QED BY <1>0, <1>1, <2>1, LateFailure
  <1>2. CASE pc' = "open" /\ UNCHANGED <<checked, verdict, resolveVars>>
    <2>1. /\ pc' = "open" /\ checked' = checked /\ verdict' = verdict
          /\ cfg' = cfg /\ asked' = asked /\ todo' = todo /\ taken' = taken
      BY <1>2 DEF resolveVars
    <2>2. Typed' BY <1>0, <2>1, Unmoving DEF IInv, Typed, Before
    <2>3. Staged' BY <1>0, <2>1, Unmoving DEF IInv, Staged, Before, Looping, Resolved
    <2>4. Halfway' BY <2>1 DEF Halfway
    <2>5. Usable' BY <1>0, <2>1 DEF IInv, Usable
    <2>6. Foretold' BY <1>0, <2>1, Unmoving DEF IInv, Foretold, Resolved
    <2>7. Consented' BY <1>0, <2>1, Unmoving DEF IInv, Consented, PublicOnlyByConsent, Resolved
    <2> QED BY <2>2, <2>3, <2>4, <2>5, <2>6, <2>7 DEF IInv
  <1> QED BY <1>1, <1>2 DEF Build

LEMMA OpenStep ==
  ASSUME IInv, Open
  PROVE  IInv'
  <1>0. pc = "open" /\ UNCHANGED <<inputVars, cmd, loopVars>> BY DEF Open
  <1>1. CASE BindFails
    <2>1. Unmoved BY <1>0, <1>1 DEF BindFails, Unmoved
    <2>2. PICK v : v = Category(BindFailure(cfg)) OBVIOUS
    <2>3. v \in {"tls_material", "runtime_start"} BY <2>2 DEF Category, BindFailure
    <2>4. End(v) BY <1>1, <2>2 DEF BindFails
    <2> QED BY <1>0, <2>1, <2>3, <2>4, LateFailure
  <1>2. CASE Started
    <2>1. /\ running' = Options(cfg) /\ policy' = ServerPolicy(cfg) /\ pc' = "up"
          /\ cfg' = None /\ taken' = Empty /\ checked' = checked /\ verdict' = verdict
          /\ asked' = asked
      BY <1>2 DEF Started
    <2>2. /\ file' = file /\ world' = world /\ touched' = touched /\ cmd' = cmd
          /\ binds' = binds /\ binds = {}
      BY <1>0 DEF inputVars, loopVars, bindVars, IInv, Staged, Before
    <2>3. Typed' BY <1>0, <2>1, <2>2 DEF IInv, Typed
    <2>4. Staged' BY <1>0, <2>1, <2>2 DEF IInv, Staged, Before, Looping, Resolved
    <2>5. Halfway' BY <2>1 DEF Halfway
    <2>6. Usable'
      <3>1. DOMAIN taken' = {} BY <2>1 DEF Empty
      <3> QED BY <2>1, <3>1 DEF Usable
    <2>7. Foretold'
      <3>1. ~touched => running' = Options(Overridden(file, cmd.over)) /\ file # Unreadable
        BY <1>0, <2>1 DEF IInv, Foretold, Resolved
      <3> QED BY <1>0, <2>1, <2>2, <3>1 DEF IInv, Foretold, Resolved
    <2>8. Consented'
      <3>1. policy'.allow_public = cfg.allow_public_service_binds
        BY <2>1 DEF ServerPolicy, BindPolicyDefault
      <3>2. cfg.allow_public_service_binds => asked BY <1>0 DEF IInv, Consented, Resolved
      <3> QED BY <2>1, <2>2, <3>1, <3>2 DEF Consented, PublicOnlyByConsent, Resolved
    <2> QED BY <2>3, <2>4, <2>5, <2>6, <2>7, <2>8 DEF IInv
  <1> QED BY <1>1, <1>2 DEF Open

LEMMA ResolvingStep ==
  ASSUME IInv, Resolving
  PROVE  IInv'
  BY ReadConfigStep, ResolveStep, ReadVariableStep, StatFileStep, ReadFileStep, LowerStep,
     BuildStep, OpenStep DEF Resolving

(***************************************************************************)
(* Launch, the loop and the environment.                                   *)
(***************************************************************************)
LEMMA LaunchStep ==
  ASSUME IInv, NEW c \in Commands, Launch(c)
  PROVE  IInv'
  <1>0. /\ pc = "idle" /\ cmd' = c /\ (c.verb = "check" => cmd = None)
        /\ touched' = IF c.verb = "check" THEN FALSE ELSE touched
        /\ pc' = IF c.interval < MinSnapshotInterval THEN "failed" ELSE "parse"
        /\ pc' = "parse" => verdict' = "ok"
    BY DEF Launch, Given
  <1>1. /\ file' = file /\ world' = world /\ checked' = checked /\ cfg' = cfg /\ asked' = asked
        /\ taken' = taken /\ running' = running /\ policy' = policy /\ binds' = binds
    BY DEF Launch, resolveVars, loopVars, bindVars
  <1>2. pc' \in {"parse", "failed"} BY <1>0
  <1>3. Typed' BY <1>0, <1>1, <1>2 DEF IInv, Typed, Before
  <1>4. Staged'
    <2>1. c # None BY CliAssumption DEF Given
    <2> QED BY <1>0, <1>1, <1>2, <2>1 DEF IInv, Staged, Before, Looping, Resolved
  <1>5. Halfway' BY <1>2 DEF Halfway
  <1>6. Usable' BY <1>1, <1>2 DEF IInv, Usable
  <1>7. Foretold'
    <2>1. pc' = "failed" => ~(c.interval >= MinSnapshotInterval)
      <3>1. c.interval \in Nat BY CliAssumption
      <3> QED BY <1>0, <3>1 DEF MinSnapshotInterval
    <2>2. ~touched' /\ Given(checked) => checked = Report(file, world)
      <3>1. CASE c.verb = "check"
        <4>1. checked = None BY <1>0, <3>1 DEF IInv, Staged
        <4> QED BY <4>1 DEF Given
      <3>2. CASE c.verb # "check" BY <1>0, <3>2 DEF IInv, Foretold
      <3> QED BY <3>1, <3>2
    <2> QED BY <1>0, <1>1, <1>2, <2>1, <2>2 DEF Foretold, Resolved
  <1>8. Consented' BY <1>1, <1>2 DEF IInv, Consented, PublicOnlyByConsent, Resolved
  <1> QED BY <1>3, <1>4, <1>5, <1>6, <1>7, <1>8 DEF IInv

LEMMA ChangeStep ==
  ASSUME IInv, Change
  PROVE  IInv'
  <1>0. /\ touched' = TRUE /\ checked' = checked /\ cmd' = cmd /\ pc' = pc /\ cfg' = cfg
        /\ asked' = asked /\ todo' = todo /\ taken' = taken /\ verdict' = verdict
        /\ running' = running /\ policy' = policy /\ binds' = binds
    BY DEF Change, resolveVars, loopVars, bindVars
  <1>1. Typed'
    <2>1. /\ file' \in Files \cup Spoiled
          /\ DOMAIN world' = DOMAIN World
          /\ \A n \in DOMAIN World : Given(world'[n]) => world'[n].len \in Nat
      <3>1. CASE /\ \E n \in Unread : \E v \in Contents[n] \ {world[n]} : world' = [world EXCEPT ![n] = v]
                 /\ UNCHANGED file
        <4>1. PICK n \in Unread : \E v \in Contents[n] \ {world[n]} : world' = [world EXCEPT ![n] = v]
          BY <3>1
        <4>2. PICK v \in Contents[n] : world' = [world EXCEPT ![n] = v] BY <4>1
        <4>3. n \in DOMAIN World BY DEF Unread, IInv, Typed
        <4>4. Given(v) => v.len \in Nat BY <4>3, CliAssumption
        <4> QED BY <3>1, <4>2, <4>3, <4>4 DEF IInv, Typed
      <3>2. CASE file' \in Spoiled \ {file} /\ UNCHANGED world BY <3>2 DEF IInv, Typed
      <3> QED BY <3>1, <3>2 DEF Change
    <2> QED BY <1>0, <2>1 DEF IInv, Typed
  <1>2. Staged' BY <1>0 DEF IInv, Staged, Before, Looping, Resolved
  <1>3. Halfway' BY <1>0 DEF IInv, Halfway
  <1>4. Usable' BY <1>0 DEF IInv, Usable
  <1>5. Foretold' BY <1>0 DEF Foretold
  <1>6. Consented' BY <1>0 DEF IInv, Consented, PublicOnlyByConsent
  <1> QED BY <1>1, <1>2, <1>3, <1>4, <1>5, <1>6 DEF IInv

\* What goes on once the loop runs.
LEMMA LoopKeeps ==
  ASSUME IInv, pc \in Looping, pc' \in Looping,
         UNCHANGED <<inputVars, checked, cmd, resolveVars, verdict, running, policy>>,
         PublicOnlyByConsent'
  PROVE  IInv'
  <1>0. /\ file' = file /\ world' = world /\ touched' = touched /\ checked' = checked
        /\ cmd' = cmd /\ cfg' = cfg /\ asked' = asked /\ todo' = todo /\ taken' = taken
        /\ verdict' = verdict /\ running' = running /\ policy' = policy
    BY DEF inputVars, resolveVars
  <1>1. touched BY DEF IInv, Staged
  <1>2. Typed' BY <1>0 DEF IInv, Typed, Looping
  <1>3. Staged' BY <1>0, <1>1 DEF IInv, Staged, Before, Looping, Resolved
  <1>4. Halfway' BY DEF Halfway, Looping
  <1>5. Usable' BY <1>0 DEF IInv, Usable, Looping
  <1>6. Foretold' BY <1>0, <1>1 DEF Foretold
  <1>7. Consented' BY <1>0 DEF IInv, Consented, Looping, Resolved
  <1> QED BY <1>2, <1>3, <1>4, <1>5, <1>6, <1>7 DEF IInv

LEMMA LoopSteps ==
  ASSUME IInv,
         \/ RefreshBinds \/ LoadConnected \/ ReportSession \/ Break \/ Exit \/ Unbind \/ Store
         \/ \E r \in Requests : Bind(r)
  PROVE  IInv'
  <1>1. PublicOnlyByConsent /\ (policy.allow_public => asked) BY DEF IInv, Consented
  <1>2. CASE RefreshBinds \/ LoadConnected \/ ReportSession \/ Store
    <2>1. /\ pc = "loop" /\ pc' = "loop" /\ binds' = binds
          /\ UNCHANGED <<inputVars, checked, cmd, resolveVars, verdict, running, policy>>
      BY <1>2 DEF RefreshBinds, LoadConnected, ReportSession, Store, Serving, Dialling, bindVars
    <2>2. asked' = asked BY <2>1 DEF resolveVars
    <2>3. PublicOnlyByConsent' BY <1>1, <2>1, <2>2 DEF PublicOnlyByConsent
    <2> QED BY <2>1, <2>3, LoopKeeps DEF Looping
  <1>3. CASE Break \/ Exit \/ Unbind
    <2>1. /\ pc \in Looping /\ pc' \in Looping /\ binds' \subseteq binds
          /\ UNCHANGED <<inputVars, checked, cmd, resolveVars, verdict, running, policy>>
      BY <1>3 DEF Break, Exit, Unbind, Serving, bindVars, Looping
    <2>2. asked' = asked BY <2>1 DEF resolveVars
    <2>3. PublicOnlyByConsent' BY <1>1, <2>1, <2>2 DEF PublicOnlyByConsent
    <2> QED BY <2>1, <2>3, LoopKeeps
  <1>4. CASE \E r \in Requests : Bind(r)
    <2>1. PICK r \in Requests : Bind(r) BY <1>4
    <2>2. /\ pc = "loop" /\ pc' = "loop"
          /\ binds' = binds \cup {[session |-> bound', address |-> r[1], port |-> r[2]]}
          /\ BindToSocket(policy, r[1], r[2])
          /\ UNCHANGED <<inputVars, checked, cmd, resolveVars, verdict, running, policy>>
      BY <2>1 DEF Bind, Serving
    <2>3. asked' = asked BY <2>2 DEF resolveVars
    <2>4. IsLoopback(r[1]) \/ asked BY <1>1, <2>2 DEF BindToSocket, PermitsAddress
    <2>5. PublicOnlyByConsent' BY <1>1, <2>2, <2>3, <2>4 DEF PublicOnlyByConsent
    <2> QED BY <2>2, <2>5, LoopKeeps DEF Looping
  <1> QED BY <1>2, <1>3, <1>4

LEMMA EnterLoopStep ==
  ASSUME IInv, EnterLoop
  PROVE  IInv'
  <1>0. /\ pc \in {"up", "loop"} /\ pc' = "loop" /\ checked' = None /\ touched' = TRUE
        /\ file' = file /\ world' = world /\ cmd' = cmd /\ cfg' = cfg /\ asked' = asked
        /\ todo' = todo /\ taken' = taken /\ verdict' = verdict /\ running' = running
        /\ policy' = policy /\ binds' = binds
    BY DEF EnterLoop, resolveVars, bindVars
  <1>1. Typed' BY <1>0 DEF IInv, Typed, Looping
  <1>2. Staged' BY <1>0 DEF IInv, Staged, Before, Looping, Resolved
  <1>3. Halfway' BY <1>0 DEF Halfway
  <1>4. Usable' BY <1>0 DEF IInv, Usable
  <1>5. Foretold' BY <1>0 DEF Foretold
  <1>6. Consented' BY <1>0 DEF IInv, Consented, PublicOnlyByConsent, Resolved
  <1> QED BY <1>1, <1>2, <1>3, <1>4, <1>5, <1>6 DEF IInv

LEMMA SignalStep ==
  ASSUME IInv, Signal
  PROVE  IInv'
  <1>0. /\ file' = file /\ world' = world /\ touched' = touched /\ checked' = checked
        /\ cmd' = cmd /\ asked' = asked /\ verdict' = verdict /\ running' = running
        /\ policy' = policy /\ binds' = binds
    BY DEF Signal, inputVars, bindVars, resolveVars
  <1>1. CASE handler = "none"
    <2>1. pc' = "killed" /\ taken' = Empty /\ pc # "idle" BY <1>1 DEF Signal
    <2>2. Typed' BY <1>0, <2>1 DEF IInv, Typed
    <2>3. Staged' BY <1>0, <2>1 DEF IInv, Staged, Before, Looping, Resolved
    <2>4. Halfway' BY <2>1 DEF Halfway
    <2>5. Usable'
      <3>1. DOMAIN taken' = {} BY <2>1 DEF Empty
      <3> QED BY <2>1, <3>1 DEF Usable
    <2>6. Foretold' BY <1>0, <2>1 DEF IInv, Foretold, Resolved
    <2>7. Consented' BY <1>0, <2>1 DEF IInv, Consented, PublicOnlyByConsent, Resolved
    <2> QED BY <2>2, <2>3, <2>4, <2>5, <2>6, <2>7 DEF IInv
  <1>2. CASE handler # "none"
    <2>1. pc' = pc /\ cfg' = cfg /\ todo' = todo /\ taken' = taken BY <1>2 DEF Signal, resolveVars
    <2> QED BY <1>0, <2>1
        DEF IInv, Typed, Staged, Halfway, Usable, Foretold, Consented, PublicOnlyByConsent
  <1> QED BY <1>1, <1>2

(***************************************************************************)
(* The invariant and the theorems.                                         *)
(***************************************************************************)
LEMMA IInvInit == Init => IInv
  <1> SUFFICES ASSUME Init PROVE IInv OBVIOUS
  <1>1. Typed BY CliAssumption DEF Init, Typed, Before
  <1>2. Staged BY DEF Init, Staged, Looping, Resolved
  <1>3. Halfway BY DEF Init, Halfway
  <1>4. Usable
    <2>1. DOMAIN taken = {} BY DEF Init, Empty
    <2> QED BY <2>1 DEF Init, Usable
  <1>5. Foretold BY DEF Init, Foretold, Resolved, Given
  <1>6. Consented BY DEF Init, Consented, PublicOnlyByConsent, Resolved, BindPolicyDefault
  <1> QED BY <1>1, <1>2, <1>3, <1>4, <1>5, <1>6 DEF IInv

LEMMA IInvNext == IInv /\ [Next]_vars => IInv'
  <1> SUFFICES ASSUME IInv, [Next]_vars PROVE IInv' OBVIOUS
  <1>1. CASE UNCHANGED vars
    BY <1>1 DEF vars, inputVars, resolveVars, bindVars, IInv, Typed, Staged, Halfway, Usable,
                Foretold, Consented, PublicOnlyByConsent
  <1>2. CASE Next
    BY <1>2, LaunchStep, ResolvingStep, EnterLoopStep, LoopSteps, ChangeStep, SignalStep DEF Next
  <1> QED BY <1>1, <1>2

LEMMA Invariance == Spec => []IInv
  BY IInvInit, IInvNext, PTL DEF Spec

\* A public listener exists only if the file or a flag asked for it: the switch
\* goes through overrides, resolution, builder and bind policy, and is never read
\* again (main.rs server_builder, common.rs bind_to_socket).
THEOREM PublicBindsConsented == Spec => []PublicOnlyByConsent
  <1>1. IInv => PublicOnlyByConsent BY DEF IInv, Consented
  <1> QED BY <1>1, Invariance, PTL

\* The library gets a usable token and material within the cap, whatever happens
\* to the inputs between metadata and read (main.rs read_material).
THEOREM SnapshotUsable == Spec => []SnapshotSound
  <1>1. IInv => SnapshotSound BY DEF IInv, Usable, SnapshotSound
  <1> QED BY <1>1, Invariance, PTL

\* check and start resolve alike: of a configuration of its mode that nothing has
\* changed since, a start meets the error check reported, or none but those of
\* building the TLS configuration and binding (main.rs run_check).
THEOREM CheckForetells == Spec => []CheckPredictsStart
  <1>1. IInv => CheckPredictsStart
    <2> SUFFICES ASSUME IInv, Finished, Given(checked), ~touched, cmd.over = Empty,
                        cmd.interval >= MinSnapshotInterval,
                        Given(checked.options) => checked.options.mode = cmd.verb
                 PROVE  IF checked.verdict = "ok"
                        THEN /\ verdict \in {"ok", "tls_material", "runtime_start"}
                             /\ Given(running) => running = checked.options
                        ELSE verdict = checked.verdict
      BY DEF CheckPredictsStart
    <2>1. pc \in {"failed", "up"} BY DEF Finished, IInv, Staged, Looping
    <2>2. /\ checked.verdict = Meets(Check, file, world)
          /\ checked.options = IF file = Unreadable THEN None ELSE Options(Overridden(file, Empty))
      BY DEF IInv, Foretold, Report
    <2>3. Meets(cmd, file, world) = Meets(Check, file, world)
      <3>1. CASE file = Unreadable BY <3>1 DEF Meets
      <3>2. CASE file # Unreadable
        <4>1. PICK c : c = Overridden(file, Empty) OBVIOUS
        <4>2. file \in Files \cup Spoiled /\ cmd \in Commands BY <2>1 DEF IInv, Typed
        <4>3. checked.options.mode = c.mode BY <2>2, <3>2, <4>1 DEF Options
        <4>4. Given(checked.options)
          <5>1. "mode" \in DOMAIN checked.options BY <2>2, <3>2, <4>1 DEF Options
          <5>2. DOMAIN None = {"kind"} BY DEF None
          <5> QED BY <5>1, <5>2 DEF Given
        <4>5. c.mode = cmd.verb BY <4>3, <4>4
        <4>6. cmd.verb \in {"check", "client", "server"} BY <4>2, CliAssumption
        <4>7. Structure(cmd.verb, c) = Structure("check", c) BY <4>5, <4>6 DEF Structure
        <4>8. Foreseen(cmd.verb, c, world) = Foreseen("check", c, world) BY <4>7 DEF Foreseen
        <4> QED BY <3>2, <4>1, <4>8 DEF Meets, Check
      <3> QED BY <3>1, <3>2
    <2>4. CASE pc = "failed"
      <3>1. running = None BY <2>4 DEF IInv, Staged, Before
      <3>2. IF Meets(cmd, file, world) = "ok"
            THEN verdict \in {"tls_material", "runtime_start"}
            ELSE verdict = Meets(cmd, file, world)
        BY <2>4 DEF IInv, Foretold
      <3> QED BY <2>2, <2>3, <3>1, <3>2 DEF Given
    <2>5. CASE pc = "up"
      <3>1. /\ Meets(cmd, file, world) = "ok" /\ file # Unreadable
            /\ running = Options(Overridden(file, cmd.over))
        BY <2>5 DEF IInv, Foretold
      <3>2. verdict = "ok" BY <2>5 DEF IInv, Staged
      <3> QED BY <2>2, <2>3, <3>1, <3>2
    <2> QED BY <2>1, <2>4, <2>5
  <1> QED BY <1>1, Invariance, PTL

(***************************************************************************)
(* The process listens for SIGINT from the first round of its loop to its  *)
(* end, and before that dies of it.                                        *)
(***************************************************************************)
Listens ==
  /\ handler = IF pc \in {"loop", "stopping", "exited"} THEN "live" ELSE "none"
  /\ NoSignalLost

\* Up to the start of the runtime nothing of the loop is touched.
LEMMA ResolvingQuiet ==
  ASSUME Resolving
  PROVE  /\ UNCHANGED signalVars
         /\ pc \notin {"killed", "loop", "stopping", "exited"}
         /\ pc' \notin {"loop", "stopping", "exited"}
  <1> USE DEF loopVars, End
  <1>1. CASE ReadConfig BY <1>1 DEF ReadConfig
  <1>2. CASE Resolve BY <1>2 DEF Resolve
  <1>3. CASE ReadVariable \/ StatFile \/ ReadFile
    BY <1>3 DEF ReadVariable, StatFile, ReadFile, Take
  <1>4. CASE Lower BY <1>4 DEF Lower
  <1>5. CASE Build BY <1>5 DEF Build
  <1>6. CASE Open BY <1>6 DEF Open, BindFails, Started
  <1> QED BY <1>1, <1>2, <1>3, <1>4, <1>5, <1>6 DEF Resolving

\* Every step keeps the process listening and the signal in sight.
LEMMA ListensNext == Listens /\ [Next]_vars => Listens'
  <1> SUFFICES ASSUME Listens, [Next]_vars PROVE Listens' OBVIOUS
  <1> USE DEF Listens, NoSignalLost, signalVars
  <1>1. CASE UNCHANGED vars BY <1>1 DEF vars
  <1>2. CASE Resolving BY <1>2, ResolvingQuiet
  <1>3. ASSUME NEW c \in Commands, Launch(c) PROVE Listens' BY <1>3 DEF Launch, loopVars
  <1>4. CASE EnterLoop \/ RefreshBinds \/ LoadConnected \/ ReportSession
    <2>1. CASE EnterLoop BY <2>1 DEF EnterLoop
    <2>2. CASE RefreshBinds BY <2>2 DEF RefreshBinds, KeepListener, Serving
    <2>3. CASE LoadConnected BY <2>3 DEF LoadConnected
    <2>4. CASE ReportSession BY <2>4 DEF ReportSession, KeepListener, Dialling
    <2> QED BY <1>4, <2>1, <2>2, <2>3, <2>4
  <1>5. CASE Break \/ Exit BY <1>5 DEF Break, Exit
  <1>6. CASE Change \/ Unbind \/ Store BY <1>6 DEF Change, Unbind, Store, loopVars
  <1>7. CASE Signal BY <1>7 DEF Signal
  <1>8. ASSUME NEW r \in Requests, Bind(r) PROVE Listens' BY <1>8 DEF Bind
  <1> QED BY <1>1, <1>2, <1>3, <1>4, <1>5, <1>6, <1>7, <1>8 DEF Next

\* No SIGINT is lost, however it falls between the rounds of the select! and the
\* work between them: the one ctrl_c() of the loop is never dropped (main.rs
\* run_client, run_server).
THEOREM SignalsHeard == Spec => []NoSignalLost
  <1>1. Init => Listens BY DEF Init, Listens, NoSignalLost
  <1>2. Listens => NoSignalLost BY DEF Listens
  <1> QED BY <1>1, <1>2, ListensNext, PTL DEF Spec

=============================================================================
