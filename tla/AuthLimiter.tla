---------------------------- MODULE AuthLimiter ----------------------------
(***************************************************************************)
(* The authentication throttle (server/auth.rs) as serve_control uses it:  *)
(* a sliding window of failures per source address, bounded in sources and *)
(* in failures per source.                                                 *)
(*                                                                         *)
(* An attempt is judged (verify_token and is_blocked) and, if refused,     *)
(* recorded.  Both calls read the clock before they take the lock, so the  *)
(* lock may be taken in another order than the clock was read: a queue of  *)
(* failures need not be sorted.  MaxSkew bounds how long a thread waits    *)
(* between the two.  A source has an entry in the table exactly when its   *)
(* queue is not empty, so the table is a total function here.              *)
(***************************************************************************)
EXTENDS Integers, Sequences, FiniteSets

CONSTANTS
  Source,        \* peer addresses
  Attempt,       \* authentication attempts
  SourceOf,      \* where an attempt comes from
  GoodToken,     \* attempts that present the right token
  Threshold,     \* AUTH_FAILURES_PER_SOURCE
  Window,        \* AUTH_FAILURE_WINDOW
  MaxSources,    \* MAX_AUTH_SOURCES
  MaxConcurrent, \* accepted_handshakes: attempts under way at once
  MaxSkew,       \* bound: ticks between reading the clock and locking
  MaxTime        \* bound: the last instant

ASSUME LimiterAssumption ==
  /\ IsFiniteSet(Source) /\ IsFiniteSet(Attempt)
  /\ SourceOf \in [Attempt -> Source]
  /\ GoodToken \subseteq Attempt
  /\ Threshold \in Nat \ {0} /\ Window \in Nat \ {0}
  /\ MaxSources \in Nat /\ MaxConcurrent \in Nat
  /\ MaxSkew \in Nat /\ MaxTime \in Nat

VARIABLES
  now,       \* the monotonic clock
  failures,  \* failures[s]: instants of the tracked failures of s
  pc,        \* pc[a]: "new", "judging", "refused", "admitted" or "done"
  stamp,     \* stamp[a]: the instant a's next call to the limiter carries
  guessed,   \* guessed[a]: when an unblocked wrong token was judged, or -1
  tracked    \* tracked[a]: the instant recorded for a, or -1

limiterVars == <<now, failures, pc, stamp, guessed, tracked>>

Instants == 0..MaxTime
Underway == {a \in Attempt : pc[a] \in {"judging", "refused"}}

LimiterInit ==
  /\ now = 0
  /\ failures = [s \in Source |-> <<>>]
  /\ pc = [a \in Attempt |-> "new"]
  /\ stamp = [a \in Attempt |-> 0]
  /\ guessed = [a \in Attempt |-> -1]
  /\ tracked = [a \in Attempt |-> -1]

Stale(at, t) == t - at >= Window

\* Seeded fault: nothing ever leaves the window.
Unpruned(q, t) == q

\* The failures of a queue from its first one inside the window on.
Pruned(q, t) ==
  LET fresh == {i \in DOMAIN q : ~Stale(q[i], t) /\ \A j \in 1..(i - 1) : Stale(q[j], t)}
  IN  IF fresh = {} THEN <<>>
      ELSE SubSeq(q, CHOOSE i \in fresh : TRUE, Len(q))

\* prune: every queue, then drop the empty ones.
Prune(t) == [s \in Source |-> Pruned(failures[s], t)]

Sources(table) == {s \in Source : table[s] # <<>>}

\* Seeded fault: the newest failure is dropped.
TrimmedBack(q) == IF Len(q) > Threshold THEN SubSeq(q, 1, Threshold) ELSE q

\* Keep the newest Threshold failures of a queue that grew by one.
Trimmed(q) == IF Len(q) > Threshold THEN Tail(q) ELSE q

(***************************************************************************)
(* Actions.                                                                *)
(***************************************************************************)

\* An admitted connection sent its Auth message; the clock is read.
Arrive(a) ==
  /\ pc[a] = "new"
  /\ Cardinality(Underway) < MaxConcurrent
  /\ pc' = [pc EXCEPT ![a] = "judging"]
  /\ stamp' = [stamp EXCEPT ![a] = now]
  /\ UNCHANGED <<now, failures, guessed, tracked>>

\* An unsupported version, or another message where Auth is due: refused
\* without a look at the table.
Malformed(a) ==
  /\ pc[a] = "new"
  /\ Cardinality(Underway) < MaxConcurrent
  /\ pc' = [pc EXCEPT ![a] = "refused"]
  /\ stamp' = [stamp EXCEPT ![a] = now]
  /\ UNCHANGED <<now, failures, guessed, tracked>>

Blocked(q) == Len(q) >= Threshold

\* Seeded fault: only the token decides.
JudgeTokenOnly(a) ==
  /\ pc[a] = "judging"
  /\ failures' = Prune(stamp[a])
  /\ pc' = [pc EXCEPT ![a] = IF a \in GoodToken THEN "admitted" ELSE "refused"]
  /\ guessed' = [guessed EXCEPT ![a] = IF a \in GoodToken THEN -1 ELSE stamp[a]]
  /\ stamp' = [stamp EXCEPT ![a] = now]
  /\ UNCHANGED <<now, tracked>>

\* is_blocked prunes and gives its verdict; a refusal reads the clock again.
Judge(a) ==
  /\ pc[a] = "judging"
  /\ failures' = Prune(stamp[a])
  /\ LET blocked == Blocked(failures'[SourceOf[a]])
     IN  /\ pc' = [pc EXCEPT ![a] = IF a \in GoodToken /\ ~blocked
                                    THEN "admitted" ELSE "refused"]
         /\ guessed' = [guessed EXCEPT ![a] =
                          IF a \notin GoodToken /\ ~blocked THEN stamp[a] ELSE -1]
  /\ stamp' = [stamp EXCEPT ![a] = now]
  /\ UNCHANGED <<now, tracked>>

\* Seeded fault: the ceiling on sources is one too high.
TableFullLate(table) == Cardinality(Sources(table)) > MaxSources

TableFull(table) == Cardinality(Sources(table)) >= MaxSources

\* record_failure: a new source is left out of a full table.
Record(a) ==
  /\ pc[a] = "refused"
  /\ LET s == SourceOf[a]
         table == Prune(stamp[a])
     IN  IF table[s] = <<>> /\ TableFull(table)
         THEN failures' = table /\ UNCHANGED tracked
         ELSE /\ failures' = [table EXCEPT ![s] = Trimmed(Append(@, stamp[a]))]
              /\ tracked' = [tracked EXCEPT ![a] = stamp[a]]
  /\ pc' = [pc EXCEPT ![a] = "done"]
  /\ UNCHANGED <<now, stamp, guessed>>

Tick ==
  /\ now < MaxTime
  /\ \A a \in Underway : now - stamp[a] < MaxSkew
  /\ now' = now + 1
  /\ UNCHANGED <<failures, pc, stamp, guessed, tracked>>

LimiterNext == Tick \/ \E a \in Attempt : Arrive(a) \/ Malformed(a) \/ Judge(a) \/ Record(a)

LimiterSpec == LimiterInit /\ [][LimiterNext]_limiterVars

(***************************************************************************)
(* Properties.                                                             *)
(***************************************************************************)
\* The limiter "never retains unbounded per-source history" (auth.rs:4): the table is
\* bounded in sources and in failures per source, whatever threads do.
Bounded ==
  /\ Cardinality(Sources(failures)) <= MaxSources
  /\ \A s \in Source : Len(failures[s]) <= Threshold

\* Tracked failures of s younger than age.
Younger(s, age) ==
  {a \in Attempt : SourceOf[a] = s /\ tracked[a] >= 0 /\ now - tracked[a] < age}

\* A verdict taken now.
WouldBlock(s) == Blocked(Pruned(failures[s], now))

\* Nobody is blocked for failures that have left the window, but for the skew
\* of an unsorted queue.
BlockedForReason ==
  \A s \in Source : WouldBlock(s) => Cardinality(Younger(s, Window + MaxSkew)) >= Threshold

\* A tracked source with Threshold failures inside the window is blocked, but
\* for the skew: cutting and pruning from the front of an unsorted queue does
\* not let a source out earlier than that.
ReasonBlocks ==
  \A s \in Source : Cardinality(Younger(s, Window - MaxSkew)) >= Threshold => WouldBlock(s)

\* A source is blocked if, and only if, it has failed often enough of late.
BlocksExactly == BlockedForReason /\ ReasonBlocks

\* Wrong tokens of s that were judged unblocked in the last Window instants, less
\* the time a clock may be read before its failure is recorded.
Guesses(s) ==
  {a \in Attempt : SourceOf[a] = s /\ guessed[a] >= 0 /\ now - guessed[a] < Window - MaxSkew}

\* Failures of s that found the table full of other sources.
LeftOut(s) == {a \in Attempt : SourceOf[a] = s /\ pc[a] = "done" /\ tracked[a] = -1}

\* control.rs:134 asks is_blocked, auth.rs:123 records the failure: a source whose
\* failures find room in the table gets past the threshold by as many attempts
\* as can be under way at once, and by no more.
GuessesBounded ==
  \A s \in Source : LeftOut(s) = {} => Cardinality(Guesses(s)) <= Threshold - 1 + MaxConcurrent

=============================================================================
