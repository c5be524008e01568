--------------------------- MODULE MCCorrelation ---------------------------
(***************************************************************************)
(* Instances of Correlation for TLC.                                       *)
(***************************************************************************)
EXTENDS Correlation, TLC

CONSTANTS s1, s2, a, b, p, q, l1, l2, c1, c2, h1, h2

\* One Session that registers the same ServiceId twice.
OneSession    == {s1}
OnePrincipal  == s1 :> p
OneSessionOf  == [l \in Listener |-> s1]
SameServiceOf == [l \in Listener |-> a]

\* Two Sessions of two Principals with one listener each.
TwoSessions   == {s1, s2}
TwoPrincipals == s1 :> p @@ s2 :> q
TwoSessionOf  == l1 :> s1 @@ l2 :> s2

\* External connections are interchangeable, and so are DataHellos.
ConnSymmetry == Permutations(Conn) \cup Permutations(Hello)
=============================================================================
