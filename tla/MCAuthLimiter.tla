---------------------------- MODULE MCAuthLimiter ----------------------------
(***************************************************************************)
(* An instance of AuthLimiter: a source with four wrong tokens, and        *)
(* another with the right one that may still send something malformed.     *)
(***************************************************************************)
EXTENDS AuthLimiter, TLC

CONSTANTS s1, s2, a1, a2, a3, a4, a5

TwoSources == [a \in Attempt |-> IF a = a5 THEN s2 ELSE s1]

\* The wrong guesses of one source are interchangeable.
Interchangeable == Permutations({a1, a2, a3, a4})

=============================================================================
