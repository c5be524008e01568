---------------------------- MODULE MCRegistration ----------------------------
(***************************************************************************)
(* Small instances of Registration: one or two boot services and dynamic   *)
(* registrations that share ids and names with each other and with them.   *)
(***************************************************************************)
EXTENDS Registration

CONSTANTS r1, r2, r3, i1, i2, n1, n2

\* r1 and r2 are the same Service, r3 is another.
PairIds   == [r \in Reg |-> IF r = r3 THEN i2 ELSE i1]
PairNames == [r \in Reg |-> IF r = r3 THEN n2 ELSE n1]

=============================================================================
