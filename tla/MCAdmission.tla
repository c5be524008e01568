---------------------------- MODULE MCAdmission ----------------------------
(***************************************************************************)
(* Instances of Admission with a few connections.                          *)
(***************************************************************************)
EXTENDS Admission

CONSTANTS c1, c2, c3

=============================================================================
