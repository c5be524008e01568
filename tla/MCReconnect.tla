---------------------------- MODULE MCReconnect ----------------------------
(***************************************************************************)
(* Instances of Reconnect with a few Open messages.                        *)
(***************************************************************************)
EXTENDS Reconnect

CONSTANTS o1, o2

=============================================================================
