---------------------------- MODULE MCHeartbeat ----------------------------
(***************************************************************************)
(* Small instances of Heartbeat.  The ratio of Idle to Interval is that of *)
(* the defaults, 90 s to 20 s.                                             *)
(***************************************************************************)
EXTENDS Heartbeat

=============================================================================
