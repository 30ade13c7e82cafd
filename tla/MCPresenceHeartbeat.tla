-------------------------- MODULE MCPresenceHeartbeat --------------------------
(* Two turns, so that the heartbeat of one meets that of the next; two phrases *)
(* each, so that one can follow the phrase a cancel came upon.                 *)
EXTENDS PresenceHeartbeat
=============================================================================
