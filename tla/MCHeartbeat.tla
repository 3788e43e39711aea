---------------------------- MODULE MCHeartbeat ----------------------------
(* Heartbeat for TLC, with the timers of msger.rs, 20, 30, 3 and 5 seconds, *)
(* in half seconds, and a pause and a delay of half a second each.          *)
EXTENDS Heartbeat
=============================================================================
