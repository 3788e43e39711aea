------------------------------ MODULE MCReply ------------------------------
(* An instance of Reply for TLC: three tasks share a Response.  All its     *)
(* constants are given in the configuration.                                *)
EXTENDS Reply
=============================================================================
