----------------------------- MODULE MCMessager -----------------------------
(* Instances of Messager for TLC: a client and a server, few and short      *)
(* messages, buffers so small that they fill up.                            *)
EXTENDS Messager, TLC

CONSTANTS cli, srv, heart, d1, d2, d3, d4

Both == {cli, srv}
Server == {srv}
Client == {cli}

\* Who sends what.
FourUp == cli :> {d1, d2, d3, d4} @@ srv :> {}
OneDown == cli :> {} @@ srv :> {d1}

\* heart and d1 have a command, that of d3 does not fit its length
\* field (LenMod = 2), the body of d2 is above the limit, d4 has no parts.
Cmds == heart :> 1 @@ d1 :> 1 @@ d2 :> 0 @@ d3 :> 2 @@ d4 :> 0

\* The message of OneDown has no command: its frame is three units long, so
\* that all of it may wait behind the last unit of a heart.
ShortCmds == heart :> 1 @@ d1 :> 0 @@ d2 :> 0 @@ d3 :> 0 @@ d4 :> 0
Heads == heart :> 0 @@ d1 :> 0 @@ d2 :> 0 @@ d3 :> 0 @@ d4 :> 0
Bodys == heart :> 0 @@ d1 :> 0 @@ d2 :> 1 @@ d3 :> 0 @@ d4 :> 0
=============================================================================
