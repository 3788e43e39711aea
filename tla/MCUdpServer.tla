----------------------------- MODULE MCUdpServer -----------------------------
(***************************************************************************)
(* Two ends and another program, with the limits of the code.              *)
(***************************************************************************)
EXTENDS UdpServer

CONSTANTS a, b, other

MCEnds == {a, b}
MCOthers == {other}

\* 1: 1200 bytes with send1bts, and a token that makes the package too long
\*    even for the buffer
\* 2: a message of 1200 bytes, and a token that just fits
\* 3: another program's package, with a token that is not accepted
\* 4: bytes that do not fit into a package (send1bts refuses them)
MCMsgs == 1 .. 4
MCFrom == <<a, a, other, a>>
MCTo == <<b, b, b, b>>
MCCtrl == <<11, 12, 11, 11>>
MCTokenLen == <<300, 265, 4, 0>>
MCParts == <<[cmd |-> 0, head |-> 0, body |-> 1200],
             [cmd |-> 2, head |-> 180, body |-> 1000],
             [cmd |-> 0, head |-> 0, body |-> 10],
             [cmd |-> 0, head |-> 0, body |-> 1466]>>
MCCopies == <<1, 2, 1, 1>>
MCStoppable == {b}
=============================================================================
