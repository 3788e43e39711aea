----------------------------- MODULE MCExchange -----------------------------
(* Instances of Exchange for TLC.  U16 and U32 are small, so that lengths   *)
(* that fit, that overflow in a sum and that are truncated all occur.       *)
EXTENDS Exchange

\* U16 = 8: 5 + 5 overflows, 8 and 9 are truncated to 0 and 1.
OddRequests ==
  [use_version : {0, 1, 3}, cmd : {0, 3, 5, 8, 9}, arg : {0, 3, 5, 8, 9},
   head : {0, 2, 6}, body : {0, 2}]

\* Fewer of them, for the run with many calls.
FewRequests ==
  [use_version : {0, 1}, cmd : {0, 5, 9}, arg : {0, 1, 5}, head : {2, 6},
   body : {0, 2}]

Zero == {0}
FewLens == {0, 2}

\* One above the limit the client has for the head of a response.
Heads == {2, 6}
=============================================================================
