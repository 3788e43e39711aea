------------------------------ MODULE MCMerge ------------------------------
(* An instance of Merge for TLC: two messages of two pieces.                *)
EXTENDS Merge

MCPieces == {<<1, 1, 2>>, <<1, 2, 2>>, <<2, 1, 2>>, <<2, 2, 2>>}
=============================================================================
