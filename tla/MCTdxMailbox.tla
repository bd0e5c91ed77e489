----------------------------- MODULE MCTdxMailbox -----------------------------
(* TdxMailbox on a small machine. *)
EXTENDS TdxMailbox

CONSTANTS a1, a2
MCAcceptArgs == {a1, a2}
=============================================================================
