----------------------------- MODULE MCTdxMeasure -----------------------------
(* Instance of TdxMeasure: the log area can be full at the events of SEC,  *)
(* at those of the handlers, or not at all.                                *)
EXTENDS TdxMeasure

MCLaml == {3, 7}
MCFinalLaml == {2}
=============================================================================
