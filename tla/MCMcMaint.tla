----------------------------- MODULE MCMcMaint -----------------------------
(* McMaint for TLC: three units, the fewest with a first, a middle and a last one. *)
EXTENDS McMaint
=============================================================================
