---------------------------- MODULE MCHddInstall ----------------------------
(* The disk installation with an MBR program of two blocks. *)
EXTENDS HddInstall

=============================================================================
