---------------------------- MODULE MCCopyFiles -----------------------------
(***************************************************************************)
(* CopyFiles for TLC: every list of up to MaxEntries entries that starts   *)
(* with a file, as the list of an installation does.                       *)
(***************************************************************************)
EXTENDS CopyFiles

CONSTANT MaxEntries

PackageLists ==
  {l \in UNION {[1 .. n -> Kinds] : n \in 1 .. MaxEntries} : l[1] \in {"file", "kelf"}}
=============================================================================
