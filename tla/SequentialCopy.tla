-------------------------- MODULE SequentialCopy ---------------------------
(***************************************************************************)
(* What copying a list of entries to a memory card promises: they are      *)
(* copied in order, one that is complete is not touched again, none is     *)
(* begun before the one ahead of it is complete, and success means that    *)
(* all are.  An entry that could not be completed may hold anything.       *)
(***************************************************************************)
EXTENDS Integers, Sequences

CONSTANTS
  Promised      \* the lists about which the promise is made

VARIABLES
  list,         \* the entries to copy
  card,         \* what the card holds of each
  copied,       \* number of entries that are complete
  status        \* "copying", "done" or "failed"

vars == <<list, card, copied, status>>

Complete(e) ==
  [of |-> e,
   form |-> CASE list[e] = "dir" -> "directory"
              [] list[e] = "file" -> "plain"
              [] list[e] = "kelf" -> "signed"]

Init == list \in Promised => copied = 0 /\ status = "copying"

(* The entry in progress changes, and no other. *)
Work ==
  /\ status = "copying" /\ copied < Len(list)
  /\ \A e \in DOMAIN list : e # copied + 1 => card'[e] = card[e]
  /\ UNCHANGED copied

(* The entry in progress becomes complete. *)
Finish ==
  /\ status = "copying" /\ copied < Len(list)
  /\ \A e \in DOMAIN list : card'[e] = IF e = copied + 1 THEN Complete(e) ELSE card[e]
  /\ copied' = copied + 1

Copy == (Work \/ Finish) /\ status' = "copying"

(* The last entry may become complete in the step that reports the success. *)
Succeed ==
  /\ status' = "done" /\ copied' = Len(list)
  /\ Finish

(* A failure stops the copy; what is complete stays. *)
Fail ==
  /\ status = "copying" /\ status' = "failed"
  /\ UNCHANGED <<copied, card>>

(* After a failure the card may go on with the write it was given last. *)
Late ==
  /\ status = "failed" /\ UNCHANGED <<status, copied>>
  /\ \A e \in DOMAIN list : e # copied + 1 => card'[e] = card[e]

Next ==
  /\ UNCHANGED list
  /\ list \in Promised => Copy \/ Succeed \/ Fail \/ Late

Spec == Init /\ [][Next]_vars
=============================================================================
