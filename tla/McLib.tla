------------------------------- MODULE McLib -------------------------------
(***************************************************************************)
(* The memory card library (libmc) as CopyFiles uses it: a write is given  *)
(* to the IOP and goes on while the caller reads the next file; mcSync     *)
(* waits for it and takes its answer.  Only one command may be under way:  *)
(* a call made before the answer is taken is refused.                      *)
(*                                                                         *)
(* A file is named by its place in the list of files to copy.  What the    *)
(* card holds of it is the buffer it came from and the form of the bytes.  *)
(***************************************************************************)
EXTENDS Integers

CONSTANT NumHandles     \* files the card manager can have open at once

ASSUME HandlesAssumption == NumHandles \in Nat \ {0}

Handles == 0 .. NumHandles - 1

VARIABLES
  cmd,      \* the write under way or not yet waited for, NoCmd for none
  open,     \* the file of each handle, 0 for none
  card      \* what the card holds of each entry

mcVars == <<cmd, open, card>>

NoCmd == [state |-> "none", fd |-> 0, buf |-> 0, size |-> 0, answer |-> 0]

Forms == {"absent", "directory", "empty", "part", "plain", "signed", "junk"}
Content(buf, form) == [of |-> buf, form |-> form]

(* mcOpen with O_CREAT | O_TRUNC: any free handle, and an empty file *)
mcOpen(file, fd) ==
  /\ cmd = NoCmd
  /\ open[fd] = 0
  /\ open' = [open EXCEPT ![fd] = file]
  /\ card' = [card EXCEPT ![file] = Content(file, "empty")]

mcMkDir(file) == card' = [card EXCEPT ![file] = Content(file, "directory")]

mcWrite(fd, buf, size) ==
  cmd' = [state |-> "busy", fd |-> fd, buf |-> buf, size |-> size, answer |-> 0]

(* A handle that is not open is refused, without effect. *)
mcClose(fd) ==
  open' = [h \in Handles |-> IF h = fd THEN 0 ELSE open[h]]

(* The IOP carries the write out, taking the bytes from the buffer: all of it,
   less than asked for, or none with an error. *)
CardWrites(bytes) ==
  /\ cmd.state = "busy"
  /\ UNCHANGED open
  /\ \E a \in -1 .. cmd.size :
       /\ open[cmd.fd] = 0 => a = -1
       /\ cmd' = [cmd EXCEPT !.state = "done", !.answer = a]
       /\ IF open[cmd.fd] = 0 \/ cmd.size = 0
          THEN UNCHANGED card
          ELSE card' = [card EXCEPT ![open[cmd.fd]] = IF a = cmd.size THEN bytes ELSE Content(cmd.buf, "part")]

(* mcSync: the answer of the command waited for, or 0 left as it was if there is none *)
mcSync(answer) ==
  /\ cmd.state # "busy"
  /\ answer = IF cmd = NoCmd THEN 0 ELSE cmd.answer
=============================================================================
