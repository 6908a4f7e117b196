-------------------------------- MODULE Mbr --------------------------------
(***************************************************************************)
(* Starting a console from its hard disk: the MBR program (mbr/main.c) and *)
(* its EELOAD (mbr/EELOAD/main.c), on the disk as an installer or an error *)
(* has left it.  Both give up by starting the console's own browser.       *)
(***************************************************************************)
EXTENDS Integers, Sequences

CONSTANTS
  MbrBlocks,         \* blocks of the MBR program, written one at a time
  MaxTroubles        \* bound on the failures and resets of one behaviour

ASSUME MbrAssumption == MbrBlocks \in Nat \ {0} /\ MaxTroubles \in Nat

VARIABLES
  (* the disk *)
  formatted,         \* it has its system partitions (HDIOC_STATUS)
  smartError, sectorError,
  errorPart,         \* partition that is known to have an error, or "none"
  mbr,               \* what each block of the MBR program belongs to
  osdMbr,            \* the header of the disk points to the MBR program
  file,              \* its files: "absent", "torn" or "whole"
  (* the console *)
  hddBoot,           \* booting from the disk is enabled, in its configuration memory
  (* a start of it *)
  boot,              \* where it is, "off" while the installer runs
  ExecuteFsck, i,    \* the list of targets, and the next of them
  stumbled,          \* a step of it has failed
  troubles           \* failures and resets so far

diskVars == <<formatted, smartError, sectorError, errorPart, mbr, osdMbr, file>>
bootVars == <<boot, ExecuteFsck, i, stumbled>>
mbrVars == <<diskVars, hddBoot, bootVars, troubles>>

Programs == {"osdmain", "hosdsys", "fsck"}
Files == Programs \cup {"FREEHDB.CNF", "fmcb", "boot", "app"}

(* Two more, of an older version of the browser, are never there. *)
BootDestinations ==
  [fsck \in BOOLEAN |-> IF fsck THEN <<"fsck", "fsck", "fsck100">> ELSE <<"osdmain", "hosdsys", "hosdsys100">>]

Present(p) == p \in Programs /\ file[p] # "absent"
Mixed == \E a, b \in 1 .. MbrBlocks : mbr[a] # mbr[b]

NoFault == UNCHANGED troubles
Troubled == troubles < MaxTroubles /\ troubles' = troubles + 1

(* A failure of the start itself. *)
Smooth == NoFault /\ UNCHANGED stumbled
Stumbles == Troubled /\ stumbled' = TRUE

Outcomes == Programs \cup {"OSDSYS", "BootBrowser"}

-----------------------------------------------------------------------------
(* The ROM runs a whole MBR program, if it is to, and its own OSDSYS otherwise. *)
PowerOn ==
  /\ boot = "rom"
  /\ boot' = IF hddBoot /\ formatted /\ osdMbr /\ ~Mixed /\ mbr[1] # "none" THEN "check" ELSE "OSDSYS"
  /\ stumbled' = FALSE
  /\ UNCHANGED <<diskVars, hddBoot, ExecuteFsck, i, troubles>>

BootError == boot' = "BootBrowser"

(* main, to the choice of the targets; the user's "SkipFsck" comes from the browser. *)
CheckDisk ==
  /\ boot = "check"
  /\ IF ~formatted \/ smartError \/ sectorError \/ errorPart = "__system"
     THEN BootError /\ UNCHANGED ExecuteFsck
     ELSE /\ boot' = "mount"
          /\ ExecuteFsck' \in {errorPart # "none", FALSE}
  /\ i' = 1
  /\ UNCHANGED <<diskVars, hddBoot, stumbled, troubles>>

Mount ==
  /\ boot = "mount"
  /\ \/ boot' = "open" /\ Smooth
     \/ BootError /\ Stumbles
  /\ UNCHANGED <<diskVars, hddBoot, ExecuteFsck, i>>

(* Faulty variant: only the first target. *)
NumBootTargets_One == 1

NumBootTargets == 3

(* The first target that opens is left to EELOAD for good. *)
OpenTarget ==
  /\ boot = "open" /\ i <= NumBootTargets
  /\ \/ Present(BootDestinations[ExecuteFsck][i]) /\ boot' = "load" /\ Smooth /\ UNCHANGED i
     \/ /\ IF Present(BootDestinations[ExecuteFsck][i]) THEN Stumbles ELSE Smooth
        /\ i' = i + 1 /\ UNCHANGED boot
  /\ UNCHANGED <<diskVars, hddBoot, ExecuteFsck>>

NoTarget ==
  /\ boot = "open" /\ i > NumBootTargets
  /\ BootError
  /\ UNCHANGED <<diskVars, hddBoot, ExecuteFsck, i, stumbled, troubles>>

(* EELOAD.  A file system check clears the error, which it is run for. *)
LoadTarget ==
  /\ boot = "load"
  /\ LET p == BootDestinations[ExecuteFsck][i]
     IN \/ /\ file[p] = "whole" /\ Smooth
           /\ boot' = p
           /\ errorPart' = IF p = "fsck" THEN "none" ELSE errorPart
        \/ /\ IF file[p] = "whole" THEN Stumbles ELSE Smooth
           /\ BootError /\ UNCHANGED errorPart
  /\ UNCHANGED <<formatted, smartError, sectorError, mbr, osdMbr, file, hddBoot, ExecuteFsck, i>>

Boot == PowerOn \/ CheckDisk \/ Mount \/ OpenTarget \/ NoTarget \/ LoadTarget
=============================================================================
