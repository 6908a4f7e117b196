----------------------------- MODULE HddInstall -----------------------------
(***************************************************************************)
(* Installation to the hard disk and its removal (system.c, menu.c), with  *)
(* the start from the disk (Mbr) that follows each reset.  Each program,   *)
(* and each group of files that are handled alike, is one entry of a list. *)
(***************************************************************************)
EXTENDS Mbr

VARIABLES
  pc,                \* where the installer is, "off" while there is none
  flags,             \* SKIP_CNF; APPS: the package has applications for the disk
  n,                 \* next entry of the list
  block,             \* next block of the MBR program
  mounted,           \* partition that is mounted as pfs0:, or "none"
  dest,              \* DestFile is open
  apps,              \* the partition PP.FHDB.APPS: "none", "raw", "pfs"
  OpResult,          \* "error" when a configuration call is to be made again, "ok" otherwise
  (* history *)
  last,              \* what has been reported complete since: "installed", "removed" or "none"
  unseen,            \* failures since the last installation has begun whose answers are ignored
  wasEnabled         \* booting from the disk was enabled before the last installation

history == <<last, unseen, wasEnabled>>
instVars == <<pc, flags, n, block, mounted, dest, apps, OpResult, history>>
vars == <<mbrVars, instVars>>

Partitions == {"__mbr", "__system", "__sysconf", "PP.FHDB.APPS"}

At(name, part) == [name |-> name, part |-> part]

(* Faulty variant: the question of the configuration file is taken the other way round. *)
Config_Swapped == IF "SKIP_CNF" \in flags THEN <<At("FREEHDB.CNF", "__sysconf")>> ELSE <<>>

Config == IF "SKIP_CNF" \in flags THEN <<>> ELSE <<At("FREEHDB.CNF", "__sysconf")>>

AppsHDD == IF "APPS" \in flags THEN <<At("app", "PP.FHDB.APPS")>> ELSE <<>>

(* PS2SysHDDFiles, HDDBaseFiles and the folders BOOT-HDD and APPS-HDD, in their order. *)
FileCopyList ==
  <<At("mbr", "__mbr"), At("osdmain", "__system")>> \o Config
    \o <<At("fmcb", "__sysconf"), At("fsck", "__system"), At("boot", "__sysconf")>> \o AppsHDD

(* What _CleanupHDDTarget removes. *)
CleanupList ==
  <<At("osdmain", "__system"), At("fsck", "__system"), At("fmcb", "__sysconf")>>

Cleaning == pc \in {"cleanup", "clean"}
List == IF Cleaning THEN CleanupList ELSE FileCopyList
Entry == List[n]

NoFiles == [f \in Files |-> "absent"]
AllBlocks(m) == [b \in 1 .. MbrBlocks |-> m]

(* A disk that is new, or that has a browser, its file system check or another installation on it. *)
Init ==
  /\ smartError \in BOOLEAN /\ sectorError \in BOOLEAN /\ hddBoot \in BOOLEAN
  /\ \/ formatted = FALSE /\ errorPart = "none" /\ mbr = AllBlocks("none") /\ osdMbr = FALSE /\ file = NoFiles
     \/ /\ formatted = TRUE /\ errorPart \in {"none", "__sysconf"}
        /\ mbr \in {AllBlocks("none"), AllBlocks("old")} /\ osdMbr = (mbr[1] = "old")
        /\ file \in {NoFiles, [NoFiles EXCEPT !["hosdsys"] = "whole", !["fsck"] = "whole"],
                     [f \in Files |-> IF f \in {"hosdsys", "boot", "app"} THEN "absent" ELSE "whole"]}
  /\ boot = "off" /\ ExecuteFsck = FALSE /\ i = 1 /\ stumbled = FALSE /\ troubles = 0
  /\ pc = "menu" /\ flags = {} /\ n = 1 /\ block = 1 /\ mounted = "none" /\ dest = FALSE /\ apps = "none"
  /\ OpResult = "ok"
  /\ last = "none" /\ unseen = 0 /\ wasEnabled = hddBoot

Goto(place) == pc' = place

(* Faulty variant: booting from the disk is enabled before there is anything to boot. *)
Then_EnableFirst == [folders |-> "enable", enable |-> "copy", copy |-> "shown"]

Then == [folders |-> "copy", copy |-> "enable", enable |-> "shown"]

Failed == pc' = "shown"
Unseen == Troubled /\ unseen' = unseen + 1
Seen == UNCHANGED unseen

diskButFiles == <<formatted, smartError, sectorError, errorPart, mbr, osdMbr>>
others == <<hddBoot, bootVars, OpResult>>

-----------------------------------------------------------------------------
(* The menu *)

(* hddFormat: everything on the disk is lost, and an error of a partition with it. *)
hddFormat ==
  \/ /\ formatted' = TRUE /\ errorPart' = "none" /\ osdMbr' = FALSE /\ mbr' = AllBlocks("none")
     /\ file' = NoFiles /\ apps' = "none" /\ NoFault
  \/ UNCHANGED <<formatted, errorPart, osdMbr, mbr, file, apps>> /\ Troubled

FormatHDD ==
  /\ pc = "menu"
  /\ hddFormat
  /\ last' = "none"
  /\ UNCHANGED <<smartError, sectorError, others, pc, flags, n, block, mounted, dest, unseen, wasEnabled>>

(* A disk that is not formatted is formatted, and taken for formatted whether that has worked or not. *)
CheckFormat ==
  IF formatted THEN UNCHANGED <<formatted, errorPart, osdMbr, mbr, file, apps>> /\ NoFault ELSE hddFormat

HDDCheckSMARTStatus == smartError
HDDCheckSectorErrorStatus == smartError   \* the same question again
HDDCheckPartErrorStatus == errorPart # "none"

HasOldFMCBConfigFileOnHDD == file["FREEHDB.CNF"] # "absent"

InstallFHDB ==
  /\ pc = "menu" /\ ~HDDCheckSMARTStatus
  /\ CheckFormat
  /\ ~HDDCheckSectorErrorStatus /\ ~HDDCheckPartErrorStatus'
  /\ flags' \in SUBSET {"SKIP_CNF", "APPS"} /\ ("SKIP_CNF" \in flags' => HasOldFMCBConfigFileOnHDD')
  /\ pc' = "list" /\ n' = 1 /\ last' = "none" /\ unseen' = 0 /\ wasEnabled' = hddBoot
  /\ UNCHANGED <<smartError, sectorError, others, block, mounted, dest>>

CleanupFHDB ==
  /\ pc = "menu"
  /\ pc' = "cleanup" /\ n' = 1 /\ last' = "none"
  /\ UNCHANGED <<mbrVars, flags, block, mounted, dest, apps, OpResult, unseen, wasEnabled>>

Dismiss ==
  /\ pc = "shown"
  /\ pc' = "menu"
  /\ UNCHANGED <<mbrVars, flags, n, block, mounted, dest, apps, OpResult, history>>

(* The installer is left, or the power lost at any moment: the console starts. *)
Restart ==
  /\ boot = "off"
  /\ IF pc \in {"menu", "shown"} THEN NoFault ELSE Troubled
  /\ boot' = "rom" /\ pc' = "off" /\ mounted' = "none" /\ dest' = FALSE /\ OpResult' = "ok"
  /\ UNCHANGED <<diskVars, hddBoot, ExecuteFsck, i, stumbled, flags, n, block, apps, history>>

(* The installer is started, from another device, whatever the console has come to. *)
StartInstaller ==
  /\ boot \in Outcomes
  /\ boot' = "off" /\ pc' = "menu"
  /\ UNCHANGED <<diskVars, hddBoot, ExecuteFsck, i, stumbled, troubles, flags, n, block, mounted, dest, apps, OpResult, history>>

-----------------------------------------------------------------------------
(* PerformHDDInstallation, to the copying *)

(* The list is made, with the status of each file; the package may be incomplete. *)
MakeList ==
  /\ pc = "list"
  /\ \/ Goto(IF "APPS" \in flags THEN "apps" ELSE "clean")
     \/ Failed
  /\ UNCHANGED <<mbrVars, flags, n, block, mounted, dest, apps, OpResult, history>>

(* A partition for the applications that can be mounted has to have room; one that cannot be, for whatever reason,
   is made, if the disk has room. *)
CheckAppsPartition ==
  /\ pc = "apps"
  /\ \/ apps = "pfs" /\ NoFault /\ (Goto("clean") \/ Failed)
     \/ (IF apps = "pfs" THEN Troubled ELSE NoFault) /\ (Goto("create") \/ Failed)
  /\ UNCHANGED <<diskVars, others, flags, n, block, mounted, dest, apps, history>>

(* The partition is opened with O_CREAT, and its first sector cleared. *)
CreateAPPSPartition ==
  /\ pc = "create"
  /\ \/ apps' = "raw" /\ file' = [file EXCEPT !["app"] = "absent"] /\ formatted /\ NoFault /\ Goto("format")
     \/ UNCHANGED <<apps, file>> /\ (IF formatted THEN Troubled ELSE NoFault) /\ Failed
  /\ UNCHANGED <<diskButFiles, others, flags, n, block, mounted, dest, history>>

FormatAPPSPartition ==
  /\ pc = "format"
  /\ \/ apps' = "pfs" /\ NoFault /\ Goto("attributes")
     \/ UNCHANGED apps /\ Troubled /\ Failed
  /\ UNCHANGED <<diskVars, others, flags, n, block, mounted, dest, history>>

(* A partition whose attributes cannot be written is deleted again. *)
WriteAPPSPartitionAttributes ==
  /\ pc = "attributes"
  /\ \/ UNCHANGED apps /\ NoFault /\ Goto("clean")
     \/ apps' = "none" /\ Troubled /\ Failed
  /\ UNCHANGED <<diskVars, others, flags, n, block, mounted, dest, history>>

-----------------------------------------------------------------------------
(* Mounting, for the cleaning and for the copying *)

AtEntry == (Cleaning \/ pc = "copy") /\ n <= Len(List)

(* Faulty variant: what is mounted stays. *)
NeedsMount_First == mounted = "none"

(* Faulty variant: the name of the mounted partition is not kept. *)
NeedsMount_Always == TRUE

NeedsMount == mounted # Entry.part

(* A partition is mounted after the last one has been unmounted. *)
MountTarget ==
  /\ AtEntry /\ Entry.name # "mbr" /\ NeedsMount
  /\ \/ /\ formatted /\ (Entry.part = "PP.FHDB.APPS" => apps = "pfs")
        /\ mounted' = Entry.part /\ NoFault /\ UNCHANGED pc
     \/ mounted' = "none" /\ (IF formatted THEN Troubled ELSE NoFault) /\ Failed
  /\ UNCHANGED <<diskVars, others, flags, n, block, dest, apps, history>>

(* A file that cannot be removed is left without a word. *)
RemoveFile ==
  /\ AtEntry /\ Cleaning /\ ~NeedsMount
  /\ \/ file' = [file EXCEPT ![Entry.name] = "absent"] /\ NoFault /\ Seen
     \/ file[Entry.name] # "absent" /\ UNCHANGED file /\ Unseen
  /\ n' = n + 1
  /\ UNCHANGED <<diskButFiles, others, pc, flags, block, mounted, dest, apps, last, wasEnabled>>

EndCleanup ==
  /\ Cleaning /\ n > Len(List)
  /\ mounted' = "none" /\ n' = 1 /\ block' = 1
  /\ \/ pc = "cleanup" /\ pc' = "shown" /\ last' = "removed"
     \/ pc = "clean" /\ pc' = "folders" /\ UNCHANGED last
  /\ UNCHANGED <<mbrVars, flags, dest, apps, OpResult, unseen, wasEnabled>>

CreateBasicFoldersOnHDD ==
  /\ pc = "folders"
  /\ \/ Goto(Then.folders) /\ NoFault
     \/ Failed /\ Troubled
  /\ UNCHANGED <<diskVars, others, flags, n, block, mounted, dest, apps, history>>

-----------------------------------------------------------------------------
(* CopyFilesToHDD *)

(* Faulty variant: one block too many. *)
MbrBlockLeft_OffByOne == block <= MbrBlocks + 1

MbrBlockLeft == block <= MbrBlocks

(* InstallMBRToHDD, in place. *)
WriteMbrBlock ==
  /\ AtEntry /\ Entry.name = "mbr" /\ MbrBlockLeft
  /\ \/ mbr' = [mbr EXCEPT ![block] = "new"] /\ block' = block + 1 /\ NoFault /\ UNCHANGED <<pc, mounted>>
     \/ UNCHANGED <<mbr, block>> /\ Troubled /\ Failed /\ mounted' = "none"
  /\ UNCHANGED <<formatted, smartError, sectorError, errorPart, osdMbr, file, others, flags, n, dest, apps, history>>

(* The answer of APA_DEVCTL_SET_OSDMBR is not looked at. *)
SetOsdMbr ==
  /\ AtEntry /\ Entry.name = "mbr" /\ ~MbrBlockLeft
  /\ \/ osdMbr' = TRUE /\ NoFault /\ Seen
     \/ UNCHANGED osdMbr /\ Unseen
  /\ n' = n + 1
  /\ UNCHANGED <<formatted, smartError, sectorError, errorPart, mbr, file, others, pc, flags, block, mounted, dest,
                 apps, last, wasEnabled>>

(* fopen(MountPath, "wb") *)
OpenDestFile ==
  /\ AtEntry /\ pc = "copy" /\ Entry.name # "mbr" /\ ~NeedsMount /\ ~dest
  /\ \/ file' = [file EXCEPT ![Entry.name] = "torn"] /\ dest' = TRUE /\ NoFault /\ UNCHANGED <<pc, mounted>>
     \/ UNCHANGED <<file, dest>> /\ Troubled /\ Failed /\ mounted' = "none"
  /\ UNCHANGED <<diskButFiles, others, flags, n, block, apps, history>>

(* All of a file is written, or a read or a write fails, which may leave the partition with an error; that fclose
   fails is not seen. *)
WriteDestFile ==
  /\ AtEntry /\ dest
  /\ dest' = FALSE
  /\ \/ /\ file' = [file EXCEPT ![Entry.name] = "whole"] /\ NoFault /\ Seen
        /\ n' = n + 1 /\ UNCHANGED <<pc, mounted, errorPart>>
     \/ UNCHANGED file /\ Unseen /\ n' = n + 1 /\ UNCHANGED <<pc, mounted, errorPart>>
     \/ /\ UNCHANGED <<file, n>> /\ Troubled /\ Seen /\ Failed
        /\ mounted' = "none" /\ errorPart' \in {errorPart, Entry.part}
  /\ UNCHANGED <<formatted, smartError, sectorError, mbr, osdMbr, others, flags, block, apps, last, wasEnabled>>

EndCopy ==
  /\ pc = "copy" /\ n > Len(List)
  /\ mounted' = "none" /\ Goto(Then.copy)
  /\ UNCHANGED <<mbrVars, flags, n, block, dest, apps, OpResult, history>>

(* The calls to the configuration memory in their order, each made again while it answers an error. *)
ConfigCalls == {"enable", "write_config", "close_config"}

ConfigDone == Goto(Then.enable) /\ last' = IF pc' = "shown" THEN "installed" ELSE last

(* sceCdOpenConfig, sceCdReadConfig and sceCdCloseConfig *)
ReadConfig ==
  /\ pc = "enable"
  /\ IF hddBoot THEN ConfigDone ELSE Goto("write_config") /\ UNCHANGED last
  /\ UNCHANGED hddBoot

(* sceCdOpenConfig, now for writing, and sceCdWriteConfig *)
WriteConfig == pc = "write_config" /\ hddBoot' = TRUE /\ Goto("close_config") /\ UNCHANGED last

CloseConfig == pc = "close_config" /\ ConfigDone /\ UNCHANGED hddBoot

(* No bound is set to the errors that are answered. *)
EnableHDDBooting ==
  /\ pc \in ConfigCalls
  /\ \/ OpResult = "ok" /\ UNCHANGED OpResult /\ (ReadConfig \/ WriteConfig \/ CloseConfig)
     \/ OpResult' \in {"ok", "error"} \ {OpResult} /\ UNCHANGED <<pc, hddBoot, last>>
  /\ UNCHANGED <<diskVars, bootVars, troubles, flags, n, block, mounted, dest, apps, unseen, wasEnabled>>

Install ==
  \/ MakeList \/ CheckAppsPartition \/ CreateAPPSPartition \/ FormatAPPSPartition \/ WriteAPPSPartitionAttributes
  \/ MountTarget \/ RemoveFile \/ EndCleanup \/ CreateBasicFoldersOnHDD
  \/ WriteMbrBlock \/ SetOsdMbr \/ OpenDestFile \/ WriteDestFile \/ EndCopy \/ EnableHDDBooting

Start == Boot /\ UNCHANGED instVars

Next ==
  \/ FormatHDD \/ InstallFHDB \/ CleanupFHDB \/ Dismiss \/ Restart \/ StartInstaller
  \/ Install \/ Start

(* An operation and a start, once begun, go on to their end by themselves. *)
Spec == Init /\ [][Next]_vars /\ WF_vars(Install) /\ WF_vars(Start)

-----------------------------------------------------------------------------
DiskTypeOK ==
  /\ formatted \in BOOLEAN /\ smartError \in BOOLEAN /\ sectorError \in BOOLEAN
  /\ errorPart \in Partitions \cup {"none"}
  /\ mbr \in [1 .. MbrBlocks -> {"none", "old", "new"}] /\ osdMbr \in BOOLEAN
  /\ file \in [Files -> {"absent", "torn", "whole"}]

BootTypeOK ==
  /\ hddBoot \in BOOLEAN
  /\ boot \in {"off", "rom", "check", "mount", "open", "load"} \cup Outcomes
  /\ ExecuteFsck \in BOOLEAN /\ i \in 1 .. NumBootTargets + 1 /\ stumbled \in BOOLEAN

InstTypeOK ==
  /\ pc \in {"off", "menu", "shown", "list", "apps", "create", "format", "attributes", "clean", "cleanup", "folders",
             "copy"} \cup ConfigCalls
  /\ flags \in SUBSET {"SKIP_CNF", "APPS"} /\ n \in 1 .. 8 /\ block \in 1 .. MbrBlocks + 1
  /\ mounted \in Partitions \cup {"none"} /\ dest \in BOOLEAN /\ apps \in {"none", "raw", "pfs"}
  /\ OpResult \in {"ok", "error"}
  /\ last \in {"none", "installed", "removed"} /\ wasEnabled \in BOOLEAN

CountsOK == troubles \in 0 .. MaxTroubles /\ unseen \in 0 .. troubles

TypeOK == DiskTypeOK /\ BootTypeOK /\ InstTypeOK /\ CountsOK

(* A console that has not started from its disk before a first installation does not, after however many that have *)
(* failed or were cut off, start from a disk with an MBR program or a program that is written in part.             *)
FirstInstallSafe ==
  hddBoot /\ ~wasEnabled /\ unseen = 0 => ~Mixed /\ \A p \in Programs : file[p] # "torn"

(* What an installation that is reported complete has left on the disk, but for failures that it does not look at: *)
(* all of a new MBR program, and all the files it had to copy.                                                      *)
InstalledIsWhole ==
  last = "installed" /\ unseen = 0 =>
    /\ mbr = AllBlocks("new") /\ osdMbr /\ hddBoot
    /\ \A f \in {"osdmain", "fsck", "fmcb", "boot"} : file[f] = "whole"
    /\ "SKIP_CNF" \notin flags => file["FREEHDB.CNF"] = "whole"
    /\ "APPS" \in flags => apps = "pfs" /\ file["app"] = "whole"

(* A file is written to the partition it is meant for, and none stays mounted behind an operation. *)
MountedRight ==
  /\ dest => mounted = Entry.part
  /\ pc \in {"menu", "shown", "off"} \cup ConfigCalls => mounted = "none" /\ ~dest

(* What a start without a failure of its own comes to on a disk without errors, before the next operation: the      *)
(* installed program after an installation; after a removal, and a MBR program that is still started, the browser    *)
(* of the disk if there is one and the one of the console otherwise.                                                *)
Settled == boot \in Outcomes /\ ~stumbled /\ unseen = 0
Healthy == ~smartError /\ ~sectorError /\ errorPart # "__system"

BootsAsLeft ==
  /\ Settled /\ Healthy /\ last = "installed" => boot = "osdmain"
  /\ Settled /\ Healthy /\ last = "removed" /\ ~ExecuteFsck /\ boot # "OSDSYS" =>
       boot = IF file["hosdsys"] = "whole" THEN "hosdsys" ELSE "BootBrowser"

(* An installation that is reported complete is what the console starts: an installation is refused on a disk with  *)
(* a sector error (menu.c:687), for which the MBR program would refuse the start (mbr/main.c:178).                  *)
InstalledBoots == Settled /\ last = "installed" => boot = "osdmain"

(* An operation that has begun ends, whatever fails, unless the configuration memory goes on answering errors for   *)
(* ever: its calls are made again without a bound, with the lock held.  A start comes to a program.                  *)
Running == pc \notin {"off", "menu", "shown"}
ConfigAnswers == <>[](OpResult = "ok")
Ends == (ConfigAnswers => (Running ~> ~Running)) /\ (boot = "rom" ~> boot \in Outcomes)
=============================================================================
