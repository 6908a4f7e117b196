----------------------------- MODULE McInstall -----------------------------
(***************************************************************************)
(* Installation to a memory card and its removal: the menu (menu.c), and   *)
(* what it starts in system.c, step by step, on one card that is moved     *)
(* between consoles.  A card may hold cross-linked files: entries of       *)
(* several names that share the clusters of one executable.  MCTOOLS makes *)
(* and removes them; the card's own driver, MCMAN, frees the clusters with *)
(* the first of them it removes, and the others have lost theirs.          *)
(*                                                                         *)
(* A path is a system folder, I, A, E or C, or CONF for the rest, and a    *)
(* file, which may stand for the three of a group.                         *)
(***************************************************************************)
EXTENDS Integers, Sequences, FiniteSets, SequencesExt

CONSTANTS
  Consoles,          \* consoles, [region, rom, type] each
  Cards,             \* cards, and images to restore, [files, shared, uninst, legacy] each
  Package,           \* the files of each folder of the package that is copied as it is
  NoFile,            \* no uninstallation file
  MaxTroubles        \* bound on the failures of one behaviour, and the resets in the middle of an operation

VARIABLES
  (* the card *)
  files,             \* paths of the files on it
  shared,            \* those that share the clusters of the executable
  lost,              \* those whose clusters have been freed by the removal of another
  uninst,            \* FMCBUINST.dat, [by, names, readable, version], or NoFile
  legacy,            \* uninstall.dat of an old release, in the same form
  (* the program *)
  console,           \* the console it runs on
  hasMulti,          \* MC_FLAG_CARD_HAS_MULTI_INST
  blind,             \* the last poll could not open the uninstallation file
  pc,                \* where it is
  event,             \* of the menu
  flags,             \* INSTALL_MODE_FLAG_*
  FileCopyList,      \* paths to be written
  NumFiles,          \* entries counted (files and folders)
  n,                 \* next entry
  folders,           \* folders to be deleted
  todo,              \* files of the first of them, or of no folder, to be deleted
  data,              \* what has been read from the uninstallation file
  result,            \* of the operation
  (* history *)
  faults, resets

cardVars == <<files, shared, lost, uninst, legacy>>
opVars == <<event, flags, FileCopyList, NumFiles, n, folders, todo, data, result>>
vars == <<cardVars, console, hasMulti, blind, pc, opVars, faults, resets>>

Regions == {"I", "A", "E", "C"}

GetMGFolderLetter(code) ==
  CASE code = "C" -> "C" [] code = "J" -> "I" [] code \in {"H", "A"} -> "A" [] code = "E" -> "E" [] OTHER -> "R"
Console(code, rom, type) == [region |-> GetMGFolderLetter(code), rom |-> rom, type |-> type]

Cnf == <<"CONF", "FREEMCB.CNF">>

FileAlias == << <<"I", "osd130">>, <<"I", "osdmain">>, <<"E", "osd130">>, <<"E", "osdmain">>,
                <<"A", "osd120">>, <<"A", "osd130">>, <<"A", "osdmain">>, <<"C", "osdmain">> >>

(* UpdateRegionalPaths: the executable an early console looks for is named after its ROM, rounded up. *)
SysExecFile(c) ==
  CASE c.rom >= \h130               -> "osdmain"
    [] c.rom \in {\h100, \h101}        -> "osd130"
    [] OTHER -> [v \in {\h110, \h120, \h130} |->
                   IF v = \h110 THEN "osd110" ELSE IF v = \h120 THEN "osd120" ELSE "osd130"]
                [16 * (c.rom \div 16 + 1)]
Own(c) == <<c.region, SysExecFile(c)>>

(* The tables of files: a name in folder R is to be that of the console. *)
BootROM100JUpdateFiles == << <<"I", "osdsys">> >>
BootROM101JUpdateFiles == << <<"I", "osd110">> >>
PS2SysFiles(c) == << Own(c), <<"CONF", "endvdpl">> >>
DEXSysFiles(c) == << <<c.region, "osdmain">> >>
PS2HDDLOADSysFiles == << <<"I", "hddload">> >>      \* three
PSXSysFiles == << <<"I", "xosdmain">> >>            \* three
SysResourceFiles(letter) == << <<letter, "icon">> >> \* three
ConstantFiles == << <<"CONF", "usbhdfsd">> >>
BaseInstallFiles == ConstantFiles \o <<Cnf>>

(* The folders of the package (one of them is listed twice), and the files in them. *)
PackageFolders == <<"BOOT", "APPS", "BOOT", "FMCBD-1.953", "FMCBD-1.966", "OSDMENU", "POPSTARTER", "POWEROFF",
                    "PS1_DKWDRV", "SYS-CONF", "SYS_FMCB-CFG">>
Contents == FlattenSeq([j \in 1 .. Len(PackageFolders) |-> Package[PackageFolders[j]]])

(* The folders that a cleanup deletes. *)
CleanupFolders == <<"I", "A", "E", "C">>

(* The names in the uninstallation file: all but the executable's; and those among the first k of the table. *)
AliasesOf(c) == ToSet(FileAlias) \ {Own(c)}
FirstAliasesOf(c, k) == {FileAlias[j] : j \in 1 .. k} \ {Own(c)}

(* What an uninstallation file names: a file of an older version has no folders. *)
Named(file) == IF file.version = 200 THEN file.names ELSE {<<file.by.region, f>> : f \in file.names}

(* A card as an installation leaves it: there is at most one such file, by a console of the first sort, and it names
   the files that share clusters, but for the executable. *)
Recorded(card) ==
  LET file == IF card.uninst # NoFile THEN card.uninst ELSE card.legacy
  IN IF file = NoFile THEN \A p, q \in card.shared : p = q
     ELSE /\ NoFile \in {card.uninst, card.legacy}
          /\ file.readable /\ file.by.type = "PS2" /\ Named(file) \subseteq AliasesOf(file.by)
          /\ card.shared = Named(file) \cup {Own(file.by)}

-----------------------------------------------------------------------------
(* The list of files to copy (PerformInstallation) *)

TargetSystemType(c, fl) == IF "CROSS_PSX" \in fl THEN "PSX" ELSE c.type
MGLetter(c, fl) == IF "CROSS_PSX" \in fl THEN "I" ELSE c.region
AllRegions(fl) == "MULTI_INST" \in fl \/ "CROSS_REG" \in fl

(* Faulty variant: the updates for early Japanese consoles are for multi-installations alone. *)
AllJapanese_MultiOnly(c, fl) == "MULTI_INST" \in fl

AllJapanese(c, fl) == AllRegions(fl) \/ (MGLetter(c, fl) = "I" /\ "CROSS_MODEL" \in fl)
Hddload(c, fl) == AllJapanese(c, fl) \/ (MGLetter(c, fl) = "I" /\ c.rom <= \h120)

(* Copies of the executable under other names. *)
Copies(c, fl) ==
  LET copied(a) == /\ a # Own(c)
                   /\ IF "CROSS_MODEL" \in fl THEN a[1] = c.region ELSE "CROSS_REG" \in fl
  IN FlattenSeq([j \in 1 .. Len(FileAlias) |-> IF copied(FileAlias[j]) THEN <<FileAlias[j]>> ELSE <<>>])

(* How many there will be: counted by the flags alone. *)
Counted(c, fl) ==
  LET when(condition, k) == IF condition THEN k ELSE 0
      m == MGLetter(c, fl)
  IN 5 + (CASE TargetSystemType(c, fl) = "PSX" -> 3 [] TargetSystemType(c, fl) = "DEX" -> 1 [] OTHER -> 2)
     - when("SKIP_CNF" \in fl, 1)
     + when(AllJapanese(c, fl), 2)
     + when(~AllJapanese(c, fl) /\ m = "I" /\ c.rom \in {\h100, \h101}, 1)
     + when(AllRegions(fl), 9) + when(Hddload(c, fl), 3)
     + Len(Copies(c, fl))

SysFiles(c, fl) ==
  CASE TargetSystemType(c, fl) = "PSX" -> PSXSysFiles
    [] TargetSystemType(c, fl) = "DEX" -> DEXSysFiles(c)
    [] OTHER -> PS2SysFiles(c) \o Copies(c, fl)

UpdateFiles(c, fl) ==
  LET when(condition, s) == IF condition THEN s ELSE <<>>
      japanese(rom) == AllJapanese(c, fl) \/ (MGLetter(c, fl) = "I" /\ c.rom = rom)
  IN when(japanese(\h100), BootROM100JUpdateFiles)
     \o when(japanese(\h101), BootROM101JUpdateFiles)
     \o when(Hddload(c, fl), PS2HDDLOADSysFiles)

ResourceFiles(c, fl) ==
  IF AllRegions(fl)
  THEN SysResourceFiles("I") \o SysResourceFiles("E") \o SysResourceFiles("A") \o SysResourceFiles("C")
  ELSE SysResourceFiles(MGLetter(c, fl))

(* Faulty variant: the configuration is copied although the user keeps the old one. *)
BaseFiles_Always(fl) == BaseInstallFiles

BaseFiles(fl) == IF "SKIP_CNF" \in fl THEN ConstantFiles ELSE BaseInstallFiles

List(c, fl) == SysFiles(c, fl) \o UpdateFiles(c, fl) \o ResourceFiles(c, fl) \o BaseFiles(fl)

(* Entries that the paths of a list stand for. *)
Groups == {"xosdmain", "hddload", "icon"}
Entries(list) == Len(list) + 2 * Cardinality({j \in DOMAIN list : list[j][2] \in Groups})

-----------------------------------------------------------------------------
(* The constants *)

Paths == ToSet(FileAlias) \cup ToSet(Contents) \cup (Regions \X {"icon"}) \cup (Regions \X {"osdmain"})
           \cup {<<"I", f>> : f \in {"osdsys", "osd110", "hddload", "xosdmain"}}
           \cup {Cnf, <<"CONF", "usbhdfsd">>, <<"CONF", "endvdpl">>} \cup {Own(c) : c \in Consoles}

(* A retail console looks for one of the names in the table, and a PSX is Japanese and late. *)
ASSUME ConsolesAssumption ==
  /\ \A c \in Consoles : c.region \in Regions /\ c.rom \in Nat /\ c.type \in {"PS2", "DEX", "PSX"}
  /\ \A c \in Consoles : /\ c.type = "PS2" => Own(c) \in ToSet(FileAlias)
                         /\ c.type = "PSX" => c.region = "I" /\ c.rom > \h120

(* The package has nothing for the system folders, and none of its files stands for three. *)
ASSUME PackageAssumption ==
  \A f \in ToSet(PackageFolders) : Package[f] \in Seq({"CONF", "PKG"} \X (STRING \ Groups))

(* A card has been used by a release that made its lists as this one does. *)
ASSUME CardsAssumption ==
  \A card \in Cards :
    /\ card.files \subseteq Paths /\ card.shared \subseteq card.files \cap ToSet(FileAlias)
    /\ Recorded(card)
    /\ card.uninst # NoFile => card.uninst.version \in {100, 200}
    /\ card.legacy # NoFile => card.legacy.version = 0
    /\ \A file \in {card.uninst, card.legacy} \ {NoFile} :
         file.by \in Consoles /\ file.readable \in BOOLEAN /\ ToSet(List(file.by, {})) \subseteq card.files

ASSUME NoFileAssumption ==
  /\ NoFile \notin [by : Consoles, names : SUBSET Paths, readable : BOOLEAN, version : {200}]
  /\ NoFile \notin [by : Consoles, version : {0, 100, 200}, names : SUBSET Paths]

ASSUME BoundAssumption == MaxTroubles \in Nat

-----------------------------------------------------------------------------
(* The card *)

NoFault == UNCHANGED faults
Fault == faults + resets < MaxTroubles /\ faults' = faults + 1

(* Faulty variant: the clusters stay. *)
Freed_Kept(p) == UNCHANGED <<shared, lost>>

(* MCMAN frees the clusters of what it removes, or writes anew. *)
Freed(p) ==
  /\ shared' = shared \ {p}
  /\ lost' = (lost \ {p}) \cup (IF p \in shared THEN shared \ {p} ELSE {})
McDelete(p) == files' = files \ {p} /\ Freed(p)
McWrite(p) == files' = files \cup {p} /\ Freed(p)

Init ==
  /\ \E card \in Cards : files = card.files /\ shared = card.shared
                         /\ uninst = card.uninst /\ legacy = card.legacy
  /\ lost = {}
  /\ console \in Consoles /\ hasMulti = FALSE /\ blind = FALSE
  /\ pc = "menu" /\ event = "none" /\ flags = {} /\ FileCopyList = <<>> /\ NumFiles = 0 /\ n = 1
  /\ folders = <<>> /\ todo = {} /\ data = NoFile /\ result = "none"
  /\ faults = 0 /\ resets = 0

-----------------------------------------------------------------------------
(* The menu (MainMenu) *)

InstallEvents == {"INSTALL", "MULTI_INSTALL", "INSTALL_CROSS_PSX"}

HasOldFMCBConfigFile == Cnf \in files
HasOldMultiInstall == uninst # NoFile \/ legacy # NoFile

(* GetNumMemcardsInserted, after each choice: the flag of a card is set, and stays until the card is taken for a
   new one, as it is after the IOP has been rebooted. *)
Poll ==
  /\ pc = "menu"
  /\ pc' = "polled"
  /\ \E kept \in {hasMulti, FALSE} :
       \/ hasMulti' = (kept \/ HasOldMultiInstall) /\ blind' = FALSE /\ NoFault
       \/ HasOldMultiInstall /\ hasMulti' = kept /\ blind' = TRUE /\ Fault
  /\ UNCHANGED <<cardVars, console, opVars, resets>>

(* Faulty variant: the table has moved by the event before. *)
CheckPrerequisites_Moved(e) ==
  CASE e \in {"INSTALL", "MULTI_INSTALL"} -> ~hasMulti
    [] e = "CLEANUP"                      -> hasMulti
    [] OTHER                              -> TRUE

(* OpModeFlags says nothing of the events added behind those for a dump and a restoration. *)
CheckPrerequisites(e) ==
  CASE e \in {"INSTALL", "MULTI_INSTALL", "CLEANUP"} -> ~hasMulti
    [] e = "CLEANUP_MULTI"                           -> hasMulti
    [] OTHER                                         -> TRUE

Refuse ==
  /\ pc = "polled"
  /\ pc' = "menu"
  /\ UNCHANGED <<cardVars, console, hasMulti, blind, opVars, faults, resets>>

(* Only on a retail console are there other types of an installation. *)
BeginInstall ==
  /\ pc = "polled"
  /\ \E e \in InstallEvents, kind \in {{}, {"CROSS_MODEL"}, {"CROSS_REG"}}, keep \in {{}, {"SKIP_CNF"}} :
       /\ e # "INSTALL" => console.type = "PS2" /\ kind = {}
       /\ kind # {} => console.type = "PS2"
       /\ CheckPrerequisites(e)
       /\ keep # {} => HasOldFMCBConfigFile
       /\ event' = e
       /\ flags' = kind \cup keep \cup (CASE e = "MULTI_INSTALL" -> {"MULTI_INST"}
                                          [] e = "INSTALL_CROSS_PSX" -> {"CROSS_PSX", "SKIP_CLEANUP"}
                                          [] OTHER -> {})
       /\ FileCopyList' = List(console, flags') /\ NumFiles' = Counted(console, flags')
  /\ n' = 1 /\ pc' = "stats"
  /\ UNCHANGED <<cardVars, console, hasMulti, blind, folders, todo, data, result, faults, resets>>

BeginCleanup ==
  /\ pc = "polled" /\ CheckPrerequisites("CLEANUP")
  /\ event' = "CLEANUP" /\ pc' = "cleanup" /\ folders' = CleanupFolders
  /\ UNCHANGED <<cardVars, console, hasMulti, blind, flags, FileCopyList, NumFiles, n, todo, data, result, faults, resets>>

(* A card that does not answer ends it with an error; a cache that cannot be initialised, with a positive
   number: a success to the menu, which then forgets the flag. *)
BeginCleanupMulti ==
  /\ pc = "polled" /\ CheckPrerequisites("CLEANUP_MULTI")
  /\ event' = "CLEANUP_MULTI"
  /\ \/ pc' = "read" /\ NoFault /\ UNCHANGED <<hasMulti, result>>
     \/ pc' = "shown" /\ result' = "failed" /\ Fault /\ UNCHANGED hasMulti
     \/ pc' = "shown" /\ result' = "complete" /\ Fault /\ hasMulti' = FALSE
  /\ UNCHANGED <<cardVars, console, blind, flags, FileCopyList, NumFiles, n, folders, todo, data, resets>>

Format ==
  /\ pc = "polled" /\ CheckPrerequisites("FORMAT")
  /\ event' = "FORMAT" /\ pc' = "shown"
  /\ \/ /\ files' = {} /\ shared' = {} /\ lost' = {} /\ uninst' = NoFile /\ legacy' = NoFile
        /\ hasMulti' = FALSE /\ result' = "complete" /\ NoFault
     \/ result' = "failed" /\ Fault /\ UNCHANGED <<cardVars, hasMulti>>
  /\ UNCHANGED <<console, blind, flags, FileCopyList, NumFiles, n, folders, todo, data, resets>>

(* A dump reads the card; module McMaint has the steps of both. *)
Dump ==
  /\ pc = "polled" /\ CheckPrerequisites("DUMP_MC")
  /\ event' = "DUMP_MC" /\ pc' = "shown"
  /\ \/ result' = "complete" /\ NoFault
     \/ result' = "failed" /\ Fault
  /\ UNCHANGED <<cardVars, console, hasMulti, blind, flags, FileCopyList, NumFiles, n, folders, todo, data, resets>>

(* A restoration makes the card that of the image, and the flag stays; or it fails before the first block.  (One
   that stops half-way leaves a file system of two cards, which this module has no state for.) *)
Restore ==
  /\ pc = "polled" /\ CheckPrerequisites("RESTORE_MC")
  /\ event' = "RESTORE_MC" /\ pc' = "shown"
  /\ \/ /\ \E image \in Cards : /\ files' = image.files /\ shared' = image.shared
                                /\ uninst' = image.uninst /\ legacy' = image.legacy
        /\ lost' = {} /\ result' = "complete" /\ NoFault
     \/ result' = "failed" /\ Fault /\ UNCHANGED cardVars
  /\ UNCHANGED <<console, hasMulti, blind, flags, FileCopyList, NumFiles, n, folders, todo, data, resets>>

Idle(c) ==
  /\ pc' = "menu" /\ console' = c
  /\ event' = "none" /\ flags' = {} /\ FileCopyList' = <<>> /\ NumFiles' = 0 /\ n' = 1
  /\ folders' = <<>> /\ todo' = {} /\ data' = NoFile /\ result' = "none"
  /\ UNCHANGED <<cardVars, faults>>

Dismiss == pc = "shown" /\ Idle(console) /\ UNCHANGED <<hasMulti, blind, resets>>

(* The card goes to a console that has just been switched on... *)
MoveCard ==
  /\ pc = "menu"
  /\ \E c \in Consoles \ {console} : Idle(c)
  /\ hasMulti' = FALSE /\ blind' = FALSE /\ UNCHANGED resets

(* ...or the power goes in the middle of an operation: without a lock in a cleanup by the power button, too. *)
Reset ==
  /\ pc \notin {"menu", "polled", "shown"} /\ faults + resets < MaxTroubles
  /\ Idle(console)
  /\ hasMulti' = FALSE /\ blind' = FALSE /\ resets' = resets + 1

-----------------------------------------------------------------------------
(* PerformInstallation *)

Show(r) == pc' = "shown" /\ result' = r

(* A file without a status ends it before anything is written... *)
GetAllBaseFileStats ==
  /\ pc = "stats"
  /\ \/ pc' = "list" /\ NoFault /\ UNCHANGED result
     \/ Show("failed") /\ Fault
  /\ UNCHANGED <<cardVars, console, hasMulti, blind, event, flags, FileCopyList, NumFiles, n, folders, todo, data, resets>>

(* AddDirContentsToFileCopyList counts a file before it gets memory for it. *)
AddDirContents ==
  /\ pc = "list" /\ n <= Len(Contents)
  /\ NumFiles' = NumFiles + 1
  /\ \/ FileCopyList' = Append(FileCopyList, Contents[n]) /\ n' = n + 1 /\ NoFault /\ UNCHANGED <<pc, result>>
     \/ Show("failed") /\ Fault /\ UNCHANGED <<FileCopyList, n>>
  /\ UNCHANGED <<cardVars, console, hasMulti, blind, event, flags, folders, todo, data, resets>>

(* ...and so does too little space. *)
CheckSpace ==
  /\ pc = "list" /\ n > Len(Contents)
  /\ \/ Show("failed") /\ UNCHANGED <<n, folders>>
     \/ /\ n' = 1 /\ UNCHANGED result
        /\ IF "SKIP_CLEANUP" \in flags THEN pc' = "folders" /\ UNCHANGED folders
           ELSE pc' = "cleanup" /\ folders' = CleanupFolders
  /\ UNCHANGED <<cardVars, console, hasMulti, blind, event, flags, FileCopyList, NumFiles, todo, data, faults, resets>>

CreateBasicFolders ==
  /\ pc = "folders"
  /\ \/ pc' = "copy" /\ NoFault /\ UNCHANGED result
     \/ Show("failed") /\ Fault
  /\ UNCHANGED <<cardVars, console, hasMulti, blind, event, flags, FileCopyList, NumFiles, n, folders, todo, data, resets>>

(* CopyFiles. *)
CopyFile ==
  /\ pc = "copy" /\ n <= Len(FileCopyList)
  /\ McWrite(FileCopyList[n])
  /\ \/ n' = n + 1 /\ NoFault /\ UNCHANGED <<pc, result>>
     \/ Show("failed") /\ Fault /\ UNCHANGED n
  /\ UNCHANGED <<uninst, legacy, console, hasMulti, blind, event, flags, FileCopyList, NumFiles, folders, todo, data, resets>>

EndCopy ==
  /\ pc = "copy" /\ n > Len(FileCopyList)
  /\ IF "MULTI_INST" \in flags THEN pc' = "uninst" /\ UNCHANGED result ELSE Show("complete")
  /\ UNCHANGED <<cardVars, console, hasMulti, blind, event, flags, FileCopyList, NumFiles, n, folders, todo, data, faults, resets>>

(* No write to the uninstallation file is checked: it may end early, or in its header. *)
GenerateUninstallFile ==
  /\ pc = "uninst"
  /\ LET written(names, r) == [by |-> console, names |-> names, readable |-> r, version |-> 200]
     IN \/ uninst' = written(AliasesOf(console), TRUE) /\ pc' = "link" /\ NoFault /\ UNCHANGED result
        \/ /\ \E k \in 0 .. Len(FileAlias) - 1, r \in BOOLEAN : uninst' = written(FirstAliasesOf(console, k), r)
           /\ pc' = "link" /\ Fault /\ UNCHANGED result
        \/ Show("failed") /\ Fault /\ UNCHANGED uninst
  /\ UNCHANGED <<files, shared, lost, legacy, console, hasMulti, blind, event, flags, FileCopyList, NumFiles, n, folders, todo, data, resets>>

(* CreateCrossLinkedFiles (module CrossLink): after a failure any of the names, and any answer. *)
CreateCrossLinkedFiles ==
  /\ pc = "link"
  /\ \E made \in SUBSET AliasesOf(console), r \in {"complete", "failed"} :
       /\ files' = files \cup made /\ shared' = shared \cup made \cup {Own(console)}
       /\ Show(r)
       /\ IF r = "complete" /\ made = AliasesOf(console) THEN NoFault ELSE Fault
       /\ hasMulti' = (hasMulti \/ r = "complete")
  /\ UNCHANGED <<lost, uninst, legacy, console, blind, event, flags, FileCopyList, NumFiles, n, folders, todo, data, resets>>

-----------------------------------------------------------------------------
(* CleanupTarget, and CleanupMultiInstallation *)

(* The names among the first k entries.  A read that fails ends the loop, and the number of entries then
   overwrites the error.  Files of older versions have no folders, and garbage stands for what is not read. *)
HandleFMCBUninstallFile(file, k) == file.names \cap FirstAliasesOf(file.by, k)
HandleFMCBUninstallFile_100(file, k) ==
  {<<file.by.region, f>> : f \in file.names} \cap FirstAliasesOf(file.by, k)
HandleLegacyFMCBUninstallFile(file, k) == HandleFMCBUninstallFile_100(file, k)

(* The old file is looked for where the new one cannot be opened.  None is a success. *)
ReadUninstallFile ==
  /\ pc = "read"
  /\ \/ Show("complete") /\ hasMulti' = FALSE /\ UNCHANGED data /\ (IF HasOldMultiInstall THEN Fault ELSE NoFault)
     \/ \E file \in {uninst, legacy} \ {NoFile}, read \in BOOLEAN :
          LET opened == file = uninst \/ uninst = NoFile
              all == Len(FileAlias)
          IN IF ~read \/ ~file.readable
             THEN /\ Show("failed") /\ UNCHANGED <<data, hasMulti>>
                  /\ IF file.readable \/ ~opened THEN Fault ELSE NoFault
             ELSE /\ \E k \in 0 .. all :
                       /\ data' = [by |-> file.by, version |-> file.version,
                                   names |-> CASE file.version = 200 -> HandleFMCBUninstallFile(file, k)
                                               [] file.version = 100 -> HandleFMCBUninstallFile_100(file, k)
                                               [] OTHER -> HandleLegacyFMCBUninstallFile(file, k)]
                       /\ IF k = all /\ opened THEN NoFault ELSE Fault
                  /\ pc' = "delete_uninst" /\ UNCHANGED <<result, hasMulti>>
  /\ UNCHANGED <<cardVars, console, blind, event, flags, FileCopyList, NumFiles, n, folders, todo, resets>>

(* Faulty variant: the uninstallation file stays. *)
DeleteUninstallFile_Kept ==
  /\ pc = "delete_uninst"
  /\ pc' = "unlink" /\ NoFault
  /\ UNCHANGED <<cardVars, console, hasMulti, blind, opVars, resets>>

DeleteUninstallFile ==
  /\ pc = "delete_uninst"
  /\ pc' = "unlink"
  /\ \/ /\ IF data.version = 0 THEN legacy' = NoFile /\ UNCHANGED uninst ELSE uninst' = NoFile /\ UNCHANGED legacy
        /\ NoFault
     \/ UNCHANGED <<uninst, legacy>> /\ Fault
  /\ UNCHANGED <<files, shared, lost, console, hasMulti, blind, opVars, resets>>

(* Faulty variant: the names are left to the deletion of their folders. *)
DeleteCrossLinkedFiles_Left ==
  /\ pc = "unlink"
  /\ pc' = "extra" /\ NoFault
  /\ UNCHANGED <<cardVars, console, hasMulti, blind, opVars, resets>>

(* Names that cannot be deleted, or a cache that cannot be flushed, are passed over. *)
DeleteCrossLinkedFiles ==
  /\ pc = "unlink"
  /\ pc' = "extra"
  /\ \E left \in SUBSET (data.names \cap files) :
       /\ files' = files \ (data.names \ left) /\ shared' = shared \cap files' /\ lost' = lost \cap files'
       /\ IF left = {} THEN NoFault ELSE Fault
  /\ UNCHANGED <<uninst, legacy, console, hasMulti, blind, opVars, resets>>

(* Faulty variant: the console's own files are taken for updates of others. *)
Unneeded_Own == {<<"I", "osdsys">>, <<"I", "osd110">>, <<"I", "hddload">>} \cap files

(* Files for early Japanese consoles: by the console that has installed, but for hddload by this one. *)
Unneeded ==
  {p \in files :
     \/ p = <<"I", "osdsys">> /\ (data.by.region # "I" \/ data.by.rom # \h100)
     \/ p = <<"I", "osd110">> /\ (data.by.region # "I" \/ data.by.rom # \h101)
     \/ p = <<"I", "hddload">> /\ (console.region # "I" \/ console.rom > \h120)}

(* The case of E goes on into that of C. *)
OtherFolders(letter) ==
  CASE letter = "I" -> <<"A", "E", "C">>
    [] letter = "A" -> <<"I", "E", "C">>
    [] letter = "E" -> <<"A", "I", "C", "A", "I", "E">>
    [] letter = "C" -> <<"A", "I", "E">>

DeleteUnneeded ==
  /\ pc = "extra"
  /\ todo' = Unneeded
  /\ pc' = "cleanup" /\ folders' = OtherFolders(data.by.region)
  /\ UNCHANGED <<cardVars, console, hasMulti, blind, event, flags, FileCopyList, NumFiles, n, data, result, faults, resets>>

(* DeleteFolder makes a list of the files first; without memory, or a folder that opens, of some. *)
ListFolder ==
  /\ pc = "cleanup" /\ todo = {} /\ folders # <<>>
  /\ folders' = Tail(folders)
  /\ LET inside == {p \in files : p[1] = Head(folders)}
     IN \/ todo' = inside /\ NoFault
        \/ todo' \in SUBSET inside /\ todo' # inside /\ Fault
  /\ UNCHANGED <<cardVars, console, hasMulti, blind, pc, event, flags, FileCopyList, NumFiles, n, data, result, resets>>

DeleteFile ==
  /\ pc = "cleanup"
  /\ \E p \in todo :
       /\ todo' = todo \ {p}
       /\ \/ McDelete(p) /\ NoFault
          \/ UNCHANGED <<files, shared, lost>> /\ Fault
  /\ UNCHANGED <<uninst, legacy, console, hasMulti, blind, pc, event, flags, FileCopyList, NumFiles, n, folders, data, result, resets>>

(* None of these deletions has a result that is looked at. *)
EndCleanup ==
  /\ pc = "cleanup" /\ todo = {} /\ folders = <<>>
  /\ IF event \in InstallEvents THEN pc' = "folders" /\ UNCHANGED result ELSE Show("complete")
  /\ hasMulti' = (hasMulti /\ event # "CLEANUP_MULTI")
  /\ UNCHANGED <<cardVars, console, blind, event, flags, FileCopyList, NumFiles, n, folders, todo, data, faults, resets>>

Next ==
  \/ Poll \/ Refuse \/ BeginInstall \/ BeginCleanup \/ BeginCleanupMulti \/ Format \/ Dump \/ Restore
  \/ Dismiss \/ MoveCard \/ Reset
  \/ GetAllBaseFileStats \/ AddDirContents \/ CheckSpace \/ CreateBasicFolders \/ CopyFile \/ EndCopy
  \/ GenerateUninstallFile \/ CreateCrossLinkedFiles
  \/ ReadUninstallFile \/ DeleteUninstallFile \/ DeleteCrossLinkedFiles \/ DeleteUnneeded
  \/ ListFolder \/ DeleteFile \/ EndCleanup

Spec == Init /\ [][Next]_vars

-----------------------------------------------------------------------------
(* Properties *)

(* The state has its type; what shares clusters is on the card. *)
TypeOK ==
  /\ files \subseteq Paths /\ shared \subseteq files /\ lost \subseteq files
  /\ \A file \in {uninst, legacy} \ {NoFile} :
       /\ file.by \in Consoles /\ file.readable \in BOOLEAN /\ (file.version = 0 <=> file = legacy)
       /\ Named(file) \subseteq Paths
  /\ data # NoFile => data.by \in Consoles /\ data.names \subseteq Paths
  /\ console \in Consoles /\ hasMulti \in BOOLEAN /\ blind \in BOOLEAN
  /\ ToSet(FileCopyList) \subseteq Paths /\ NumFiles \in Nat /\ n \in 1 .. Len(FileCopyList) + 1
  /\ todo \subseteq files /\ ToSet(folders) \subseteq Regions
  /\ result \in {"none", "complete", "failed"}
  /\ faults \in Nat /\ resets \in Nat /\ faults + resets <= MaxTroubles

(* The list is filled with as many entries as have been counted for it, from the flags before and from the folders
   of the package after; only a lack of memory leaves one too many (PerformInstallation). *)
ListCovered ==
  event \in InstallEvents =>
    \/ NumFiles = Entries(FileCopyList)
    \/ result = "failed" /\ faults > 0 /\ NumFiles = Entries(FileCopyList) + 1

(* The consoles an installation is meant for (system.c, before the tables of files). *)
Served ==
  {c \in Consoles :
     CASE "CROSS_PSX" \in flags -> c.type = "PSX" /\ c.region = "I"
       [] AllRegions(flags) -> c.type = "PS2"
       [] "CROSS_MODEL" \in flags -> c.type = "PS2" /\ c.region = console.region
       [] OTHER -> c = console}

(* After an installation reported complete, the card has every file that a normal installation by any console
   it is meant for would have put there, whole (PerformInstallation, FileAlias); for a multi-installation,
   where cross-linking may hide a failure, if nothing has failed. *)
ServesConsoles ==
  pc = "shown" /\ result = "complete" /\ event \in InstallEvents /\ ("MULTI_INST" \in flags => faults = 0) =>
    \A c \in Served : ToSet(List(c, {})) \subseteq files /\ lost \cap ToSet(List(c, {})) = {}

(* Between operations no file has lost its clusters to another of its name, if no step has failed and at most
   one reset has come in between (CleanupMultiInstallation, CheckPrerequisites). *)
NoFileLost == pc = "menu" /\ faults = 0 /\ resets <= 1 => lost = {}

(* MCMAN never cleans a card whose uninstallation file is still there, whatever has failed or been forgotten
   before, unless the file could not be opened a moment ago (GetNumMemcardsInserted, CheckPrerequisites). *)
CleanedWithoutLinks == pc = "cleanup" /\ ~blind /\ event # "CLEANUP_MULTI" => ~HasOldMultiInstall

(* Between operations that have neither failed nor been reset, the uninstallation file names just the files that
   share clusters, but for the executable of the console that made them (GenerateUninstallFile). *)
LinksRecorded ==
  pc = "menu" /\ faults = 0 /\ resets = 0 => Recorded([shared |-> shared, uninst |-> uninst, legacy |-> legacy])

(* A removal of a multi-installation leaves no file of another region; done by the console that made it, and of
   another region than E, it leaves that console's own installation (CleanupMultiInstallation). *)
DowngradeExact ==
  pc = "shown" /\ event = "CLEANUP_MULTI" /\ result = "complete" /\ faults = 0 /\ data # NoFile =>
    /\ \A p \in files : p[1] \in {data.by.region, "CONF", "PKG"}
    /\ console = data.by /\ console.region # "E" => ToSet(List(console, {})) \subseteq files

(* The comment in CleanupMultiInstallation: the 3 other system folders are deleted. *)
OwnFolderKept ==
  pc = "shown" /\ event = "CLEANUP_MULTI" /\ result = "complete" /\ faults = 0 /\ resets = 0 /\ data # NoFile =>
    Own(data.by) \in files
=============================================================================
