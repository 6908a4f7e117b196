-------------------------- MODULE HddInstallProofs --------------------------
(***************************************************************************)
(* Proofs about the installation to the hard disk: IInv is inductive, and  *)
(* the safety properties of HddInstall follow from it.  There is a lemma   *)
(* for what the lists hold and one for every action, or group of actions   *)
(* that leave the same things alone.                                       *)
(***************************************************************************)
EXTENDS HddInstall, SequenceTheorems, TLAPS

-----------------------------------------------------------------------------
(* What the lists hold *)

Kinds ==
  {At("mbr", "__mbr"), At("osdmain", "__system"), At("FREEHDB.CNF", "__sysconf"), At("fmcb", "__sysconf"),
   At("fsck", "__system"), At("boot", "__sysconf"), At("app", "PP.FHDB.APPS")}

LEMMA OneKind == ASSUME NEW x \in Kinds PROVE <<x>> \in Seq(Kinds) /\ Len(<<x>>) = 1 /\ <<x>>[1] = x
  OBVIOUS

LEMMA TwoKinds == ASSUME NEW x \in Kinds, NEW y \in Kinds
                  PROVE <<x, y>> \in Seq(Kinds) /\ Len(<<x, y>>) = 2 /\ <<x, y>>[1] = x /\ <<x, y>>[2] = y
  OBVIOUS

LEMMA ThreeKinds == ASSUME NEW x \in Kinds, NEW y \in Kinds, NEW z \in Kinds
                    PROVE  /\ <<x, y, z>> \in Seq(Kinds) /\ Len(<<x, y, z>>) = 3
                           /\ <<x, y, z>>[1] = x /\ <<x, y, z>>[2] = y /\ <<x, y, z>>[3] = z
  OBVIOUS

LEMMA NoKind == <<>> \in Seq(Kinds) /\ Len(<<>>) = 0
  OBVIOUS

LEMMA KindsFacts ==
  /\ At("mbr", "__mbr") \in Kinds /\ At("osdmain", "__system") \in Kinds /\ At("FREEHDB.CNF", "__sysconf") \in Kinds
  /\ At("fmcb", "__sysconf") \in Kinds /\ At("fsck", "__system") \in Kinds /\ At("boot", "__sysconf") \in Kinds
  /\ At("app", "PP.FHDB.APPS") \in Kinds
  BY DEF Kinds

LEMMA Appended ==
  ASSUME NEW s \in Seq(Kinds), NEW t \in Seq(Kinds)
  PROVE  /\ s \o t \in Seq(Kinds) /\ Len(s \o t) = Len(s) + Len(t)
         /\ \A k \in 1 .. Len(s) : (s \o t)[k] = s[k]
         /\ \A k \in 1 .. Len(t) : (s \o t)[Len(s) + k] = t[k]
<1>1. Len(s) \in Nat /\ Len(t) \in Nat
  BY LenProperties
<1>2. s \o t \in Seq(Kinds) /\ Len(s \o t) = Len(s) + Len(t)
  BY ConcatProperties
<1>3. ASSUME NEW k \in 1 .. Len(s) PROVE (s \o t)[k] = s[k]
  BY <1>1, ConcatProperties
<1>4. ASSUME NEW k \in 1 .. Len(t) PROVE (s \o t)[Len(s) + k] = t[k]
  BY <1>1, ConcatProperties
<1> QED
  BY <1>2, <1>3, <1>4

LEMMA ConfigFacts ==
  /\ Config \in Seq(Kinds) /\ Len(Config) = (IF "SKIP_CNF" \in flags THEN 0 ELSE 1)
  /\ "SKIP_CNF" \notin flags => Config[1] = At("FREEHDB.CNF", "__sysconf")
<1>1. CASE "SKIP_CNF" \in flags
  BY <1>1, NoKind DEF Config
<1>2. CASE "SKIP_CNF" \notin flags
  BY <1>2, OneKind, KindsFacts DEF Config
<1> QED
  BY <1>1, <1>2

LEMMA AppsFacts ==
  /\ AppsHDD \in Seq(Kinds) /\ Len(AppsHDD) = (IF "APPS" \in flags THEN 1 ELSE 0)
  /\ "APPS" \in flags => AppsHDD[1] = At("app", "PP.FHDB.APPS")
<1>1. CASE "APPS" \in flags
  BY <1>1, OneKind, KindsFacts DEF AppsHDD
<1>2. CASE "APPS" \notin flags
  BY <1>2, NoKind DEF AppsHDD
<1> QED
  BY <1>1, <1>2

(* The place of every entry, after which the list has no other. *)
LEMMA CopyListFacts ==
  LET c == Len(Config)
  IN  /\ FileCopyList \in Seq(Kinds) /\ c \in 0 .. 1 /\ Len(FileCopyList) = 5 + c + Len(AppsHDD)
      /\ Len(AppsHDD) \in 0 .. 1
      /\ FileCopyList[1] = At("mbr", "__mbr") /\ FileCopyList[2] = At("osdmain", "__system")
      /\ "SKIP_CNF" \notin flags => c = 1 /\ FileCopyList[3] = At("FREEHDB.CNF", "__sysconf")
      /\ FileCopyList[3 + c] = At("fmcb", "__sysconf") /\ FileCopyList[4 + c] = At("fsck", "__system")
      /\ FileCopyList[5 + c] = At("boot", "__sysconf")
      /\ "APPS" \in flags => Len(AppsHDD) = 1 /\ FileCopyList[6 + c] = At("app", "PP.FHDB.APPS")
<1> DEFINE a == <<At("mbr", "__mbr"), At("osdmain", "__system")>>
           b == <<At("fmcb", "__sysconf"), At("fsck", "__system"), At("boot", "__sysconf")>>
<1>1. a \in Seq(Kinds) /\ Len(a) = 2 /\ a[1] = At("mbr", "__mbr") /\ a[2] = At("osdmain", "__system")
  BY KindsFacts, TwoKinds
<1>2. /\ b \in Seq(Kinds) /\ Len(b) = 3
      /\ b[1] = At("fmcb", "__sysconf") /\ b[2] = At("fsck", "__system") /\ b[3] = At("boot", "__sysconf")
  BY KindsFacts, ThreeKinds
<1>3. FileCopyList = a \o Config \o b \o AppsHDD
  BY DEF FileCopyList
<1> HIDE DEF a, b
<1>4. Len(Config) \in 0 .. 1 /\ Len(AppsHDD) \in 0 .. 1
  BY ConfigFacts, AppsFacts
<1>0. Config \in Seq(Kinds)
  BY ConfigFacts
<1>5. /\ a \o Config \in Seq(Kinds) /\ Len(a \o Config) = Len(a) + Len(Config)
      /\ \A k \in 1 .. Len(a) : (a \o Config)[k] = a[k]
      /\ \A k \in 1 .. Len(Config) : (a \o Config)[Len(a) + k] = Config[k]
  BY <1>0, <1>1, Appended
<1> DEFINE ac == a \o Config
<1> HIDE DEF ac
<1>6. /\ ac \o b \in Seq(Kinds) /\ Len(ac \o b) = 5 + Len(Config)
      /\ \A k \in 1 .. Len(ac) : (ac \o b)[k] = ac[k]
      /\ \A k \in 1 .. 3 : (ac \o b)[Len(ac) + k] = b[k]
  <2>1. ac \in Seq(Kinds) /\ Len(ac) = 2 + Len(Config) /\ b \in Seq(Kinds) /\ Len(b) = 3
    BY <1>1, <1>2, <1>5 DEF ac
  <2>2. /\ ac \o b \in Seq(Kinds) /\ Len(ac \o b) = Len(ac) + Len(b)
        /\ \A k \in 1 .. Len(ac) : (ac \o b)[k] = ac[k]
        /\ \A k \in 1 .. Len(b) : (ac \o b)[Len(ac) + k] = b[k]
    BY <2>1, Appended
  <2> QED
    BY <1>4, <2>1, <2>2
<1> DEFINE acb == ac \o b
<1> HIDE DEF acb
<1>7. /\ acb \o AppsHDD \in Seq(Kinds) /\ Len(acb \o AppsHDD) = 5 + Len(Config) + Len(AppsHDD)
      /\ \A k \in 1 .. Len(acb) : (acb \o AppsHDD)[k] = acb[k]
      /\ \A k \in 1 .. Len(AppsHDD) : (acb \o AppsHDD)[Len(acb) + k] = AppsHDD[k]
  <2>1. acb \in Seq(Kinds) /\ Len(acb) = 5 + Len(Config) /\ AppsHDD \in Seq(Kinds)
    BY <1>6, AppsFacts DEF acb
  <2>2. /\ acb \o AppsHDD \in Seq(Kinds) /\ Len(acb \o AppsHDD) = Len(acb) + Len(AppsHDD)
        /\ \A k \in 1 .. Len(acb) : (acb \o AppsHDD)[k] = acb[k]
        /\ \A k \in 1 .. Len(AppsHDD) : (acb \o AppsHDD)[Len(acb) + k] = AppsHDD[k]
    BY <2>1, Appended
  <2> QED
    BY <2>1, <2>2
<1> QED
  BY <1>1, <1>2, <1>3, <1>4, <1>5, <1>6, <1>7, ConfigFacts, AppsFacts, SMTT(30) DEF ac, acb

LEMMA KindMeans ==
  \A e \in Kinds : /\ e.name \in {"mbr", "osdmain", "FREEHDB.CNF", "fmcb", "fsck", "boot", "app"}
                   /\ e.part \in Partitions
                   /\ e.name = "app" => e.part = "PP.FHDB.APPS"
  BY DEF Kinds, At, Partitions

LEMMA CopyListType ==
  /\ Len(FileCopyList) \in 5 .. 7
  /\ \A k \in 1 .. Len(FileCopyList) : FileCopyList[k] \in Kinds
<1> DEFINE c == Len(Config)
           d == Len(AppsHDD)
           len == Len(FileCopyList)
<1> HIDE DEF c, d, len
<1>1. FileCopyList \in Seq(Kinds) /\ c \in 0 .. 1 /\ d \in 0 .. 1 /\ len = 5 + c + d
  BY CopyListFacts DEF c, d, len
<1>2. len \in 5 .. 7
  BY <1>1
<1> QED
  BY <1>1, <1>2, ElementOfSeq DEF len

LEMMA CleanupListType ==
  /\ Len(CleanupList) = 3
  /\ \A k \in 1 .. 3 : CleanupList[k] \in Kinds /\ CleanupList[k].name # "mbr" /\ CleanupList[k].part # "PP.FHDB.APPS"
  BY DEF CleanupList, Kinds, At

(* Names the list is to copy, before and from entry n. *)
Names == {FileCopyList[k].name : k \in 1 .. Len(FileCopyList)}
Pending == {FileCopyList[k].name : k \in n .. Len(FileCopyList)}

LEMMA Listed ==
  /\ {"mbr", "osdmain", "fmcb", "fsck", "boot"} \subseteq Names
  /\ "SKIP_CNF" \notin flags => "FREEHDB.CNF" \in Names
  /\ "APPS" \in flags => "app" \in Names
<1> DEFINE c == Len(Config)
           d == Len(AppsHDD)
           len == Len(FileCopyList)
<1> HIDE DEF c, d, len
<1>1. /\ c \in 0 .. 1 /\ len = 5 + c + d /\ d \in 0 .. 1
      /\ FileCopyList[1].name = "mbr" /\ FileCopyList[2].name = "osdmain"
      /\ "SKIP_CNF" \notin flags => c = 1 /\ FileCopyList[3].name = "FREEHDB.CNF"
      /\ FileCopyList[3 + c].name = "fmcb" /\ FileCopyList[4 + c].name = "fsck"
      /\ FileCopyList[5 + c].name = "boot"
      /\ "APPS" \in flags => d = 1 /\ FileCopyList[6 + c].name = "app"
  BY CopyListFacts DEF At, c, d, len
<1>2. \A k \in 1 .. len : FileCopyList[k].name \in Names
  BY DEF Names, len
<1>3. /\ 1 \in 1 .. len /\ 2 \in 1 .. len /\ 3 + c \in 1 .. len /\ 4 + c \in 1 .. len /\ 5 + c \in 1 .. len
      /\ c = 1 => 3 \in 1 .. len
      /\ d = 1 => 6 + c \in 1 .. len
  BY <1>1
<1> QED
  BY <1>1, <1>2, <1>3

-----------------------------------------------------------------------------
(* The invariant *)

Installing == pc \in {"list", "apps", "create", "format", "attributes", "clean", "folders", "copy"} \cup ConfigCalls

MountOK ==
  /\ pc \notin {"cleanup", "clean", "copy"} => mounted = "none"
  /\ dest => pc = "copy" /\ n <= Len(FileCopyList) /\ mounted = Entry.part /\ Entry.name # "mbr"
  /\ mounted = "PP.FHDB.APPS" => apps = "pfs"

EnabledOK ==
  /\ Installing /\ pc # "close_config" => hddBoot = wasEnabled
  /\ pc = "close_config" => hddBoot

PlaceOK ==
  /\ pc = "folders" => n = 1 /\ block = 1
  /\ pc = "copy" => \A b \in 1 .. block - 1 : mbr[b] = "new"

Done(f) ==
  IF f = "mbr" THEN mbr = AllBlocks("new") /\ osdMbr ELSE file[f] = "whole" /\ (f = "app" => apps = "pfs")

(* What an entry stands for is done when no entry for it is left. *)
CopyOK == pc = "copy" /\ unseen = 0 => \A f \in Names \ Pending : Done(f)
EnableOK == pc \in ConfigCalls /\ unseen = 0 => \A f \in Names : Done(f)

InstalledOK ==
  last = "installed" => pc \in {"menu", "shown", "off"} /\ hddBoot /\ (unseen = 0 => \A f \in Names : Done(f))

OthersOK == file["hosdsys"] # "torn"

(* Either the installer or a start of the console is on. *)
OffOK == pc = "off" <=> boot # "off"

LoadOK == boot = "load" => BootDestinations[ExecuteFsck][i] \in Programs

IInv ==
  /\ TypeOK /\ MountOK /\ EnabledOK /\ PlaceOK /\ CopyOK /\ EnableOK /\ InstalledOK /\ OthersOK /\ OffOK /\ LoadOK
  /\ FirstInstallSafe

-----------------------------------------------------------------------------
(* What the steps have in common *)

USE MbrAssumption DEF Partitions, Files, Programs, ConfigCalls

LEMMA SameList ==
  ASSUME flags' = flags PROVE FileCopyList' = FileCopyList /\ Names' = Names /\ (n' = n => Pending' = Pending)
  BY DEF FileCopyList, Config, AppsHDD, At, Names, Pending

(* A step that touches neither the programs on the disk nor what is known of the installation, and stays in its place
   or goes to one where no operation is on. *)
LEMMA StillSafe ==
  ASSUME IInv, UNCHANGED <<mbr, osdMbr, file, apps, hddBoot, flags, history>>,
         pc' = pc \/ pc' \in {"menu", "shown", "off"},
         pc' \in {"folders", "copy"} => UNCHANGED <<n, block>>
  PROVE  EnabledOK' /\ PlaceOK' /\ CopyOK' /\ EnableOK' /\ InstalledOK' /\ OthersOK' /\ FirstInstallSafe'
<1> USE SameList DEF IInv, history
<1>1. EnabledOK'
  BY DEF EnabledOK, Installing
<1>2. PlaceOK'
  BY DEF PlaceOK, TypeOK
<1>3. Names' = Names /\ (pc' = "copy" => Pending' = Pending) /\ \A f : Done(f)' = Done(f)
  BY DEF Done, AllBlocks
<1>4. CopyOK' /\ EnableOK'
  BY <1>3 DEF CopyOK, EnableOK
<1>5. InstalledOK'
  BY <1>3 DEF InstalledOK
<1>6. OthersOK' /\ FirstInstallSafe'
  BY DEF OthersOK, FirstInstallSafe, Mixed
<1> QED
  BY <1>1, <1>2, <1>4, <1>5, <1>6

-----------------------------------------------------------------------------
(* The initial states *)

LEMMA InitKeeps == ASSUME Init PROVE IInv
<1>1. TypeOK
  <2>1. NoFiles \in [Files -> {"absent", "torn", "whole"}]
    BY DEF NoFiles
  <2>2. \A m \in {"none", "old"} : AllBlocks(m) \in [1 .. MbrBlocks -> {"none", "old", "new"}]
    BY DEF AllBlocks
  <2>3. DiskTypeOK
    BY <2>1, <2>2 DEF Init, DiskTypeOK
  <2>4. BootTypeOK /\ CountsOK
    <3>1. /\ boot = "off" /\ ExecuteFsck = FALSE /\ i = 1 /\ stumbled = FALSE /\ troubles = 0 /\ unseen = 0
          /\ hddBoot \in BOOLEAN
      BY Zenon DEF Init
    <3>2. i \in 1 .. NumBootTargets + 1 /\ CountsOK
      BY <3>1 DEF CountsOK, NumBootTargets
    <3> QED
      BY <3>1, <3>2, Zenon DEF BootTypeOK
  <2>5. /\ wasEnabled \in BOOLEAN /\ pc = "menu" /\ flags = {} /\ n = 1 /\ block = 1 /\ mounted = "none"
        /\ dest = FALSE /\ apps = "none" /\ last = "none" /\ OpResult = "ok"
    BY Zenon DEF Init
  <2>6. n \in 1 .. 8 /\ block \in 1 .. MbrBlocks + 1
    BY <2>5
  <2>7. flags \in SUBSET {"SKIP_CNF", "APPS"}
    BY <2>5
  <2>8. InstTypeOK
    BY <2>5, <2>6, <2>7, Zenon DEF InstTypeOK
  <2> QED
    BY <2>3, <2>4, <2>8 DEF TypeOK
<1>2. MountOK /\ EnabledOK /\ PlaceOK /\ CopyOK /\ EnableOK /\ InstalledOK /\ OffOK /\ LoadOK /\ FirstInstallSafe
  BY DEF Init, MountOK, EnabledOK, Installing, PlaceOK, CopyOK, EnableOK, InstalledOK, OffOK, LoadOK, FirstInstallSafe
<1>3. OthersOK
  BY DEF Init, OthersOK, NoFiles
<1> QED
  BY <1>1, <1>2, <1>3 DEF IInv

-----------------------------------------------------------------------------
(* A start from the disk *)

LEMMA StartKeeps == ASSUME IInv, Start PROVE IInv'
<1> USE DEF IInv, Start, Boot, instVars, diskVars, bootVars
<1>1. UNCHANGED <<mbr, osdMbr, file, hddBoot, instVars>>
  BY DEF PowerOn, CheckDisk, Mount, OpenTarget, NoTarget, LoadTarget
<1>2. DiskTypeOK' /\ InstTypeOK'
  <2>1. UNCHANGED <<formatted, smartError, sectorError>> /\ errorPart' \in {errorPart, "none"}
    BY DEF PowerOn, CheckDisk, Mount, OpenTarget, NoTarget, LoadTarget
  <2> QED
    BY <1>1, <2>1 DEF TypeOK, DiskTypeOK, InstTypeOK, history
<1>5. CountsOK'
  <2>1. troubles' = troubles \/ (troubles < MaxTroubles /\ troubles' = troubles + 1)
    BY DEF PowerOn, CheckDisk, Mount, OpenTarget, NoTarget, LoadTarget, Smooth, Stumbles, NoFault, Troubled
  <2> QED
    BY <1>1, <2>1 DEF TypeOK, CountsOK, history
<1>6. BootTypeOK' /\ LoadOK'
  <2> USE DEF TypeOK, BootTypeOK, LoadOK, Outcomes
  <2>1. CASE PowerOn
    BY <2>1 DEF PowerOn
  <2>2. CASE CheckDisk
    <3>1. ExecuteFsck' \in BOOLEAN
      BY <2>2, Zenon DEF CheckDisk
    <3>2. hddBoot' = hddBoot /\ stumbled' = stumbled /\ i' = 1 /\ boot' \in {"mount", "BootBrowser"}
      BY <2>2, Zenon DEF CheckDisk, BootError
    <3> QED
      BY <3>1, <3>2 DEF NumBootTargets
  <2>3. CASE Mount
    <3>1. stumbled' \in BOOLEAN
      BY <2>3, Zenon DEF Mount, Smooth, Stumbles
    <3> QED
      BY <2>3, <3>1 DEF Mount, BootError
  <2>4. CASE OpenTarget
    <3>1. stumbled' \in BOOLEAN
      BY <2>4, Zenon DEF OpenTarget, Smooth, Stumbles
    <3>2. /\ UNCHANGED <<hddBoot, ExecuteFsck>> /\ i \in 1 .. 3
          /\ \/ boot' = "load" /\ i' = i /\ BootDestinations[ExecuteFsck][i] \in Programs
             \/ boot' = "open" /\ i' = i + 1
      BY <2>4 DEF OpenTarget, Present, NumBootTargets
    <3> QED
      BY <3>1, <3>2 DEF NumBootTargets
  <2>5. CASE NoTarget
    BY <2>5 DEF NoTarget, BootError
  <2>6. CASE LoadTarget
    <3>1. stumbled' \in BOOLEAN
      BY <2>6, Zenon DEF LoadTarget, Smooth, Stumbles
    <3>2. UNCHANGED <<hddBoot, ExecuteFsck, i>> /\ boot' \in Programs \cup {"BootBrowser"}
      BY <2>6 DEF LoadTarget, BootError
    <3> QED
      BY <3>1, <3>2
  <2> QED
    BY <2>1, <2>2, <2>3, <2>4, <2>5, <2>6
<1>3. MountOK'
  <2>1. FileCopyList' = FileCopyList /\ List' = List
    BY <1>1, SameList DEF List, Cleaning
  <2> QED
    BY <1>1, <2>1 DEF MountOK, Entry
<1>4. UNCHANGED <<mbr, osdMbr, file, apps, hddBoot, flags, history>> /\ UNCHANGED <<pc, n, block>>
  BY <1>1
<1>7. OffOK'
  <2>1. boot # "off"
    BY DEF PowerOn, CheckDisk, Mount, OpenTarget, NoTarget, LoadTarget
  <2>2. CASE LoadTarget
    <3>1. boot' \in Programs \cup {"BootBrowser"}
      BY <2>2 DEF LoadTarget, BootError, LoadOK
    <3> QED
      BY <1>1, <2>1, <3>1 DEF OffOK
  <2>3. CASE PowerOn \/ CheckDisk \/ Mount \/ OpenTarget \/ NoTarget
    BY <1>1, <2>1, <2>3 DEF OffOK, PowerOn, CheckDisk, Mount, OpenTarget, NoTarget, BootError
  <2> QED
    BY <2>2, <2>3
<1> QED
  BY <1>2, <1>3, <1>4, <1>5, <1>6, <1>7, StillSafe DEF TypeOK

LEMMA CountsStep ==
  ASSUME CountsOK, NoFault \/ Troubled, unseen' \in {unseen, 0} \/ Unseen
  PROVE  CountsOK'
  BY DEF CountsOK, NoFault, Troubled, Unseen

LEMMA BootStep ==
  ASSUME BootTypeOK, LoadOK, OffOK, UNCHANGED <<hddBoot, bootVars>>, pc # "off", pc' # "off"
  PROVE  BootTypeOK' /\ LoadOK' /\ OffOK'
  BY DEF BootTypeOK, LoadOK, OffOK, bootVars

-----------------------------------------------------------------------------
(* The menu *)

LEMMA FormatType ==
  ASSUME DiskTypeOK, apps \in {"none", "raw", "pfs"}, hddFormat, UNCHANGED <<smartError, sectorError>>
  PROVE  DiskTypeOK' /\ apps' \in {"none", "raw", "pfs"}
<1>1. CASE UNCHANGED <<formatted, errorPart, osdMbr, mbr, file, apps>>
  BY <1>1 DEF DiskTypeOK
<1>2. CASE /\ formatted' = TRUE /\ errorPart' = "none" /\ osdMbr' = FALSE /\ mbr' = AllBlocks("none")
           /\ file' = NoFiles /\ apps' = "none"
  <2>1. AllBlocks("none") \in [1 .. MbrBlocks -> {"none", "old", "new"}] /\ NoFiles \in [Files -> {"absent", "torn", "whole"}]
    BY DEF AllBlocks, NoFiles
  <2> QED
    BY <1>2, <2>1 DEF DiskTypeOK
<1> QED
  BY <1>1, <1>2 DEF hddFormat

LEMMA FormatEffect ==
  ASSUME hddFormat
  PROVE  \/ UNCHANGED <<mbr, osdMbr, file, apps>>
         \/ ~Mixed' /\ \A f \in Files : file'[f] = "absent"
<1>1. ASSUME mbr' = AllBlocks("none"), file' = NoFiles PROVE ~Mixed' /\ \A f \in Files : file'[f] = "absent"
  BY <1>1 DEF Mixed, AllBlocks, NoFiles
<1> QED
  BY <1>1 DEF hddFormat

LEMMA FormatHDDKeeps == ASSUME IInv, FormatHDD PROVE IInv'
<1> USE DEF IInv, FormatHDD, others
<1>1. TypeOK' /\ LoadOK' /\ OffOK'
  <2>1. DiskTypeOK' /\ InstTypeOK'
    BY FormatType DEF TypeOK, InstTypeOK
  <2>2. CountsOK'
    BY CountsStep DEF TypeOK, hddFormat
  <2> QED
    BY <2>1, <2>2, BootStep DEF TypeOK
<1>2. MountOK' /\ EnabledOK' /\ PlaceOK' /\ CopyOK' /\ EnableOK' /\ InstalledOK'
  BY DEF MountOK, EnabledOK, Installing, PlaceOK, CopyOK, EnableOK, InstalledOK
<1>3. OthersOK' /\ FirstInstallSafe'
  BY FormatEffect DEF OthersOK, FirstInstallSafe, Mixed
<1> QED
  BY <1>1, <1>2, <1>3

LEMMA InstallFHDBKeeps == ASSUME IInv, InstallFHDB PROVE IInv'
<1> USE DEF IInv, InstallFHDB, others
<1>0. hddFormat \/ (UNCHANGED <<formatted, errorPart, osdMbr, mbr, file, apps>> /\ NoFault)
  BY DEF CheckFormat
<1>1. TypeOK' /\ LoadOK' /\ OffOK'
  <2>1. DiskTypeOK' /\ apps' \in {"none", "raw", "pfs"}
    BY <1>0, FormatType DEF TypeOK, DiskTypeOK, InstTypeOK
  <2>2. wasEnabled' \in BOOLEAN
    BY Zenon DEF TypeOK, BootTypeOK
  <2>3. InstTypeOK'
    BY <2>1, <2>2 DEF TypeOK, InstTypeOK
  <2>4. CountsOK'
    BY <1>0, CountsStep DEF TypeOK, hddFormat
  <2> QED
    BY <2>1, <2>3, <2>4, BootStep DEF TypeOK
<1>2. MountOK' /\ PlaceOK' /\ CopyOK' /\ EnableOK' /\ InstalledOK'
  BY DEF MountOK, PlaceOK, CopyOK, EnableOK, InstalledOK
<1>3. EnabledOK' /\ FirstInstallSafe'
  BY Zenon DEF EnabledOK, FirstInstallSafe
<1>4. OthersOK'
  BY <1>0, FormatEffect DEF OthersOK
<1> QED
  BY <1>1, <1>2, <1>3, <1>4

LEMMA CleanupFHDBKeeps == ASSUME IInv, CleanupFHDB PROVE IInv'
<1> USE DEF IInv, CleanupFHDB, mbrVars, diskVars
<1>1. TypeOK' /\ LoadOK' /\ OffOK'
  BY BootStep DEF TypeOK, DiskTypeOK, InstTypeOK, CountsOK
<1>2. MountOK' /\ EnabledOK' /\ PlaceOK' /\ CopyOK' /\ EnableOK' /\ InstalledOK'
  BY DEF MountOK, EnabledOK, Installing, PlaceOK, CopyOK, EnableOK, InstalledOK
<1>3. OthersOK' /\ FirstInstallSafe'
  BY DEF OthersOK, FirstInstallSafe, Mixed
<1> QED
  BY <1>1, <1>2, <1>3

LEMMA DismissKeeps == ASSUME IInv, Dismiss PROVE IInv'
<1> USE DEF IInv, Dismiss, mbrVars, diskVars, history
<1>1. TypeOK' /\ LoadOK' /\ OffOK'
  BY BootStep DEF TypeOK, DiskTypeOK, InstTypeOK, CountsOK
<1>2. MountOK'
  BY DEF MountOK
<1>3. UNCHANGED <<mbr, osdMbr, file, apps, hddBoot, flags, history>> /\ pc' = "menu"
  OBVIOUS
<1> QED
  BY <1>1, <1>2, <1>3, StillSafe

LEMMA RestartKeeps == ASSUME IInv, Restart PROVE IInv'
<1> USE DEF IInv, Restart, diskVars, history
<1>1. DiskTypeOK' /\ InstTypeOK'
  BY ZenonT(30) DEF TypeOK, DiskTypeOK, InstTypeOK
<1>2. CountsOK'
  BY CountsStep DEF TypeOK
<1>3. BootTypeOK' /\ LoadOK' /\ OffOK'
  BY DEF TypeOK, BootTypeOK, LoadOK, OffOK, Outcomes
<1>4. MountOK'
  BY DEF MountOK
<1>5. UNCHANGED <<mbr, osdMbr, file, apps, hddBoot, flags, history>> /\ pc' = "off"
  OBVIOUS
<1> QED
  BY <1>1, <1>2, <1>3, <1>4, <1>5, StillSafe DEF TypeOK

LEMMA StartInstallerKeeps == ASSUME IInv, StartInstaller PROVE IInv'
<1> USE DEF IInv, StartInstaller, diskVars, history
<1>1. DiskTypeOK' /\ InstTypeOK' /\ CountsOK'
  BY DEF TypeOK, DiskTypeOK, InstTypeOK, CountsOK
<1>3. BootTypeOK' /\ LoadOK' /\ OffOK'
  BY DEF TypeOK, BootTypeOK, LoadOK, OffOK, Outcomes
<1>4. MountOK'
  BY DEF MountOK, OffOK, Outcomes
<1>5. UNCHANGED <<mbr, osdMbr, file, apps, hddBoot, flags, history>> /\ pc' = "menu"
  OBVIOUS
<1> QED
  BY <1>1, <1>3, <1>4, <1>5, StillSafe DEF TypeOK

-----------------------------------------------------------------------------
(* The installation, to the copying.  Until it has ended nothing is promised. *)

Early == {"list", "apps", "create", "format", "attributes", "clean"}

LEMMA BeforeCopy ==
  ASSUME IInv, pc \in Early, pc' \in Early \cup {"shown"}, UNCHANGED <<hddBoot, wasEnabled, last>>,
         file'["hosdsys"] = file["hosdsys"]
  PROVE  EnabledOK' /\ PlaceOK' /\ CopyOK' /\ EnableOK' /\ InstalledOK' /\ OthersOK' /\ FirstInstallSafe'
<1> USE DEF IInv, Early
<1>1. PlaceOK' /\ CopyOK' /\ EnableOK' /\ InstalledOK' /\ OthersOK'
  BY DEF PlaceOK, CopyOK, EnableOK, InstalledOK, OthersOK
<1>2. Installing
  BY DEF Installing
<1>3. hddBoot = wasEnabled
  BY <1>2 DEF EnabledOK
<1>4. EnabledOK' /\ FirstInstallSafe'
  BY <1>3, Zenon DEF EnabledOK, FirstInstallSafe
<1> QED
  BY <1>1, <1>4

LEMMA EarlyKeeps ==
  ASSUME IInv, MakeList \/ CheckAppsPartition \/ CreateAPPSPartition \/ FormatAPPSPartition \/ WriteAPPSPartitionAttributes
  PROVE  IInv'
<1> USE DEF MakeList, CheckAppsPartition, CreateAPPSPartition, FormatAPPSPartition, WriteAPPSPartitionAttributes
<1>1. /\ pc \in {"list", "apps", "create", "format", "attributes"} /\ pc' \in Early \cup {"shown"}
      /\ UNCHANGED <<formatted, smartError, sectorError, errorPart, mbr, osdMbr, others, flags, n, block, mounted, dest,
                     history>>
      /\ apps' \in {"none", "raw", "pfs"}
      /\ file' = file \/ file' = [file EXCEPT !["app"] = "absent"]
  BY DEF IInv, TypeOK, InstTypeOK, Early, Goto, Failed, mbrVars, diskVars, diskButFiles, others
<1>2. TypeOK' /\ LoadOK' /\ OffOK'
  <2>1. DiskTypeOK' /\ InstTypeOK'
    BY <1>1 DEF IInv, TypeOK, DiskTypeOK, InstTypeOK, Early, others, history
  <2>2. NoFault \/ Troubled
    BY DEF NoFault, mbrVars
  <2>3. CountsOK'
    BY <1>1, <2>2, CountsStep DEF IInv, TypeOK, history
  <2> QED
    BY <1>1, <2>1, <2>3, BootStep DEF IInv, TypeOK, Early, others
<1>3. MountOK'
  BY <1>1 DEF IInv, MountOK, Early
<1>4. file'["hosdsys"] = file["hosdsys"]
  BY <1>1 DEF IInv, TypeOK, DiskTypeOK
<1> QED
  BY <1>1, <1>2, <1>3, <1>4, BeforeCopy DEF IInv, Early, history, others

LEMMA ListType ==
  ASSUME AtEntry, n \in 1 .. 8
  PROVE  /\ n < 8 /\ n \in 1 .. Len(List) /\ Entry \in Kinds
         /\ Cleaning => Entry.name # "mbr" /\ Entry.part # "PP.FHDB.APPS"
<1>1. CASE Cleaning
  <2>1. List = CleanupList
    BY <1>1 DEF List
  <2>2. n \in 1 .. 3
    BY <2>1, CleanupListType DEF AtEntry
  <2> QED
    BY <2>1, <2>2, CleanupListType DEF Entry
<1>2. CASE ~Cleaning
  <2>1. List = FileCopyList
    BY <1>2 DEF List
  <2>2. n \in 1 .. Len(FileCopyList) /\ n < 8
    BY <2>1, CopyListType DEF AtEntry
  <2> QED
    BY <1>2, <2>1, <2>2, CopyListType DEF Entry
<1> QED
  BY <1>1, <1>2

LEMMA MountTargetKeeps == ASSUME IInv, MountTarget PROVE IInv'
<1> USE DEF MountTarget, others, history
<1>1. Entry \in Kinds /\ pc \in {"clean", "cleanup", "copy"}
  BY ListType DEF IInv, TypeOK, InstTypeOK, AtEntry, Cleaning
<1>2. mounted' \in Partitions \cup {"none"} /\ pc' \in {pc, "shown"} /\ ~dest
  BY <1>1, KindMeans DEF Failed, IInv, MountOK, NeedsMount
<1>3. TypeOK' /\ LoadOK' /\ OffOK'
  <2>1. DiskTypeOK' /\ InstTypeOK'
    BY <1>2 DEF IInv, TypeOK, DiskTypeOK, InstTypeOK, diskVars
  <2>2. CountsOK'
    BY CountsStep DEF IInv, TypeOK
  <2> QED
    BY <1>1, <1>2, <2>1, <2>2, BootStep DEF IInv, TypeOK
<1>4. MountOK'
  BY <1>1, <1>2, KindMeans DEF IInv, MountOK, Failed
<1>5. UNCHANGED <<mbr, osdMbr, file, apps, hddBoot, flags, n, block, history>> /\ (pc' = pc \/ pc' = "shown")
  BY <1>2 DEF diskVars
<1> QED
  BY <1>3, <1>4, <1>5, StillSafe DEF IInv

LEMMA RemoveFileKeeps == ASSUME IInv, RemoveFile PROVE IInv'
<1> USE DEF RemoveFile, others, diskButFiles
<1>1. Entry \in Kinds /\ pc \in {"clean", "cleanup"} /\ n < 8
  BY ListType DEF IInv, TypeOK, InstTypeOK, Cleaning
<1>2. /\ file' \in [Files -> {"absent", "torn", "whole"}]
      /\ file' = file \/ file' = [file EXCEPT ![Entry.name] = "absent"]
  BY DEF IInv, TypeOK, DiskTypeOK
<1>3. TypeOK' /\ LoadOK' /\ OffOK'
  <2>1. DiskTypeOK' /\ InstTypeOK'
    BY <1>1, <1>2 DEF IInv, TypeOK, DiskTypeOK, InstTypeOK
  <2>2. CountsOK'
    BY CountsStep DEF IInv, TypeOK, Seen, Unseen
  <2> QED
    BY <1>1, <2>1, <2>2, BootStep DEF IInv, TypeOK
<1>4. MountOK'
  BY <1>1 DEF IInv, MountOK
<1>5. EnabledOK' /\ PlaceOK' /\ CopyOK' /\ EnableOK' /\ InstalledOK'
  BY <1>1 DEF IInv, EnabledOK, Installing, PlaceOK, CopyOK, EnableOK, InstalledOK
<1>6. OthersOK' /\ \A p \in Programs : file[p] # "torn" => file'[p] # "torn"
  BY <1>2 DEF IInv, OthersOK, TypeOK, DiskTypeOK
<1>7. FirstInstallSafe'
  <2>1. unseen' = 0 => unseen = 0
    BY DEF Seen, Unseen, IInv, TypeOK, CountsOK
  <2> QED
    BY <1>6, <2>1 DEF IInv, FirstInstallSafe, Mixed
<1> QED
  BY <1>3, <1>4, <1>5, <1>6, <1>7 DEF IInv

LEMMA EndCleanupKeeps == ASSUME IInv, EndCleanup PROVE IInv'
<1> USE DEF EndCleanup, mbrVars, diskVars
<1>0. last \in {"none", "removed"} /\ pc \in {"clean", "cleanup"}
  BY DEF Cleaning, IInv, InstalledOK, TypeOK, InstTypeOK
<1>1. /\ pc \in {"clean", "cleanup"} /\ ((pc = "cleanup" /\ pc' = "shown") \/ (pc = "clean" /\ pc' = "folders"))
      /\ last' \in {"none", "removed"}
  BY <1>0
<1>3. TypeOK' /\ LoadOK' /\ OffOK'
  <2>1. DiskTypeOK' /\ InstTypeOK' /\ CountsOK'
    BY <1>1 DEF IInv, TypeOK, DiskTypeOK, InstTypeOK, CountsOK
  <2> QED
    BY <1>1, <2>1, BootStep DEF IInv, TypeOK
<1>4. MountOK'
  BY <1>1 DEF IInv, MountOK
<1>5. EnabledOK' /\ PlaceOK' /\ CopyOK' /\ EnableOK' /\ InstalledOK'
  BY <1>1 DEF IInv, EnabledOK, Installing, PlaceOK, CopyOK, EnableOK, InstalledOK
<1>6. OthersOK' /\ FirstInstallSafe'
  BY DEF IInv, OthersOK, FirstInstallSafe, Mixed
<1> QED
  BY <1>3, <1>4, <1>5, <1>6 DEF IInv

(* Nothing is done yet, and everything is to do. *)
LEMMA CreateBasicFoldersKeeps == ASSUME IInv, CreateBasicFoldersOnHDD PROVE IInv'
<1> USE DEF CreateBasicFoldersOnHDD, diskVars, others, history
<1>1. pc = "folders" /\ pc' \in {"copy", "shown"} /\ n = 1 /\ block = 1
  BY DEF Goto, Failed, Then, IInv, PlaceOK
<1>3. TypeOK' /\ LoadOK' /\ OffOK'
  <2>1. DiskTypeOK' /\ InstTypeOK'
    BY <1>1 DEF IInv, TypeOK, DiskTypeOK, InstTypeOK
  <2>2. CountsOK'
    BY CountsStep DEF IInv, TypeOK
  <2> QED
    BY <1>1, <2>1, <2>2, BootStep DEF IInv, TypeOK
<1>4. MountOK'
  BY <1>1 DEF IInv, MountOK
<1>5. EnabledOK' /\ PlaceOK' /\ EnableOK' /\ InstalledOK'
  BY <1>1 DEF IInv, EnabledOK, Installing, PlaceOK, EnableOK, InstalledOK
<1>6. CopyOK'
  <2>1. Pending' = Names'
    BY <1>1, SameList DEF Pending, Names
  <2> QED
    BY <2>1 DEF CopyOK
<1>7. OthersOK' /\ FirstInstallSafe'
  BY DEF IInv, OthersOK, FirstInstallSafe, Mixed
<1> QED
  BY <1>3, <1>4, <1>5, <1>6, <1>7 DEF IInv

-----------------------------------------------------------------------------
(* The copying *)

AtFile == pc = "copy" /\ n \in 1 .. Len(FileCopyList) /\ n < 8 /\ Entry = FileCopyList[n] /\ Entry \in Kinds

LEMMA AtFileFacts == ASSUME IInv, AtEntry, ~Cleaning PROVE AtFile
<1>1. pc = "copy" /\ List = FileCopyList
  BY DEF AtEntry, List
<1> QED
  BY <1>1, ListType DEF AtFile, Entry, IInv, TypeOK, InstTypeOK

(* Within the copying there is no promise yet about what is installed and how the console starts. *)
LEMMA WhileCopying ==
  ASSUME IInv, pc = "copy", pc' \in {"copy", "shown", "enable"}, UNCHANGED <<hddBoot, wasEnabled, last>>,
         file'["hosdsys"] # "torn"
  PROVE  EnabledOK' /\ InstalledOK' /\ OthersOK' /\ FirstInstallSafe'
<1>1. hddBoot = wasEnabled
  BY DEF IInv, EnabledOK, Installing
<1>2. InstalledOK' /\ OthersOK'
  BY DEF IInv, InstalledOK, OthersOK
<1>3. EnabledOK' /\ FirstInstallSafe'
  BY <1>1, Zenon DEF EnabledOK, FirstInstallSafe
<1> QED
  BY <1>2, <1>3

(* An entry that is behind: its name is no longer to come, or comes again later. *)
LEMMA NextPending ==
  ASSUME AtFile, n' = n + 1, flags' = flags
  PROVE  Names' = Names /\ Pending \subseteq Pending' \cup {Entry.name}
<1>1. FileCopyList' = FileCopyList /\ Names' = Names
  BY SameList
<1>2. ASSUME NEW k \in n .. Len(FileCopyList)
      PROVE  FileCopyList[k].name \in Pending' \cup {Entry.name}
  <2>1. Len(FileCopyList) \in Nat /\ n \in Nat
    BY CopyListType DEF AtFile
  <2>2. k = n \/ k \in n + 1 .. Len(FileCopyList)
    BY <2>1
  <2> QED
    BY <1>1, <2>2 DEF Pending, AtFile
<1> QED
  BY <1>1, <1>2 DEF Pending

LEMMA WriteMbrBlockKeeps == ASSUME IInv, WriteMbrBlock PROVE IInv'
<1> USE DEF WriteMbrBlock, others, history
<1>1. Entry.name = "mbr" /\ AtFile /\ block \in 1 .. MbrBlocks
  <2>1. ~Cleaning
    BY ListType DEF IInv, TypeOK, InstTypeOK
  <2> QED
    BY <2>1, AtFileFacts DEF MbrBlockLeft, IInv, TypeOK, InstTypeOK
<1>2. /\ pc = "copy" /\ pc' \in {"copy", "shown"} /\ block' \in 1 .. MbrBlocks + 1
      /\ mounted' \in {mounted, "none"} /\ mbr' \in [1 .. MbrBlocks -> {"none", "old", "new"}]
      /\ pc' = "copy" => mbr' = [mbr EXCEPT ![block] = "new"] /\ block' = block + 1
  BY <1>1 DEF AtFile, IInv, TypeOK, InstTypeOK, DiskTypeOK, Failed
<1>3. TypeOK' /\ LoadOK' /\ OffOK'
  <2>1. DiskTypeOK' /\ InstTypeOK'
    BY <1>2 DEF IInv, TypeOK, DiskTypeOK, InstTypeOK
  <2>2. CountsOK'
    BY CountsStep DEF IInv, TypeOK
  <2> QED
    BY <1>2, <2>1, <2>2, BootStep DEF IInv, TypeOK
<1>4. MountOK'
  <2>1. ~dest
    BY <1>1 DEF IInv, MountOK
  <2>2. (mounted' = mounted /\ pc' = pc) \/ mounted' = "none"
    OBVIOUS
  <2> QED
    BY <1>2, <2>1, <2>2 DEF IInv, MountOK
<1>5. PlaceOK'
  <2>1. CASE pc' = "copy"
    <3>1. \A b \in 1 .. block' - 1 : b \in 1 .. MbrBlocks /\ (b = block \/ b \in 1 .. block - 1)
      BY <1>1, <1>2, <2>1
    <3>2. \A b \in 1 .. block - 1 : mbr[b] = "new"
      BY <1>2 DEF IInv, PlaceOK
    <3> QED
      BY <1>2, <2>1, <3>1, <3>2 DEF PlaceOK, IInv, TypeOK, DiskTypeOK
  <2>2. CASE pc' = "shown"
    BY <2>2 DEF PlaceOK
  <2> QED
    BY <1>2, <2>1, <2>2
<1>6. CopyOK' /\ EnableOK'
  <2>1. "mbr" \in Pending
    BY <1>1, CopyListType DEF AtFile, Pending
  <2>2. Names' = Names /\ Pending' = Pending
    BY SameList
  <2>3. \A f \in Names \ Pending : Done(f)' = Done(f)
    BY <2>1 DEF Done
  <2> QED
    BY <1>2, <2>2, <2>3 DEF IInv, CopyOK, EnableOK
<1> QED
  BY <1>2, <1>3, <1>4, <1>5, <1>6, WhileCopying DEF IInv, OthersOK

LEMMA SetOsdMbrKeeps == ASSUME IInv, SetOsdMbr PROVE IInv'
<1> USE DEF SetOsdMbr, others
<1>1. Entry.name = "mbr" /\ AtFile /\ block = MbrBlocks + 1 /\ pc = "copy"
  <2>1. ~Cleaning
    BY ListType DEF IInv, TypeOK, InstTypeOK
  <2> QED
    BY <2>1, AtFileFacts DEF MbrBlockLeft, IInv, TypeOK, InstTypeOK, AtFile
<1>2. osdMbr' \in BOOLEAN
  BY Zenon DEF IInv, TypeOK, DiskTypeOK
<1>3. TypeOK' /\ LoadOK' /\ OffOK'
  <2>1. DiskTypeOK' /\ InstTypeOK'
    BY <1>1, <1>2 DEF IInv, TypeOK, DiskTypeOK, InstTypeOK, AtFile
  <2>2. CountsOK'
    BY CountsStep DEF IInv, TypeOK, Seen, Unseen
  <2> QED
    BY <1>1, <2>1, <2>2, BootStep DEF IInv, TypeOK
<1>4. MountOK'
  <2>1. ~dest
    BY <1>1 DEF IInv, MountOK
  <2> QED
    BY <1>1, <2>1 DEF IInv, MountOK
<1>5. PlaceOK'
  BY <1>1 DEF IInv, PlaceOK
<1>6. CopyOK' /\ EnableOK'
  <2>1. ASSUME unseen' = 0 PROVE unseen = 0 /\ Done("mbr")'
    <3>1. unseen = 0 /\ osdMbr' = TRUE
      BY <2>1 DEF Unseen, Seen, IInv, TypeOK, CountsOK
    <3>2. \A b \in 1 .. MbrBlocks : mbr[b] = "new"
      BY <1>1 DEF IInv, PlaceOK
    <3>3. mbr = AllBlocks("new")
      BY <3>2 DEF AllBlocks, IInv, TypeOK, DiskTypeOK
    <3> QED
      BY <3>1, <3>3 DEF Done, AllBlocks
  <2>2. \A f \in Names : f # "mbr" => (Done(f)' = Done(f))
    BY DEF Done
  <2>3. Names' = Names /\ Pending \subseteq Pending' \cup {"mbr"}
    BY <1>1, NextPending
  <2>4. ASSUME unseen' = 0, NEW f \in Names \ Pending' PROVE Done(f)'
    BY <1>1, <2>1, <2>2, <2>3, <2>4 DEF IInv, CopyOK
  <2> QED
    BY <1>1, <2>3, <2>4 DEF CopyOK, EnableOK
<1> QED
  BY <1>1, <1>3, <1>4, <1>5, <1>6, WhileCopying DEF IInv, OthersOK

LEMMA NamesAreFiles == \A f \in Names : f = "mbr" \/ f \in Files
<1>1. ASSUME NEW k \in 1 .. Len(FileCopyList) PROVE FileCopyList[k].name = "mbr" \/ FileCopyList[k].name \in Files
  <2>1. FileCopyList[k] \in Kinds
    BY CopyListType
  <2> QED
    BY <2>1, KindMeans DEF Files, Programs
<1> QED
  BY <1>1 DEF Names

LEMMA OpenDestFileKeeps == ASSUME IInv, OpenDestFile PROVE IInv'
<1> USE DEF OpenDestFile, others, diskButFiles, history
<1>1. Entry.name # "mbr" /\ AtFile /\ pc = "copy" /\ mounted = Entry.part
  BY AtFileFacts DEF Cleaning, NeedsMount
<1>2. /\ pc' \in {"copy", "shown"} /\ file' \in [Files -> {"absent", "torn", "whole"}] /\ dest' \in BOOLEAN
      /\ file' = file \/ file' = [file EXCEPT ![Entry.name] = "torn"]
      /\ \/ dest' = TRUE /\ pc' = pc /\ mounted' = mounted
         \/ dest' = dest /\ mounted' = "none" /\ pc' = "shown"
  BY <1>1 DEF IInv, TypeOK, DiskTypeOK, InstTypeOK, Failed
<1>3. TypeOK' /\ LoadOK' /\ OffOK'
  <2>1. DiskTypeOK' /\ InstTypeOK'
    BY <1>2 DEF IInv, TypeOK, DiskTypeOK, InstTypeOK
  <2>2. CountsOK'
    BY CountsStep DEF IInv, TypeOK
  <2> QED
    BY <1>1, <1>2, <2>1, <2>2, BootStep DEF IInv, TypeOK
<1>4. MountOK'
  <2>1. FileCopyList' = FileCopyList
    BY SameList
  <2>2. pc' = "copy" => List' = FileCopyList /\ Entry' = Entry
    BY <1>1, <2>1 DEF List, Cleaning, Entry, AtFile
  <2>3. n <= Len(FileCopyList) /\ ~dest
    BY <1>1, CopyListType DEF AtFile
  <2> QED
    BY <1>1, <1>2, <2>1, <2>2, <2>3 DEF IInv, MountOK
<1>5. PlaceOK'
  BY <1>2 DEF IInv, PlaceOK
<1>6. CopyOK' /\ EnableOK'
  <2>1. Entry.name \in Pending
    BY <1>1, CopyListType DEF AtFile, Pending
  <2>2. Names' = Names /\ Pending' = Pending
    BY SameList
  <2>3. ASSUME NEW f \in Names \ Pending, Done(f) PROVE Done(f)'
    <3>1. f # Entry.name
      BY <2>1
    <3>2. CASE f = "mbr"
      BY <2>3, <3>2 DEF Done, AllBlocks
    <3>3. CASE f # "mbr"
      <4>1. file'[f] = file[f]
        BY <1>2, <3>1, <3>3, NamesAreFiles DEF IInv, TypeOK, DiskTypeOK
      <4> QED
        BY <2>3, <3>3, <4>1 DEF Done
    <3> QED
      BY <3>2, <3>3
  <2> QED
    BY <1>1, <1>2, <2>2, <2>3 DEF IInv, CopyOK, EnableOK
<1>7. file'["hosdsys"] # "torn"
  BY <1>1, <1>2, KindMeans DEF AtFile, IInv, OthersOK, TypeOK, DiskTypeOK
<1> QED
  BY <1>1, <1>2, <1>3, <1>4, <1>5, <1>6, <1>7, WhileCopying DEF IInv

LEMMA WriteDestFileKeeps == ASSUME IInv, WriteDestFile PROVE IInv'
<1> USE DEF WriteDestFile, others
<1>1. Entry.name # "mbr" /\ AtFile /\ pc = "copy" /\ mounted = Entry.part
  <2>1. pc = "copy" /\ mounted = Entry.part /\ Entry.name # "mbr"
    BY DEF IInv, MountOK
  <2> QED
    BY <2>1, AtFileFacts DEF Cleaning
<1>2. /\ file' = file \/ file' = [file EXCEPT ![Entry.name] = "whole"]
      /\ pc' \in {"copy", "shown"} /\ errorPart' \in Partitions \cup {"none"}
      /\ \/ pc' = "copy" /\ mounted' = mounted /\ n' = n + 1
         \/ pc' = "shown" /\ mounted' = "none" /\ n' = n
  BY <1>1, KindMeans DEF AtFile, IInv, TypeOK, DiskTypeOK, Failed
<1>3. TypeOK' /\ LoadOK' /\ OffOK'
  <2>1. file' \in [Files -> {"absent", "torn", "whole"}]
    BY <1>2 DEF IInv, TypeOK, DiskTypeOK
  <2>3. n' \in 1 .. 8
    <3>1. n \in 1 .. 8 /\ n \leq 7
      BY <1>1, CopyListType DEF AtFile, IInv, TypeOK, InstTypeOK
    <3>2. n' = n \/ n' = n + 1
      BY <1>2
    <3> QED
      BY <3>1, <3>2
  <2>4. mounted' \in Partitions \cup {"none"}
    BY <1>2 DEF IInv, TypeOK, InstTypeOK
  <2>5. DiskTypeOK'
    BY <1>2, <2>1 DEF IInv, TypeOK, DiskTypeOK
  <2>6. dest' \in BOOLEAN /\ flags' = flags /\ block' = block /\ apps' = apps /\ last' = last /\ wasEnabled' = wasEnabled
    OBVIOUS
  <2>7. InstTypeOK'
    BY <1>2, <2>3, <2>4, <2>6 DEF IInv, TypeOK, InstTypeOK
  <2>2. CountsOK'
    BY CountsStep DEF IInv, TypeOK, Seen, Unseen
  <2> QED
    BY <1>1, <1>2, <2>2, <2>5, <2>7, BootStep DEF IInv, TypeOK
<1>4. MountOK'
  BY <1>1, <1>2 DEF IInv, MountOK
<1>5. PlaceOK'
  BY <1>1, <1>2 DEF IInv, PlaceOK
<1>6. CopyOK' /\ EnableOK'
  <2>1. CASE pc' = "shown"
    BY <2>1 DEF CopyOK, EnableOK
  <2>2. CASE pc' = "copy"
    <3>1. Names' = Names /\ Pending \subseteq Pending' \cup {Entry.name}
      BY <1>1, <1>2, <2>2, NextPending
    <3>2. ASSUME unseen' = 0 PROVE unseen = 0 /\ file' = [file EXCEPT ![Entry.name] = "whole"]
      BY <2>2, <3>2 DEF Unseen, Seen, Failed, IInv, TypeOK, CountsOK
    <3>3. Entry.name \in Files /\ (Entry.name = "app" => apps = "pfs")
      BY <1>1, KindMeans DEF AtFile, IInv, MountOK
    <3>4. ASSUME unseen' = 0, NEW f \in Names \ Pending' PROVE Done(f)'
      <4>1. CASE f = Entry.name
        BY <1>1, <3>2, <3>3, <3>4, <4>1 DEF Done, IInv, TypeOK, DiskTypeOK
      <4>2. CASE f # Entry.name
        <5>1. f \in Names \ Pending
          BY <3>1, <3>4, <4>2
        <5>2. Done(f)
          BY <1>1, <3>2, <3>4, <5>1 DEF IInv, CopyOK
        <5> QED
          <6>1. CASE f = "mbr"
            BY <5>2, <6>1 DEF Done, AllBlocks
          <6>2. CASE f # "mbr"
            <7>1. file'[f] = file[f]
              BY <3>2, <3>4, <4>2, <5>1, <6>2, NamesAreFiles DEF IInv, TypeOK, DiskTypeOK
            <7> QED
              BY <5>2, <6>2, <7>1 DEF Done
          <6> QED
            BY <6>1, <6>2
      <4> QED
        BY <4>1, <4>2
    <3> QED
      BY <2>2, <3>1, <3>4 DEF CopyOK, EnableOK
  <2> QED
    BY <1>2, <2>1, <2>2
<1>7. file'["hosdsys"] # "torn"
  BY <1>1, <1>2, KindMeans DEF AtFile, IInv, OthersOK, TypeOK, DiskTypeOK
<1> QED
  BY <1>1, <1>2, <1>3, <1>4, <1>5, <1>6, <1>7, WhileCopying DEF IInv

LEMMA EndCopyKeeps == ASSUME IInv, EndCopy PROVE IInv'
<1> USE DEF EndCopy, mbrVars, diskVars, history
<1>1. pc = "copy" /\ pc' = "enable" /\ List = FileCopyList /\ Pending = {} /\ ~dest
  <2>1. pc = "copy" /\ pc' = "enable" /\ List = FileCopyList
    BY DEF Goto, Then, List, Cleaning
  <2>2. n .. Len(FileCopyList) = {}
    BY <2>1, CopyListType DEF IInv, TypeOK, InstTypeOK
  <2>3. ~dest
    BY <2>1, CopyListType DEF IInv, MountOK, TypeOK, InstTypeOK
  <2> QED
    BY <2>1, <2>2, <2>3 DEF Pending
<1>3. TypeOK' /\ LoadOK' /\ OffOK'
  <2>1. DiskTypeOK' /\ InstTypeOK' /\ CountsOK'
    BY <1>1 DEF IInv, TypeOK, DiskTypeOK, InstTypeOK, CountsOK
  <2> QED
    BY <1>1, <2>1, BootStep DEF IInv, TypeOK
<1>4. MountOK' /\ PlaceOK'
  BY <1>1 DEF IInv, MountOK, PlaceOK
<1>6. CopyOK' /\ EnableOK'
  <2>1. Names' = Names /\ \A f : Done(f)' = Done(f)
    BY SameList DEF Done, AllBlocks
  <2> QED
    BY <1>1, <2>1 DEF IInv, CopyOK, EnableOK
<1> QED
  BY <1>1, <1>3, <1>4, <1>6, WhileCopying DEF IInv, OthersOK

LEMMA EnableKeeps == ASSUME IInv, EnableHDDBooting PROVE IInv'
<1> USE DEF EnableHDDBooting, diskVars, bootVars
<1>1. pc \in ConfigCalls /\ last # "installed"
  BY DEF IInv, InstalledOK
<1>2. \/ pc' = pc /\ UNCHANGED <<hddBoot, last>>
      \/ pc = "enable" /\ pc' = "write_config" /\ UNCHANGED <<hddBoot, last>>
      \/ pc = "write_config" /\ pc' = "close_config" /\ hddBoot' = TRUE /\ last' = last
      \/ pc' = "shown" /\ hddBoot /\ hddBoot' = hddBoot /\ last' = "installed"
  BY DEF ReadConfig, WriteConfig, CloseConfig, ConfigDone, Goto, Then, IInv, EnabledOK
<1>3. TypeOK' /\ LoadOK' /\ OffOK'
  <2>1. OpResult' \in {"ok", "error"}
    BY DEF IInv, TypeOK, InstTypeOK
  <2>2. DiskTypeOK' /\ InstTypeOK' /\ CountsOK'
    BY <1>2, <2>1 DEF IInv, TypeOK, DiskTypeOK, InstTypeOK, CountsOK
  <2>3. hddBoot' \in BOOLEAN
    BY <1>2 DEF IInv, TypeOK, BootTypeOK
  <2>4. BootTypeOK' /\ LoadOK' /\ OffOK'
    BY <1>1, <1>2, <2>3 DEF IInv, TypeOK, BootTypeOK, LoadOK, OffOK
  <2> QED
    BY <2>2, <2>4 DEF TypeOK
<1>4. MountOK' /\ PlaceOK' /\ CopyOK'
  BY <1>1, <1>2 DEF IInv, MountOK, PlaceOK, CopyOK
<1>5. EnabledOK'
  BY <1>1, <1>2 DEF IInv, EnabledOK, Installing
<1>6. Names' = Names /\ \A f : Done(f)' = Done(f)
  BY SameList DEF Done, AllBlocks
<1>7. unseen = 0 => \A f \in Names : Done(f)
  BY <1>1 DEF IInv, EnableOK
<1>8. EnableOK' /\ InstalledOK'
  BY <1>1, <1>2, <1>6, <1>7 DEF EnableOK, InstalledOK
<1>9. FirstInstallSafe' /\ OthersOK'
  <2>1. ASSUME unseen = 0 PROVE ~Mixed /\ \A p \in Programs : file[p] # "torn"
    <3>1. Done("mbr") /\ Done("osdmain") /\ Done("fsck")
      BY <1>7, <2>1, Listed
    <3>2. ~Mixed
      BY <3>1 DEF Done, Mixed, AllBlocks
    <3> QED
      BY <3>1, <3>2 DEF Done, IInv, OthersOK
  <2> QED
    BY <2>1 DEF FirstInstallSafe, Mixed, IInv, OthersOK
<1> QED
  BY <1>3, <1>4, <1>5, <1>8, <1>9 DEF IInv

-----------------------------------------------------------------------------
(* The theorems *)

(* The invariant is kept by every step of the installer and of a start, whatever fails. *)
LEMMA IInvInductive == IInv /\ [Next]_vars => IInv'
<1> SUFFICES ASSUME IInv, [Next]_vars PROVE IInv'
  OBVIOUS
<1>1. CASE UNCHANGED vars
  <2>1. FileCopyList' = FileCopyList /\ Names' = Names /\ Pending' = Pending
    BY <1>1, SameList DEF vars, instVars
  <2>2. List' = List /\ Entry' = Entry /\ \A f : Done(f)' = Done(f)
    BY <1>1, <2>1 DEF vars, instVars, mbrVars, diskVars, List, Cleaning, Entry, Done, AllBlocks
  <2>3. TypeOK' /\ OffOK' /\ LoadOK'
    BY <1>1 DEF vars, instVars, mbrVars, diskVars, bootVars, history, IInv, TypeOK, DiskTypeOK, BootTypeOK, InstTypeOK,
      CountsOK, OffOK, LoadOK
  <2>4. MountOK' /\ EnabledOK' /\ PlaceOK' /\ OthersOK' /\ FirstInstallSafe'
    BY <1>1, <2>1, <2>2 DEF vars, instVars, mbrVars, diskVars, history, IInv, MountOK, EnabledOK, Installing, PlaceOK, OthersOK,
      FirstInstallSafe, Mixed
  <2>5. CopyOK' /\ EnableOK' /\ InstalledOK'
    BY <1>1, <2>1, <2>2 DEF vars, instVars, mbrVars, history, IInv, CopyOK, EnableOK, InstalledOK
  <2> QED
    BY <2>3, <2>4, <2>5 DEF IInv
<1>2. CASE Next
  BY <1>2, FormatHDDKeeps, InstallFHDBKeeps, CleanupFHDBKeeps, DismissKeeps, RestartKeeps, StartInstallerKeeps,
    EarlyKeeps, MountTargetKeeps, RemoveFileKeeps, EndCleanupKeeps, CreateBasicFoldersKeeps, WriteMbrBlockKeeps,
    SetOsdMbrKeeps, OpenDestFileKeeps, WriteDestFileKeeps, EndCopyKeeps, EnableKeeps, StartKeeps DEF Next, Install
<1> QED
  BY <1>1, <1>2

THEOREM IInvAlways == Spec => []IInv
BY InitKeeps, IInvInductive, PTL DEF Spec

(* Type correctness, for an MBR program of any length and any number of failures. *)
THEOREM TypeCorrect == Spec => []TypeOK
<1>1. IInv => TypeOK
  BY DEF IInv
<1> QED
  BY <1>1, IInvAlways, PTL

(* A first installation that has failed or was cut off, at any point and however often, never leaves a console that
   starts from a disk whose programs are written in part. *)
THEOREM FirstInstallIsSafe == Spec => []FirstInstallSafe
<1>1. IInv => FirstInstallSafe
  BY DEF IInv
<1> QED
  BY <1>1, IInvAlways, PTL

(* An installation that is reported complete has left everything it was to copy, whole. *)
THEOREM InstallationIsWhole == Spec => []InstalledIsWhole
<1>1. IInv => InstalledIsWhole
  <2> SUFFICES ASSUME IInv, last = "installed", unseen = 0
               PROVE  /\ mbr = AllBlocks("new") /\ osdMbr /\ hddBoot
                      /\ \A f \in {"osdmain", "fsck", "fmcb", "boot"} : file[f] = "whole"
                      /\ "SKIP_CNF" \notin flags => file["FREEHDB.CNF"] = "whole"
                      /\ "APPS" \in flags => apps = "pfs" /\ file["app"] = "whole"
    BY DEF InstalledIsWhole
  <2>1. hddBoot /\ \A f \in Names : Done(f)
    BY DEF IInv, InstalledOK
  <2>2. Done("mbr") /\ Done("osdmain") /\ Done("fsck") /\ Done("fmcb") /\ Done("boot")
    BY <2>1, Listed
  <2>3. ("SKIP_CNF" \notin flags => Done("FREEHDB.CNF")) /\ ("APPS" \in flags => Done("app"))
    BY <2>1, Listed
  <2> QED
    BY <2>1, <2>2, <2>3 DEF Done
<1> QED
  BY <1>1, IInvAlways, PTL

(* A file is written to the partition it is meant for, and no operation leaves a partition mounted. *)
THEOREM MountsAreRight == Spec => []MountedRight
<1>1. IInv => MountedRight
  BY DEF IInv, MountOK, MountedRight
<1> QED
  BY <1>1, IInvAlways, PTL

-----------------------------------------------------------------------------
(* What a start comes to.  BInv follows, beside IInv, the one entry of the disk that the start depends on through   *)
(* an operation, and then the start from place to place.                                                           *)

(* An installation is only begun on a disk without a known error, and reports one that it comes upon. *)
ErrorOK == Installing \/ last = "installed" => errorPart = "none"

(* What has been mounted shows that the disk is formatted. *)
FormattedOK ==
  /\ pc \in {"list", "apps", "create", "format", "attributes"} => n = 1
  /\ mounted # "none" \/ (Cleaning /\ n > 1) \/ pc \in {"folders", "copy"} \cup ConfigCalls \/ last # "none" => formatted

(* The program that a removal is to remove comes first in its list. *)
RemovedOK ==
  /\ pc = "cleanup" /\ n > 1 /\ unseen = 0 => file["osdmain"] = "absent"
  /\ last = "removed" => pc \in {"menu", "shown", "off"} /\ (unseen = 0 => file["osdmain"] = "absent")

(* The places that a start passes which has not stumbled: after an installation with the first target only, ... *)
StartInstalledOK ==
  last = "installed" /\ unseen = 0 /\ ~stumbled /\ Healthy =>
    /\ boot \notin {"OSDSYS", "BootBrowser", "hosdsys", "fsck"}
    /\ boot \in {"mount", "open", "load"} => ~ExecuteFsck /\ i = 1

(* ...and after a removal past the first, and past the second if that is not there. *)
StartRemovedOK ==
  last = "removed" /\ unseen = 0 /\ ~stumbled /\ Healthy /\ ~ExecuteFsck =>
    /\ boot \notin {"osdmain", "fsck"}
    /\ boot = "mount" => i = 1
    /\ boot = "open" /\ i > 2 => file["hosdsys"] # "whole"
    /\ boot = "load" => i = 2 /\ file["hosdsys"] = "whole"
    /\ boot = "hosdsys" => file["hosdsys"] = "whole"
    /\ boot = "BootBrowser" => file["hosdsys"] # "whole"

(* A program is loaded that is in the list. *)
TargetOK == boot = "load" => i <= NumBootTargets

BInv == ErrorOK /\ FormattedOK /\ RemovedOK /\ StartInstalledOK /\ StartRemovedOK /\ TargetOK

DiskParts == ErrorOK /\ FormattedOK /\ RemovedOK
StartParts == StartInstalledOK /\ StartRemovedOK /\ TargetOK

LEMMA InitBInv == ASSUME Init PROVE BInv
  BY DEF Init, BInv, ErrorOK, FormattedOK, RemovedOK, StartInstalledOK, StartRemovedOK, TargetOK, Installing, Cleaning

(* No start has come to anything while the installer runs, nor when the power comes back. *)
LEMMA NothingStarted == ASSUME boot' \in {"off", "rom"} PROVE StartParts'
  BY DEF StartParts, StartInstalledOK, StartRemovedOK, TargetOK

(* A step that leaves the disk alone and does not go on with an operation. *)
LEMMA DiskAlone ==
  ASSUME DiskParts, UNCHANGED <<formatted, errorPart, file, last, unseen>>,
         \/ UNCHANGED <<pc, n, mounted>>
         \/ pc' \in {"menu", "shown", "off"} /\ (mounted' = mounted \/ mounted' = "none")
  PROVE  DiskParts'
  BY DEF DiskParts, ErrorOK, FormattedOK, RemovedOK, Installing, Cleaning

LEMMA MenuBInv ==
  ASSUME IInv, DiskParts, FormatHDD \/ InstallFHDB \/ CleanupFHDB \/ Dismiss \/ Restart \/ StartInstaller
  PROVE  DiskParts' /\ StartParts'
<1> USE DEF others, diskVars, bootVars, mbrVars, history
<1>0. pc # "off" => boot = "off"
  BY DEF IInv, OffOK
<1>1. CASE FormatHDD
  <2>1. mounted = "none"
    BY <1>1 DEF FormatHDD, IInv, MountOK
  <2>2. DiskParts'
    BY <1>1, <2>1 DEF FormatHDD, DiskParts, ErrorOK, FormattedOK, RemovedOK, Installing, Cleaning
  <2> QED
    BY <1>0, <1>1, <2>2, NothingStarted DEF FormatHDD
<1>2. CASE InstallFHDB
  <2>1. mounted = "none" /\ mounted' = mounted /\ pc' = "list" /\ n' = 1 /\ last' = "none"
    BY <1>2 DEF InstallFHDB, IInv, MountOK
  <2>2. errorPart' = "none"
    BY <1>2 DEF InstallFHDB, HDDCheckPartErrorStatus
  <2>3. DiskParts'
    BY <2>1, <2>2 DEF DiskParts, ErrorOK, FormattedOK, RemovedOK, Cleaning
  <2> QED
    BY <1>0, <1>2, <2>3, NothingStarted DEF InstallFHDB
<1>3. CASE CleanupFHDB
  <2>1. mounted = "none"
    BY <1>3 DEF CleanupFHDB, IInv, MountOK
  <2>2. DiskParts'
    BY <1>3, <2>1 DEF CleanupFHDB, DiskParts, ErrorOK, FormattedOK, RemovedOK, Installing, Cleaning
  <2> QED
    BY <1>0, <1>3, <2>2, NothingStarted DEF CleanupFHDB
<1>4. CASE Dismiss
  BY <1>0, <1>4, DiskAlone, NothingStarted DEF Dismiss
<1>5. CASE Restart
  BY <1>5, DiskAlone, NothingStarted DEF Restart
<1>6. CASE StartInstaller
  BY <1>6, DiskAlone, NothingStarted DEF StartInstaller
<1> QED
  BY <1>1, <1>2, <1>3, <1>4, <1>5, <1>6

LEMMA InstallBInv == ASSUME IInv, DiskParts, Install PROVE DiskParts' /\ StartParts'
<1> USE DEF others, diskVars, diskButFiles, bootVars, mbrVars, history
<1>0. boot' = "off"
  <2>1. pc # "off"
    BY DEF Install, MakeList, CheckAppsPartition, CreateAPPSPartition, FormatAPPSPartition, WriteAPPSPartitionAttributes,
           MountTarget, RemoveFile, EndCleanup, CreateBasicFoldersOnHDD, WriteMbrBlock, SetOsdMbr, OpenDestFile,
           WriteDestFile, EndCopy, EnableHDDBooting, AtEntry, Cleaning
  <2>2. UNCHANGED boot
    BY DEF Install, MakeList, CheckAppsPartition, CreateAPPSPartition, FormatAPPSPartition, WriteAPPSPartitionAttributes,
           MountTarget, RemoveFile, EndCleanup, CreateBasicFoldersOnHDD, WriteMbrBlock, SetOsdMbr, OpenDestFile,
           WriteDestFile, EndCopy, EnableHDDBooting
  <2> QED
    BY <2>1, <2>2 DEF IInv, OffOK
<1> SUFFICES DiskParts'
  BY <1>0, NothingStarted
<1>1. CASE MakeList \/ CheckAppsPartition \/ CreateAPPSPartition \/ FormatAPPSPartition \/ WriteAPPSPartitionAttributes
  <2>1. /\ pc \in {"list", "apps", "create", "format", "attributes"} /\ pc' \in Early \cup {"shown"}
        /\ UNCHANGED <<formatted, errorPart, mounted, n, last, unseen>>
    BY <1>1 DEF MakeList, CheckAppsPartition, CreateAPPSPartition, FormatAPPSPartition, WriteAPPSPartitionAttributes,
                Early, Goto, Failed
  <2>2. mounted = "none" /\ last # "removed"
    BY <2>1 DEF IInv, MountOK, DiskParts, RemovedOK
  <2> QED
    BY <2>1, <2>2 DEF DiskParts, ErrorOK, FormattedOK, RemovedOK, Installing, Cleaning, Early
<1>2. CASE MountTarget
  <2>1. /\ pc' \in {pc, "shown"} /\ (mounted' # "none" => formatted)
        /\ UNCHANGED <<formatted, errorPart, file, n, last, unseen>>
    BY <1>2 DEF MountTarget, Failed
  <2> QED
    BY <2>1 DEF DiskParts, ErrorOK, FormattedOK, RemovedOK, Installing, Cleaning
<1>3. CASE RemoveFile
  <2>1. /\ Entry \in Kinds /\ n \in 1 .. 8 /\ mounted = Entry.part /\ n' = n + 1 /\ pc \in {"clean", "cleanup"}
        /\ UNCHANGED <<formatted, errorPart, pc, mounted, last>>
    BY <1>3, ListType DEF RemoveFile, NeedsMount, Cleaning, IInv, TypeOK, InstTypeOK
  <2>2. mounted # "none" /\ formatted
    BY <2>1, KindMeans DEF DiskParts, FormattedOK
  <2>3. unseen' = 0 => unseen = 0 /\ file' = [file EXCEPT ![Entry.name] = "absent"]
    BY <1>3 DEF RemoveFile, Seen, Unseen, IInv, TypeOK, CountsOK
  <2>4. n = 1 => Entry.name = "osdmain"
    BY <1>3 DEF RemoveFile, Entry, List, CleanupList, At
  <2>5. pc = "cleanup" /\ unseen' = 0 => file'["osdmain"] = "absent"
    <3>1. n = 1 \/ n > 1
      BY <2>1
    <3>2. CASE n = 1
      BY <2>3, <2>4, <3>2 DEF IInv, TypeOK, DiskTypeOK
    <3>3. CASE n > 1
      BY <2>3, <3>3 DEF DiskParts, RemovedOK, IInv, TypeOK, DiskTypeOK
    <3> QED
      BY <3>1, <3>2, <3>3
  <2>6. last # "removed"
    BY <1>3 DEF RemoveFile, Cleaning, DiskParts, RemovedOK
  <2> QED
    BY <2>1, <2>2, <2>5, <2>6 DEF DiskParts, ErrorOK, FormattedOK, RemovedOK, Installing
<1>4. CASE EndCleanup
  <2>1. pc \in {"clean", "cleanup"} /\ n > 1 /\ formatted
    <3>1. Len(List) = 3 /\ pc \in {"clean", "cleanup"}
      BY <1>4, CleanupListType DEF EndCleanup, List, Cleaning
    <3> QED
      BY <1>4, <3>1 DEF EndCleanup, DiskParts, FormattedOK, Cleaning, IInv, TypeOK, InstTypeOK
  <2>2. /\ UNCHANGED <<formatted, errorPart, file, unseen>> /\ mounted' = "none" /\ n' = 1
        /\ \/ pc = "cleanup" /\ pc' = "shown" /\ last' = "removed"
           \/ pc = "clean" /\ pc' = "folders" /\ last' = last
    BY <1>4 DEF EndCleanup
  <2> QED
    BY <2>1, <2>2 DEF DiskParts, ErrorOK, FormattedOK, RemovedOK, Installing, Cleaning
<1>5. CASE CreateBasicFoldersOnHDD \/ EndCopy
  <2>1. /\ pc \in {"folders", "copy"} /\ pc' \in {"copy", "enable", "shown"} /\ mounted' \in {mounted, "none"}
        /\ UNCHANGED <<formatted, errorPart, file, last, unseen>>
    BY <1>5 DEF CreateBasicFoldersOnHDD, EndCopy, Goto, Then, Failed
  <2> QED
    BY <2>1 DEF DiskParts, ErrorOK, FormattedOK, RemovedOK, Installing, Cleaning
<1>6. CASE WriteMbrBlock \/ SetOsdMbr \/ OpenDestFile \/ WriteDestFile
  <2>1. pc = "copy"
    <3>1. CASE WriteMbrBlock \/ SetOsdMbr
      <4>1. AtEntry /\ Entry.name = "mbr"
        BY <3>1 DEF WriteMbrBlock, SetOsdMbr
      <4> QED
        BY <4>1, ListType DEF AtEntry, IInv, TypeOK, InstTypeOK
    <3>2. CASE OpenDestFile \/ WriteDestFile
      BY <3>2 DEF OpenDestFile, WriteDestFile, IInv, MountOK
    <3> QED
      BY <1>6, <3>1, <3>2
  <2>2. /\ pc' \in {"copy", "shown"} /\ mounted' \in {mounted, "none"} /\ UNCHANGED <<formatted, last>>
        /\ pc' = "copy" => UNCHANGED errorPart
    BY <1>6, <2>1 DEF WriteMbrBlock, SetOsdMbr, OpenDestFile, WriteDestFile, Failed
  <2>3. last = "none"
    BY <2>1 DEF IInv, InstalledOK, TypeOK, InstTypeOK, DiskParts, RemovedOK
  <2> QED
    BY <2>1, <2>2, <2>3 DEF DiskParts, ErrorOK, FormattedOK, RemovedOK, Installing, Cleaning
<1>7. CASE EnableHDDBooting
  <2>1. /\ pc \in ConfigCalls /\ UNCHANGED <<formatted, errorPart, mounted>>
        /\ \/ pc' \in ConfigCalls /\ last' = last
           \/ pc' = "shown" /\ last' = "installed"
    BY <1>7 DEF EnableHDDBooting, ReadConfig, WriteConfig, CloseConfig, ConfigDone, Goto, Then
  <2>2. last # "removed"
    BY <2>1 DEF DiskParts, RemovedOK
  <2> QED
    BY <2>1, <2>2 DEF DiskParts, ErrorOK, FormattedOK, RemovedOK, Installing, Cleaning
<1> QED
  BY <1>1, <1>2, <1>3, <1>4, <1>5, <1>6, <1>7 DEF Install

(* The targets of a start that does not check the file system. *)
LEMMA Targets ==
  ASSUME ~ExecuteFsck, ExecuteFsck \in BOOLEAN
  PROVE  /\ BootDestinations[ExecuteFsck][1] = "osdmain" /\ BootDestinations[ExecuteFsck][2] = "hosdsys"
         /\ BootDestinations[ExecuteFsck][3] \notin Programs
  BY DEF BootDestinations

LEMMA StartDiskParts == ASSUME IInv, DiskParts, Start PROVE DiskParts'
<1> USE DEF Start, Boot, instVars, diskVars, history
<1>1. /\ UNCHANGED <<formatted, file, last, unseen, pc, n, mounted>> /\ errorPart' \in {errorPart, "none"}
  BY DEF PowerOn, CheckDisk, Mount, OpenTarget, NoTarget, LoadTarget
<1> QED
  BY <1>1 DEF DiskParts, ErrorOK, FormattedOK, RemovedOK, Installing, Cleaning

(* What the disk is like after an installation, but for failures that it does not look at. *)
LEMMA InstalledDisk ==
  ASSUME IInv, DiskParts, last = "installed", unseen = 0
  PROVE  /\ formatted /\ osdMbr /\ hddBoot /\ ~Mixed /\ mbr[1] # "none" /\ file["osdmain"] = "whole"
         /\ errorPart = "none"
<1>1. hddBoot /\ Done("mbr") /\ Done("osdmain")
  BY Listed DEF IInv, InstalledOK
<1>2. ~Mixed /\ mbr[1] # "none"
  BY <1>1 DEF Done, Mixed, AllBlocks
<1> QED
  BY <1>1, <1>2 DEF Done, DiskParts, FormattedOK, ErrorOK

LEMMA StartInstalledKeeps == ASSUME IInv, BInv, Start PROVE StartInstalledOK'
<1> SUFFICES ASSUME last' = "installed", unseen' = 0, ~stumbled', Healthy'
             PROVE  /\ boot' \notin {"OSDSYS", "BootBrowser", "hosdsys", "fsck"}
                    /\ boot' \in {"mount", "open", "load"} => ~ExecuteFsck' /\ i' = 1
  BY DEF StartInstalledOK
<1> USE DEF diskVars
<1>1. last = "installed" /\ unseen = 0 /\ Boot
  BY DEF Start, instVars, history
<1>2. /\ formatted /\ osdMbr /\ hddBoot /\ ~Mixed /\ mbr[1] # "none" /\ file["osdmain"] = "whole"
      /\ errorPart = "none"
  BY <1>1, InstalledDisk DEF BInv, DiskParts
<1>3. ~smartError /\ ~sectorError /\ Healthy
  <2>1. UNCHANGED <<smartError, sectorError>>
    BY <1>1 DEF Boot, PowerOn, CheckDisk, Mount, OpenTarget, NoTarget, LoadTarget
  <2> QED
    BY <1>2, <2>1 DEF Healthy
<1>4. CASE PowerOn
  BY <1>2, <1>4 DEF PowerOn
<1>5. CASE CheckDisk
  BY <1>2, <1>3, <1>5 DEF CheckDisk
<1>6. ASSUME boot \in {"mount", "open", "load"}, ~stumbled PROVE ~ExecuteFsck /\ i = 1
  BY <1>1, <1>3, <1>6 DEF BInv, StartInstalledOK
<1>7. CASE Mount
  BY <1>6, <1>7 DEF Mount, Smooth, Stumbles
<1>8. ASSUME OpenTarget \/ LoadTarget, ~stumbled PROVE BootDestinations[ExecuteFsck][i] = "osdmain"
  BY <1>6, <1>8, Targets DEF OpenTarget, LoadTarget, IInv, TypeOK, BootTypeOK
<1>9. CASE OpenTarget
  BY <1>2, <1>6, <1>8, <1>9 DEF OpenTarget, Present, Smooth, Stumbles
<1>10. CASE NoTarget
  BY <1>6, <1>10 DEF NoTarget, NumBootTargets
<1>11. CASE LoadTarget
  BY <1>2, <1>8, <1>11 DEF LoadTarget, Smooth, Stumbles
<1> QED
  BY <1>1, <1>4, <1>5, <1>7, <1>9, <1>10, <1>11 DEF Boot

LEMMA StartRemovedKeeps == ASSUME IInv, BInv, Start PROVE StartRemovedOK'
<1> DEFINE Goal ==
      /\ boot' \notin {"osdmain", "fsck"}
      /\ boot' = "mount" => i' = 1
      /\ boot' = "open" /\ i' > 2 => file["hosdsys"] # "whole"
      /\ boot' = "load" => i' = 2 /\ file["hosdsys"] = "whole"
      /\ boot' = "hosdsys" => file["hosdsys"] = "whole"
      /\ boot' = "BootBrowser" => file["hosdsys"] # "whole"
<1> USE DEF diskVars
<1>0. Boot /\ UNCHANGED <<file, last, unseen>>
  BY DEF Start, instVars, history, Boot, PowerOn, CheckDisk, Mount, OpenTarget, NoTarget, LoadTarget
<1> SUFFICES ASSUME last' = "removed", unseen' = 0, ~stumbled', Healthy', ~ExecuteFsck' PROVE Goal
  BY <1>0 DEF StartRemovedOK
<1>1. last = "removed" /\ unseen = 0 /\ formatted /\ file["osdmain"] = "absent"
  BY <1>0 DEF BInv, FormattedOK, RemovedOK
<1>2. i \in 1 .. 4 /\ ExecuteFsck \in BOOLEAN /\ (file["hosdsys"] # "whole" => file["hosdsys"] = "absent")
  BY DEF IInv, OthersOK, TypeOK, BootTypeOK, DiskTypeOK, NumBootTargets
<1>3. CASE PowerOn
  BY <1>3 DEF PowerOn
<1>4. CASE CheckDisk
  <2>1. Healthy
    BY <1>4 DEF CheckDisk, Healthy
  <2> QED
    BY <1>1, <1>4, <2>1 DEF CheckDisk, Healthy
<1>5. ASSUME Mount \/ OpenTarget \/ NoTarget \/ LoadTarget, ~stumbled
      PROVE  /\ ~ExecuteFsck
             /\ boot = "mount" => i = 1
             /\ boot = "open" /\ i > 2 => file["hosdsys"] # "whole"
             /\ boot = "load" => i = 2 /\ file["hosdsys"] = "whole"
  <2>1. ~ExecuteFsck
    BY <1>5 DEF Mount, OpenTarget, NoTarget, LoadTarget
  <2>2. boot = "load" => BootDestinations[ExecuteFsck][i] # "fsck"
    BY <1>2, <2>1, Targets DEF BInv, TargetOK, NumBootTargets
  <2>3. Healthy
    BY <1>5, <2>2 DEF Healthy, Mount, OpenTarget, NoTarget, LoadTarget
  <2> QED
    BY <1>1, <1>5, <2>1, <2>3 DEF BInv, StartRemovedOK
<1>6. CASE Mount
  <2>1. boot' = "open" /\ i' = i /\ ~stumbled
    BY <1>6 DEF Mount, Smooth, Stumbles
  <2>2. i = 1
    BY <1>5, <1>6, <2>1 DEF Mount
  <2> QED
    BY <2>1, <2>2
<1>7. CASE OpenTarget
  <2>1. CASE ~stumbled
    <3>1. i \in 1 .. 3 /\ boot = "open" /\ (i > 2 => file["hosdsys"] # "whole")
      BY <1>2, <1>5, <1>7, <2>1 DEF OpenTarget, NumBootTargets
    <3>2. Present(BootDestinations[ExecuteFsck][i]) => i = 2 /\ file["hosdsys"] = "whole"
      BY <1>1, <1>2, <1>5, <1>7, <2>1, <3>1, Targets DEF Present
    <3>3. i = 2 /\ file["hosdsys"] = "whole" => Present(BootDestinations[ExecuteFsck][i])
      BY <1>2, <1>5, <1>7, <2>1, Targets DEF Present
    <3>4. \/ boot' = "load" /\ i' = i /\ Present(BootDestinations[ExecuteFsck][i])
          \/ boot' = "open" /\ i' = i + 1 /\ ~Present(BootDestinations[ExecuteFsck][i])
      BY <1>7, <3>1 DEF OpenTarget, Stumbles
    <3> QED
      BY <3>1, <3>2, <3>3, <3>4
  <2>2. CASE stumbled
    BY <1>7, <2>2 DEF OpenTarget, Smooth, Stumbles
  <2> QED
    BY <2>1, <2>2
<1>8. CASE NoTarget
  BY <1>2, <1>5, <1>8 DEF NoTarget, NumBootTargets, BootError
<1>9. CASE LoadTarget
  <2>1. CASE ~stumbled
    <3>1. i = 2 /\ file["hosdsys"] = "whole" /\ BootDestinations[ExecuteFsck][i] = "hosdsys"
      BY <1>2, <1>5, <1>9, <2>1, Targets DEF LoadTarget
    <3>2. boot' = "hosdsys"
      BY <1>9, <3>1 DEF LoadTarget, Stumbles
    <3> QED
      BY <3>1, <3>2
  <2>2. CASE stumbled
    BY <1>9, <2>2 DEF LoadTarget, Smooth, Stumbles
  <2> QED
    BY <2>1, <2>2
<1> QED
  BY <1>0, <1>3, <1>4, <1>6, <1>7, <1>8, <1>9 DEF Boot

LEMMA BInvInductive == IInv /\ BInv /\ [Next]_vars => BInv'
<1> SUFFICES ASSUME IInv, BInv, [Next]_vars PROVE BInv'
  OBVIOUS
<1>1. CASE UNCHANGED vars
  BY <1>1 DEF vars, instVars, mbrVars, diskVars, bootVars, history, BInv, ErrorOK, FormattedOK, RemovedOK, Installing,
              Cleaning, StartInstalledOK, StartRemovedOK, TargetOK, Healthy
<1>2. CASE Start
  <2>1. TargetOK'
    BY <1>2 DEF Start, BInv, TargetOK, Boot, PowerOn, CheckDisk, Mount, OpenTarget, NoTarget, LoadTarget, BootError,
                IInv, LoadOK
  <2> QED
    BY <1>2, <2>1, StartDiskParts, StartInstalledKeeps, StartRemovedKeeps DEF BInv, DiskParts
<1>3. CASE Next /\ ~Start
  BY <1>3, MenuBInv, InstallBInv DEF Next, BInv, DiskParts, StartParts
<1> QED
  BY <1>1, <1>2, <1>3

THEOREM BInvAlways == Spec => []BInv
BY InitBInv, BInvInductive, IInvAlways, PTL DEF Spec

(* The console starts what the last operation has left, for any number of failures before it: the installed program
   after an installation that is reported complete, and the browser of the disk, if there is one, after a removal. *)
THEOREM StartsWhatIsLeft == Spec => []BootsAsLeft
<1>1. IInv /\ BInv => BootsAsLeft
  <2> SUFFICES ASSUME IInv, BInv, Settled, Healthy
               PROVE  /\ last = "installed" => boot = "osdmain"
                      /\ last = "removed" /\ ~ExecuteFsck /\ boot # "OSDSYS" =>
                           boot = IF file["hosdsys"] = "whole" THEN "hosdsys" ELSE "BootBrowser"
    BY DEF BootsAsLeft
  <2>1. boot \in {"osdmain", "hosdsys", "fsck", "OSDSYS", "BootBrowser"} /\ ~stumbled /\ unseen = 0
    BY DEF Settled, Outcomes
  <2>2. last = "installed" => boot = "osdmain"
    BY <2>1 DEF BInv, StartInstalledOK
  <2>3. ASSUME last = "removed", ~ExecuteFsck, boot # "OSDSYS"
        PROVE  boot = IF file["hosdsys"] = "whole" THEN "hosdsys" ELSE "BootBrowser"
    BY <2>1, <2>3 DEF BInv, StartRemovedOK
  <2> QED
    BY <2>2, <2>3
<1> QED
  BY <1>1, IInvAlways, BInvAlways, PTL
=============================================================================
