-------------------------- MODULE McInstallProofs --------------------------
(***************************************************************************)
(* Proofs about the installation to a memory card, for any consoles, cards *)
(* and package, and any number of failures and resets.                     *)
(*                                                                         *)
(* IInv  follows what the flag of the card has said through the steps of   *)
(*       an installation: MCMAN never cleans a card whose uninstallation   *)
(*       file is still there.                                              *)
(* TInv  has the types, and what goes with the place of the program        *)
(*       whatever has failed: what the list has in it, how many entries    *)
(*       have been counted, what has been copied.                          *)
(* SInv  says what a card looks like as long as nothing has failed: whose  *)
(*       installation is on it, and which files share clusters.            *)
(***************************************************************************)
EXTENDS McInstall, SequenceLemmas, FiniteSetTheorems, FunctionTheorems, TLAPS

-----------------------------------------------------------------------------
(* The flag, and the uninstallation file *)

(* The flag of a card that has been polled says at least what the card does. *)
FlagOK == pc = "polled" /\ ~blind => (HasOldMultiInstall => hasMulti)

(* An installation that will clean the card has passed the check... *)
PassedOK == pc \in {"stats", "list"} /\ ~blind /\ "SKIP_CLEANUP" \notin flags => ~HasOldMultiInstall

(* ...and the steps of a removal are those of a removal. *)
RemovalOK == pc \in {"read", "delete_uninst", "unlink", "extra"} => event = "CLEANUP_MULTI"

IInv == FlagOK /\ PassedOK /\ RemovalOK /\ CleanedWithoutLinks
LEMMA InitIInv == Init => IInv
  BY DEF Init, IInv, FlagOK, PassedOK, RemovalOK, CleanedWithoutLinks

LEMMA StutterIInv == IInv /\ UNCHANGED vars => IInv'
  BY DEF IInv, FlagOK, PassedOK, RemovalOK, CleanedWithoutLinks, HasOldMultiInstall, vars, cardVars, opVars

(* Actions that end at the menu, or at a message, promise nothing. *)
LEMMA AtRest == pc' \in {"menu", "shown", "folders", "copy", "uninst", "link"} => IInv'
  BY DEF IInv, FlagOK, PassedOK, RemovalOK, CleanedWithoutLinks

LEMMA PollIInv == IInv /\ Poll => IInv'
  BY DEF IInv, FlagOK, PassedOK, RemovalOK, CleanedWithoutLinks, HasOldMultiInstall, Poll, cardVars, opVars

LEMMA BeginInstallIInv == IInv /\ BeginInstall => IInv'
<1> SUFFICES ASSUME IInv, BeginInstall PROVE IInv'
  OBVIOUS
<1>1. pc' = "stats" /\ UNCHANGED <<cardVars, blind>> /\ pc = "polled"
  BY DEF BeginInstall
<1>2. PICK e \in InstallEvents, kind \in {{}, {"CROSS_MODEL"}, {"CROSS_REG"}}, keep \in {{}, {"SKIP_CNF"}} :
        /\ CheckPrerequisites(e)
        /\ flags' = kind \cup keep \cup (CASE e = "MULTI_INSTALL" -> {"MULTI_INST"}
                                           [] e = "INSTALL_CROSS_PSX" -> {"CROSS_PSX", "SKIP_CLEANUP"}
                                           [] OTHER -> {})
  BY DEF BeginInstall
<1>3. e = "INSTALL_CROSS_PSX" => "SKIP_CLEANUP" \in flags'
  BY <1>2
<1>4. e # "INSTALL_CROSS_PSX" => ~hasMulti
  BY <1>2 DEF CheckPrerequisites, InstallEvents
<1>5. ~blind /\ ~hasMulti => ~HasOldMultiInstall
  BY <1>1 DEF IInv, FlagOK
<1>6. PassedOK'
  BY <1>1, <1>3, <1>4, <1>5 DEF PassedOK, HasOldMultiInstall, cardVars
<1> QED
  BY <1>1, <1>6 DEF IInv, FlagOK, RemovalOK, CleanedWithoutLinks

LEMMA BeginCleanupIInv == IInv /\ BeginCleanup => IInv'
  BY DEF IInv, FlagOK, PassedOK, RemovalOK, CleanedWithoutLinks, HasOldMultiInstall, BeginCleanup,
         CheckPrerequisites, cardVars

LEMMA BeginCleanupMultiIInv == IInv /\ BeginCleanupMulti => IInv'
  BY DEF IInv, FlagOK, PassedOK, RemovalOK, CleanedWithoutLinks, BeginCleanupMulti

LEMMA MenuIInv ==
  Refuse \/ Format \/ Dump \/ Restore \/ Dismiss \/ MoveCard \/ Reset => IInv'
<1>1. Refuse \/ Format \/ Dump \/ Restore \/ Dismiss \/ MoveCard \/ Reset => pc' \in {"menu", "shown"}
  BY DEF Refuse, Format, Dump, Restore, Dismiss, MoveCard, Reset, Idle
<1> QED
  BY <1>1, AtRest

(* The list is made and checked on the card that has been polled. *)
LEMMA ListIInv == IInv /\ (GetAllBaseFileStats \/ AddDirContents) => IInv'
<1> SUFFICES ASSUME IInv, GetAllBaseFileStats \/ AddDirContents PROVE IInv'
  OBVIOUS
<1>1. pc \in {"stats", "list"} /\ pc' \in {"list", "shown"} /\ UNCHANGED <<cardVars, blind, flags, event>>
  BY DEF GetAllBaseFileStats, AddDirContents, Show
<1> QED
  BY <1>1 DEF IInv, FlagOK, PassedOK, RemovalOK, CleanedWithoutLinks, HasOldMultiInstall, cardVars

LEMMA CheckSpaceIInv == IInv /\ CheckSpace => IInv'
<1> SUFFICES ASSUME IInv, CheckSpace PROVE IInv'
  OBVIOUS
<1>1. pc = "list" /\ UNCHANGED <<cardVars, blind, flags, event>>
  BY DEF CheckSpace
<1>2. pc' \in {"shown", "folders"} \/ (pc' = "cleanup" /\ "SKIP_CLEANUP" \notin flags)
  BY DEF CheckSpace, Show
<1> QED
  BY <1>1, <1>2 DEF IInv, FlagOK, PassedOK, RemovalOK, CleanedWithoutLinks, HasOldMultiInstall, cardVars

LEMMA InstallIInv ==
  CreateBasicFolders \/ CopyFile \/ EndCopy \/ GenerateUninstallFile \/ CreateCrossLinkedFiles => IInv'
<1>1. CreateBasicFolders => pc' \in {"copy", "shown"}
  BY DEF CreateBasicFolders, Show
<1>2. CopyFile => pc' \in {"copy", "shown"}
  BY DEF CopyFile, Show
<1>3. EndCopy => pc' \in {"uninst", "shown"}
  BY DEF EndCopy, Show
<1>4. GenerateUninstallFile => pc' \in {"link", "shown"}
  BY DEF GenerateUninstallFile, Show
<1>5. CreateCrossLinkedFiles => pc' = "shown"
  BY DEF CreateCrossLinkedFiles, Show
<1> QED
  BY <1>1, <1>2, <1>3, <1>4, <1>5, AtRest

LEMMA RemovalIInv ==
  IInv /\ (ReadUninstallFile \/ DeleteUninstallFile \/ DeleteCrossLinkedFiles \/ DeleteUnneeded) => IInv'
<1> SUFFICES ASSUME IInv, ReadUninstallFile \/ DeleteUninstallFile \/ DeleteCrossLinkedFiles \/ DeleteUnneeded
             PROVE  IInv'
  OBVIOUS
<1>1. /\ pc \in {"read", "delete_uninst", "unlink", "extra"}
      /\ pc' \in {"shown", "delete_uninst", "unlink", "extra", "cleanup"}
      /\ event' = event
  <2>1. CASE ReadUninstallFile
    BY <2>1 DEF ReadUninstallFile, Show
  <2>2. CASE DeleteUninstallFile
    BY <2>2 DEF DeleteUninstallFile, opVars
  <2>3. CASE DeleteCrossLinkedFiles
    BY <2>3 DEF DeleteCrossLinkedFiles, opVars
  <2>4. CASE DeleteUnneeded
    BY <2>4 DEF DeleteUnneeded
  <2> QED
    BY <2>1, <2>2, <2>3, <2>4
<1>2. event' = "CLEANUP_MULTI"
  BY <1>1 DEF IInv, RemovalOK
<1> QED
  BY <1>1, <1>2 DEF IInv, FlagOK, PassedOK, RemovalOK, CleanedWithoutLinks

(* A cleanup leaves the uninstallation files alone. *)
LEMMA CleanupIInv == IInv /\ (ListFolder \/ DeleteFile \/ EndCleanup) => IInv'
<1> SUFFICES ASSUME IInv, ListFolder \/ DeleteFile \/ EndCleanup PROVE IInv'
  OBVIOUS
<1>1. CASE ListFolder \/ DeleteFile
  <2>1. pc = "cleanup" /\ UNCHANGED <<pc, event, blind, uninst, legacy>>
    BY <1>1 DEF ListFolder, DeleteFile, cardVars
  <2> QED
    BY <2>1 DEF IInv, FlagOK, PassedOK, RemovalOK, CleanedWithoutLinks, HasOldMultiInstall
<1>2. CASE EndCleanup
  <2>1. pc' \in {"folders", "shown"}
    BY <1>2 DEF EndCleanup, Show
  <2> QED
    BY <2>1, AtRest
<1> QED
  BY <1>1, <1>2

LEMMA NextIInv == IInv /\ [Next]_vars => IInv'
<1> SUFFICES ASSUME IInv, [Next]_vars PROVE IInv'
  OBVIOUS
<1>1. CASE Poll \/ BeginInstall \/ BeginCleanup \/ BeginCleanupMulti
  BY <1>1, PollIInv, BeginInstallIInv, BeginCleanupIInv, BeginCleanupMultiIInv
<1>2. CASE Refuse \/ Format \/ Dump \/ Restore \/ Dismiss \/ MoveCard \/ Reset
  BY <1>2, MenuIInv
<1>3. CASE GetAllBaseFileStats \/ AddDirContents \/ CheckSpace
  BY <1>3, ListIInv, CheckSpaceIInv
<1>4. CASE CreateBasicFolders \/ CopyFile \/ EndCopy \/ GenerateUninstallFile \/ CreateCrossLinkedFiles
  BY <1>4, InstallIInv
<1>5. CASE ReadUninstallFile \/ DeleteUninstallFile \/ DeleteCrossLinkedFiles \/ DeleteUnneeded
  BY <1>5, RemovalIInv
<1>6. CASE ListFolder \/ DeleteFile \/ EndCleanup
  BY <1>6, CleanupIInv
<1>7. CASE UNCHANGED vars
  BY <1>7, StutterIInv
<1> QED
  BY <1>1, <1>2, <1>3, <1>4, <1>5, <1>6, <1>7 DEF Next

(* Whatever has failed, been reset or been done to the card on another console before: MCMAN never cleans a card whose
   uninstallation file is still there, unless the file could not be opened a moment ago. *)
THEOREM CleansWithoutLinks == Spec => []CleanedWithoutLinks
<1>1. IInv => CleanedWithoutLinks
  BY DEF IInv
<1> QED
  BY InitIInv, NextIInv, <1>1, PTL DEF Spec
-----------------------------------------------------------------------------
(* The lists *)

Aliases == ToSet(FileAlias)

LEMMA FunctionIsSeq == ASSUME NEW S, NEW k \in Nat, NEW s \in [1 .. k -> S] PROVE s \in Seq(S)
  OBVIOUS

LEMMA TableOfAliases ==
  /\ Len(FileAlias) = 8 /\ \A j \in 1 .. 8 : FileAlias[j] \in Aliases
  /\ Aliases = {<<"I", "osd130">>, <<"I", "osdmain">>, <<"E", "osd130">>, <<"E", "osdmain">>,
                <<"A", "osd120">>, <<"A", "osd130">>, <<"A", "osdmain">>, <<"C", "osdmain">>}
<1>1. Len(FileAlias) = 8 /\ DOMAIN FileAlias = {1, 2, 3, 4, 5, 6, 7, 8}
  BY DEF FileAlias
<1>2. /\ FileAlias[1] = <<"I", "osd130">> /\ FileAlias[2] = <<"I", "osdmain">>
      /\ FileAlias[3] = <<"E", "osd130">> /\ FileAlias[4] = <<"E", "osdmain">>
      /\ FileAlias[5] = <<"A", "osd120">> /\ FileAlias[6] = <<"A", "osd130">>
      /\ FileAlias[7] = <<"A", "osdmain">> /\ FileAlias[8] = <<"C", "osdmain">>
  BY DEF FileAlias
<1>3. Aliases = {FileAlias[1], FileAlias[2], FileAlias[3], FileAlias[4],
                 FileAlias[5], FileAlias[6], FileAlias[7], FileAlias[8]}
  BY <1>1, Zenon DEF Aliases, ToSet
<1>4. \A j \in 1 .. 8 : FileAlias[j] \in Aliases
  BY <1>1 DEF Aliases, ToSet
<1> QED
  BY <1>1, <1>2, <1>3, <1>4

(* The files of the package. *)
PackageFiles == {"CONF", "PKG"} \X (STRING \ Groups)

LEMMA ContentsOf == Contents \in Seq(PackageFiles) /\ ToSet(Contents) \subseteq PackageFiles
<1> DEFINE ss == [j \in 1 .. Len(PackageFolders) |-> Package[PackageFolders[j]]]
<1>1. ss \in Seq(Seq(PackageFiles))
  <2>1. Len(PackageFolders) = 11 /\ DOMAIN PackageFolders = 1 .. 11
    BY DEF PackageFolders
  <2>2. \A j \in 1 .. Len(PackageFolders) : Package[PackageFolders[j]] \in Seq(PackageFiles)
    BY <2>1, PackageAssumption DEF ToSet, PackageFiles
  <2> QED
    BY <2>1, <2>2
<1>2. Contents = FlattenSeq(ss)
  BY Zenon DEF Contents
<1> HIDE DEF ss
<1>3. Contents \in Seq(PackageFiles)
  BY <1>1, <1>2, Flattened
<1> QED
  BY <1>3, ToSetOf

CopySet(c, fl) == {a \in Aliases : a # Own(c) /\ IF "CROSS_MODEL" \in fl THEN a[1] = c.region ELSE "CROSS_REG" \in fl}

LEMMA CopiesOf ==
  ASSUME NEW c, NEW fl
  PROVE  Copies(c, fl) \in Seq(Aliases) /\ ToSet(Copies(c, fl)) = CopySet(c, fl)
<1> DEFINE copied(a) == a # Own(c) /\ IF "CROSS_MODEL" \in fl THEN a[1] = c.region ELSE "CROSS_REG" \in fl
           ss == [j \in 1 .. Len(FileAlias) |-> IF copied(FileAlias[j]) THEN <<FileAlias[j]>> ELSE <<>>]
<1>1. Copies(c, fl) = FlattenSeq(ss)
  BY Zenon DEF Copies
<1>2. CopySet(c, fl) = {a \in Aliases : copied(a)}
  BY Zenon DEF CopySet
<1> HIDE DEF copied
<1>3. Len(FileAlias) = 8 /\ \A j \in 1 .. 8 : FileAlias[j] \in Aliases
  BY TableOfAliases
<1>4. ss \in Seq(Seq(Aliases))
  <2>1. \A j \in 1 .. 8 : <<FileAlias[j]>> \in Seq(Aliases)
    BY <1>3
  <2>2. <<>> \in Seq(Aliases)
    OBVIOUS
  <2>3. ss \in [1 .. 8 -> Seq(Aliases)]
    BY <1>3, <2>1, <2>2
  <2> HIDE DEF ss
  <2> QED
    BY <2>3, FunctionIsSeq
<1>5. DOMAIN ss = 1 .. 8 /\ \A j \in 1 .. 8 : ss[j] = IF copied(FileAlias[j]) THEN <<FileAlias[j]>> ELSE <<>>
  BY <1>3
<1> HIDE DEF ss
<1>6. \A j \in 1 .. 8 : ToSet(ss[j]) = IF copied(FileAlias[j]) THEN {FileAlias[j]} ELSE {}
  <2>1. \A x : ToSet(<<x>>) = {x}
    BY DEF ToSet
  <2>2. ToSet(<<>>) = {}
    BY DEF ToSet
  <2> QED
    BY <1>5, <2>1, <2>2
<1>7. FlattenSeq(ss) \in Seq(Aliases) /\ ToSet(FlattenSeq(ss)) = UNION {ToSet(ss[j]) : j \in DOMAIN ss}
  BY <1>4, Flattened
<1>8. UNION {ToSet(ss[j]) : j \in 1 .. 8} = {a \in Aliases : copied(a)}
  <2>1. \A a \in Aliases : \E j \in 1 .. 8 : a = FileAlias[j]
    BY TableOfAliases DEF Aliases, ToSet
  <2> QED
    BY <1>3, <1>6, <2>1
<1> QED
  BY <1>1, <1>2, <1>5, <1>7, <1>8, Zenon

(* Entries are counted path by path. *)
Threes(s) == {j \in DOMAIN s : s[j][2] \in Groups}

LEMMA ThreesFinite ==
  ASSUME NEW S, NEW s \in Seq(S)
  PROVE  IsFiniteSet(Threes(s)) /\ Cardinality(Threes(s)) \in Nat /\ Entries(s) = Len(s) + 2 * Cardinality(Threes(s))
<1>1. Threes(s) \subseteq 1 .. Len(s)
  BY DEF Threes
<1>2. IsFiniteSet(1 .. Len(s))
  BY FS_Interval
<1>3. IsFiniteSet(Threes(s))
  BY <1>1, <1>2, FS_Subset
<1> QED
  BY <1>3, FS_CardinalityType, Zenon DEF Entries, Threes

LEMMA EntriesConcat ==
  ASSUME NEW S, NEW s \in Seq(S), NEW t \in Seq(S)
  PROVE  Entries(s \o t) = Entries(s) + Entries(t) /\ Entries(s) \in Nat
<1> DEFINE shifted == {Len(s) + j : j \in Threes(t)}
<1>1. s \o t \in Seq(S) /\ Len(s \o t) = Len(s) + Len(t) /\ Len(s) \in Nat /\ Len(t) \in Nat
  OBVIOUS
<1>2. Threes(s \o t) = Threes(s) \cup shifted
  <2>1. \A j \in 1 .. Len(s) : j \in DOMAIN (s \o t) /\ (s \o t)[j] = s[j]
    OBVIOUS
  <2>2. \A j \in 1 .. Len(t) : Len(s) + j \in DOMAIN (s \o t) /\ (s \o t)[Len(s) + j] = t[j]
    OBVIOUS
  <2>3. \A j \in DOMAIN (s \o t) : j \in 1 .. Len(s) \/ \E k \in 1 .. Len(t) : j = Len(s) + k
    <3> SUFFICES ASSUME NEW j \in 1 .. Len(s) + Len(t), j \notin 1 .. Len(s) PROVE \E k \in 1 .. Len(t) : j = Len(s) + k
      OBVIOUS
    <3>1. j - Len(s) \in 1 .. Len(t) /\ j = Len(s) + (j - Len(s))
      BY <1>1
    <3> QED
      BY <3>1
  <2>4. DOMAIN s = 1 .. Len(s) /\ DOMAIN t = 1 .. Len(t)
    OBVIOUS
  <2>5. ASSUME NEW j \in Threes(s \o t) PROVE j \in Threes(s) \cup shifted
    BY <2>1, <2>2, <2>3, <2>4, <2>5 DEF Threes
  <2>6. ASSUME NEW j \in Threes(s) PROVE j \in Threes(s \o t)
    BY <2>1, <2>4, <2>6 DEF Threes
  <2>7. ASSUME NEW j \in shifted PROVE j \in Threes(s \o t)
    BY <2>2, <2>4, <2>7 DEF Threes
  <2> QED
    BY <2>5, <2>6, <2>7
<1>3. IsFiniteSet(shifted) /\ Cardinality(shifted) = Cardinality(Threes(t))
  <2> DEFINE f == [j \in Threes(t) |-> Len(s) + j]
  <2>1. Threes(t) \subseteq Nat
    BY DEF Threes
  <2>2. f \in Bijection(Threes(t), shifted)
    <3>1. f \in [Threes(t) -> shifted]
      OBVIOUS
    <3>2. \A a, b \in Threes(t) : f[a] = f[b] => a = b
      BY <1>1, <2>1
    <3>3. \A y \in shifted : \E a \in Threes(t) : f[a] = y
      OBVIOUS
    <3> HIDE DEF f
    <3> QED
      BY <3>1, <3>2, <3>3, Fun_IsBij, Zenon
  <2>3. IsFiniteSet(Threes(t))
    BY ThreesFinite
  <2> HIDE DEF f, shifted
  <2>4. ExistsBijection(Threes(t), shifted)
    BY <2>2 DEF ExistsBijection
  <2> QED
    BY <2>3, <2>4, FS_Bijection
<1>4. Threes(s) \cap shifted = {}
  BY <1>1 DEF Threes
<1>5. IsFiniteSet(Threes(s)) /\ IsFiniteSet(Threes(t))
  BY ThreesFinite
<1>6. Cardinality(Threes(s \o t)) = Cardinality(Threes(s)) + Cardinality(Threes(t))
  <2>1. Cardinality(Threes(s) \cup shifted) =
          Cardinality(Threes(s)) + Cardinality(shifted) - Cardinality(Threes(s) \cap shifted)
    BY <1>3, <1>5, FS_Union
  <2>2. Cardinality(Threes(s) \cap shifted) = 0
    BY <1>4, FS_EmptySet
  <2>3. Cardinality(Threes(s)) \in Nat /\ Cardinality(Threes(t)) \in Nat
    BY ThreesFinite
  <2> HIDE DEF shifted
  <2> QED
    BY <1>2, <1>3, <2>1, <2>2, <2>3
<1>7. Entries(s \o t) = Len(s \o t) + 2 * Cardinality(Threes(s \o t))
  BY <1>1, ThreesFinite
<1> HIDE DEF shifted
<1> QED
  BY <1>1, <1>6, <1>7, ThreesFinite

LEMMA EntriesOne == ASSUME NEW p PROVE Entries(<<p>>) = IF p[2] \in Groups THEN 3 ELSE 1
<1>1. <<p>> \in Seq({p}) /\ Len(<<p>>) = 1
  OBVIOUS
<1>4. Entries(<<p>>) = Len(<<p>>) + 2 * Cardinality(Threes(<<p>>))
  BY <1>1, ThreesFinite, Zenon
<1>2. CASE p[2] \in Groups
  <2>1. Threes(<<p>>) = {1}
    BY <1>2 DEF Threes
  <2>2. Cardinality({1}) = 1
    BY FS_Singleton
  <2> QED
    BY <1>1, <1>2, <1>4, <2>1, <2>2
<1>3. CASE p[2] \notin Groups
  <2>1. Threes(<<p>>) = {}
    BY <1>3 DEF Threes
  <2>2. Cardinality({}) = 0
    BY FS_EmptySet
  <2> QED
    BY <1>1, <1>3, <1>4, <2>1, <2>2
<1> QED
  BY <1>2, <1>3

LEMMA EntriesPlain ==
  ASSUME NEW S, NEW s \in Seq(S), \A p \in S : p[2] \notin Groups
  PROVE  Entries(s) = Len(s)
<1>1. Threes(s) = {}
  BY DEF Threes
<1>2. Cardinality({}) = 0
  BY FS_EmptySet
<1>3. Entries(s) = Len(s) + 2 * Cardinality(Threes(s))
  BY ThreesFinite, Zenon
<1> QED
  BY <1>1, <1>2, <1>3

LEMMA EntriesNat == ASSUME NEW S, NEW s \in Seq(S) PROVE Entries(s) \in Nat
  BY EntriesConcat

(* What a list holds, as a set. *)
SysSet(c, fl) ==
  CASE TargetSystemType(c, fl) = "PSX" -> {<<"I", "xosdmain">>}
    [] TargetSystemType(c, fl) = "DEX" -> {<<c.region, "osdmain">>}
    [] OTHER -> {Own(c), <<"CONF", "endvdpl">>} \cup CopySet(c, fl)

Japanese(c, fl, rom) == AllJapanese(c, fl) \/ (MGLetter(c, fl) = "I" /\ c.rom = rom)
UpdateSet(c, fl) ==
  {p \in {<<"I", "osdsys">>, <<"I", "osd110">>, <<"I", "hddload">>} :
     \/ p = <<"I", "osdsys">> /\ Japanese(c, fl, \h100)
     \/ p = <<"I", "osd110">> /\ Japanese(c, fl, \h101)
     \/ p = <<"I", "hddload">> /\ Hddload(c, fl)}

ResourceSet(c, fl) == (IF AllRegions(fl) THEN Regions ELSE {MGLetter(c, fl)}) \X {"icon"}

BaseSet(fl) == {<<"CONF", "usbhdfsd">>} \cup (IF "SKIP_CNF" \in fl THEN {} ELSE {Cnf})

Wanted(c, fl) == SysSet(c, fl) \cup UpdateSet(c, fl) \cup ResourceSet(c, fl) \cup BaseSet(fl)

LEMMA ToSetSmall == ToSet(<<>>) = {} /\ (\A x : ToSet(<<x>>) = {x}) /\ \A x, y : ToSet(<<x, y>>) = {x, y}
<1>1. \A x, y : ToSet(<<x, y>>) = {x, y}
  <2> TAKE x, y
  <2>1. DOMAIN <<x, y>> = {1, 2} /\ <<x, y>>[1] = x /\ <<x, y>>[2] = y
    OBVIOUS
  <2> QED
    BY <2>1 DEF ToSet
<1> QED
  BY <1>1 DEF ToSet

LEMMA KindsOfFlags ==
  ASSUME NEW c \in Consoles, NEW fl
  PROVE  /\ MGLetter(c, fl) \in Regions /\ TargetSystemType(c, fl) \in {"PS2", "DEX", "PSX"}
         /\ c.region \in Regions /\ c.rom \in Nat
  BY ConsolesAssumption DEF MGLetter, TargetSystemType, Regions

LEMMA SysFilesOf ==
  ASSUME NEW c \in Consoles, NEW fl
  PROVE  SysFiles(c, fl) \in Seq(Paths) /\ ToSet(SysFiles(c, fl)) = SysSet(c, fl)
<1>1. CASE TargetSystemType(c, fl) = "PSX"
  <2>1. SysFiles(c, fl) = << <<"I", "xosdmain">> >> /\ <<"I", "xosdmain">> \in Paths
    BY <1>1 DEF SysFiles, PSXSysFiles, Paths
  <2> QED
    BY <1>1, <2>1, ToSetSmall DEF SysSet
<1>2. CASE TargetSystemType(c, fl) = "DEX"
  <2>1. SysFiles(c, fl) = << <<c.region, "osdmain">> >> /\ <<c.region, "osdmain">> \in Paths
    BY <1>2, KindsOfFlags DEF SysFiles, DEXSysFiles, Paths
  <2> QED
    BY <1>2, <2>1, ToSetSmall DEF SysSet
<1>3. CASE TargetSystemType(c, fl) = "PS2"
  <2> DEFINE own == PS2SysFiles(c)
             copies == Copies(c, fl)
  <2>1. SysFiles(c, fl) = own \o copies
    BY <1>3 DEF SysFiles
  <2>2. Own(c) \in Paths /\ <<"CONF", "endvdpl">> \in Paths /\ Aliases \subseteq Paths
    BY DEF Paths, Aliases
  <2>3. own \in Seq(Paths) /\ copies \in Seq(Paths)
    BY <2>2, CopiesOf DEF PS2SysFiles
  <2>5. ToSet(own) = {Own(c), <<"CONF", "endvdpl">>} /\ ToSet(copies) = CopySet(c, fl)
    BY ToSetSmall, CopiesOf DEF PS2SysFiles
  <2> HIDE DEF own, copies
  <2>4. SysFiles(c, fl) \in Seq(Paths) /\ ToSet(SysFiles(c, fl)) = ToSet(own) \cup ToSet(copies)
    BY <2>1, <2>3, ToSetConcat
  <2>6. SysSet(c, fl) = {Own(c), <<"CONF", "endvdpl">>} \cup CopySet(c, fl)
    BY <1>3 DEF SysSet
  <2> QED
    BY <2>4, <2>5, <2>6, CopiesOf
<1> QED
  BY <1>1, <1>2, <1>3, KindsOfFlags

LEMMA UpdateFilesOf ==
  ASSUME NEW c \in Consoles, NEW fl
  PROVE  UpdateFiles(c, fl) \in Seq(Paths) /\ ToSet(UpdateFiles(c, fl)) = UpdateSet(c, fl)
<1> DEFINE a == IF Japanese(c, fl, \h100) THEN << <<"I", "osdsys">> >> ELSE <<>>
           b == IF Japanese(c, fl, \h101) THEN << <<"I", "osd110">> >> ELSE <<>>
           h == IF Hddload(c, fl) THEN << <<"I", "hddload">> >> ELSE <<>>
<1>1. UpdateFiles(c, fl) = a \o b \o h
  BY Zenon DEF UpdateFiles, Japanese, BootROM100JUpdateFiles, BootROM101JUpdateFiles, PS2HDDLOADSysFiles
<1>2. a \in Seq(Paths) /\ b \in Seq(Paths) /\ h \in Seq(Paths)
  BY DEF Paths
<1>3. /\ ToSet(a) = IF Japanese(c, fl, \h100) THEN {<<"I", "osdsys">>} ELSE {}
      /\ ToSet(b) = IF Japanese(c, fl, \h101) THEN {<<"I", "osd110">>} ELSE {}
      /\ ToSet(h) = IF Hddload(c, fl) THEN {<<"I", "hddload">>} ELSE {}
  BY ToSetSmall
<1> HIDE DEF a, b, h
<1>4. UpdateFiles(c, fl) \in Seq(Paths) /\ ToSet(UpdateFiles(c, fl)) = ToSet(a) \cup ToSet(b) \cup ToSet(h)
  BY <1>1, <1>2, ToSetConcat3
<1> QED
  BY <1>3, <1>4 DEF UpdateSet

LEMMA ResourceFilesOf ==
  ASSUME NEW c \in Consoles, NEW fl
  PROVE  ResourceFiles(c, fl) \in Seq(Paths) /\ ToSet(ResourceFiles(c, fl)) = ResourceSet(c, fl)
<1>1. \A r \in Regions : SysResourceFiles(r) \in Seq(Paths) /\ ToSet(SysResourceFiles(r)) = {<<r, "icon">>}
  BY ToSetSmall DEF SysResourceFiles, Paths
<1>2. CASE AllRegions(fl)
  <2> DEFINE i == SysResourceFiles("I")
             e == SysResourceFiles("E")
             a == SysResourceFiles("A")
             k == SysResourceFiles("C")
  <2>1. ResourceFiles(c, fl) = i \o e \o a \o k
    BY <1>2, Zenon DEF ResourceFiles
  <2>2. /\ i \in Seq(Paths) /\ ToSet(i) = {<<"I", "icon">>}
        /\ e \in Seq(Paths) /\ ToSet(e) = {<<"E", "icon">>}
        /\ a \in Seq(Paths) /\ ToSet(a) = {<<"A", "icon">>}
        /\ k \in Seq(Paths) /\ ToSet(k) = {<<"C", "icon">>}
    BY <1>1 DEF Regions
  <2> HIDE DEF i, e, a, k
  <2>5. /\ i \o e \o a \o k \in Seq(Paths)
        /\ ToSet(i \o e \o a \o k) = ToSet(i) \cup ToSet(e) \cup ToSet(a) \cup ToSet(k)
    BY <2>2, ToSetConcat4
  <2>6. ResourceSet(c, fl) = {<<"I", "icon">>, <<"E", "icon">>, <<"A", "icon">>, <<"C", "icon">>}
    BY <1>2 DEF ResourceSet, Regions
  <2> QED
    BY <2>1, <2>2, <2>5, <2>6
<1>3. CASE ~AllRegions(fl)
  <2>1. ResourceFiles(c, fl) = SysResourceFiles(MGLetter(c, fl))
    BY <1>3, Zenon DEF ResourceFiles
  <2>2. ResourceSet(c, fl) = {<<MGLetter(c, fl), "icon">>}
    BY <1>3 DEF ResourceSet
  <2> QED
    BY <1>1, <2>1, <2>2, KindsOfFlags
<1> QED
  BY <1>2, <1>3

LEMMA BaseFilesOf ==
  ASSUME NEW fl
  PROVE  BaseFiles(fl) \in Seq(Paths) /\ ToSet(BaseFiles(fl)) = BaseSet(fl)
<1>1. ConstantFiles \in Seq(Paths) /\ <<Cnf>> \in Seq(Paths)
  BY DEF ConstantFiles, Paths
<1>2. ToSet(ConstantFiles) = {<<"CONF", "usbhdfsd">>} /\ ToSet(<<Cnf>>) = {Cnf}
  BY ToSetSmall DEF ConstantFiles
<1>3. BaseInstallFiles \in Seq(Paths) /\ ToSet(BaseInstallFiles) = {<<"CONF", "usbhdfsd">>, Cnf}
  BY <1>1, <1>2, ToSetConcat DEF BaseInstallFiles
<1>4. BaseFiles(fl) = IF "SKIP_CNF" \in fl THEN ConstantFiles ELSE BaseInstallFiles
  BY Zenon DEF BaseFiles
<1> QED
  BY <1>1, <1>2, <1>3, <1>4 DEF BaseSet

LEMMA ListOf ==
  ASSUME NEW c \in Consoles, NEW fl
  PROVE  List(c, fl) \in Seq(Paths) /\ ToSet(List(c, fl)) = Wanted(c, fl)
<1> DEFINE s == SysFiles(c, fl)
           u == UpdateFiles(c, fl)
           r == ResourceFiles(c, fl)
           b == BaseFiles(fl)
<1>1. List(c, fl) = s \o u \o r \o b
  BY Zenon DEF List
<1>2. s \in Seq(Paths) /\ u \in Seq(Paths) /\ r \in Seq(Paths) /\ b \in Seq(Paths)
  BY SysFilesOf, UpdateFilesOf, ResourceFilesOf, BaseFilesOf
<1>3. ToSet(s) = SysSet(c, fl) /\ ToSet(u) = UpdateSet(c, fl) /\ ToSet(r) = ResourceSet(c, fl) /\ ToSet(b) = BaseSet(fl)
  BY SysFilesOf, UpdateFilesOf, ResourceFilesOf, BaseFilesOf
<1> HIDE DEF s, u, r, b
<1>6. s \o u \o r \o b \in Seq(Paths) /\ ToSet(s \o u \o r \o b) = ToSet(s) \cup ToSet(u) \cup ToSet(r) \cup ToSet(b)
  BY <1>2, ToSetConcat4
<1> QED
  BY <1>1, <1>3, <1>6 DEF Wanted

(* As many entries are counted from the flags as the list has (PerformInstallation). *)
LEMMA SysEntries ==
  ASSUME NEW c \in Consoles, NEW fl
  PROVE  Entries(SysFiles(c, fl)) = CASE TargetSystemType(c, fl) = "PSX" -> 3
                                      [] TargetSystemType(c, fl) = "DEX" -> 1
                                      [] OTHER -> 2 + Len(Copies(c, fl))
<1>1. CASE TargetSystemType(c, fl) = "PSX"
  BY <1>1, EntriesOne DEF SysFiles, PSXSysFiles, Groups
<1>2. CASE TargetSystemType(c, fl) = "DEX"
  BY <1>2, EntriesOne DEF SysFiles, DEXSysFiles, Groups
<1>3. CASE TargetSystemType(c, fl) = "PS2"
  <2> DEFINE own == PS2SysFiles(c)
             copies == Copies(c, fl)
             plain == {p \in Paths : p[2] \notin Groups}
  <2>1. SysFiles(c, fl) = own \o copies
    BY <1>3 DEF SysFiles
  <2>2. Aliases \subseteq plain
    BY TableOfAliases DEF Paths, Aliases, Groups
  <2>3. copies \in Seq(plain) /\ Len(copies) \in Nat
    BY <2>2, CopiesOf
  <2>4. Own(c)[2] \notin Groups
    <3>1. Own(c) \in Aliases
      BY <1>3, ConsolesAssumption DEF TargetSystemType, Aliases
    <3> QED
      BY <3>1, TableOfAliases DEF Groups
  <2>5. own \in Seq(plain) /\ Len(own) = 2
    BY <2>4 DEF PS2SysFiles, Paths, Groups
  <2>6. \A p \in plain : p[2] \notin Groups
    OBVIOUS
  <2> HIDE DEF own, plain
  <2>7. Len(copies) = Len(Copies(c, fl))
    OBVIOUS
  <2> HIDE DEF copies
  <2>8. Entries(own) = 2 /\ Entries(copies) = Len(copies)
    BY <2>3, <2>5, <2>6, EntriesPlain
  <2>9. Entries(own \o copies) = 2 + Len(copies)
    BY <2>3, <2>5, <2>8, EntriesConcat
  <2> QED
    BY <1>3, <2>1, <2>7, <2>9
<1> QED
  BY <1>1, <1>2, <1>3, KindsOfFlags

LEMMA EntriesNone == Entries(<<>>) = 0
<1>1. Threes(<<>>) = {} /\ Len(<<>>) = 0
  BY DEF Threes
<1>2. Cardinality({}) = 0
  BY FS_EmptySet
<1>3. Entries(<<>>) = Len(<<>>) + 2 * Cardinality(Threes(<<>>))
  BY Zenon DEF Entries, Threes
<1>4. Cardinality(Threes(<<>>)) = 0
  BY <1>1, <1>2
<1> QED
  BY <1>1, <1>3, <1>4

LEMMA EntriesConcat3 ==
  ASSUME NEW S, NEW s \in Seq(S), NEW t \in Seq(S), NEW u \in Seq(S)
  PROVE  Entries(s \o t \o u) = Entries(s) + Entries(t) + Entries(u)
<1> DEFINE st == s \o t
<1>1. st \in Seq(S) /\ Entries(st) = Entries(s) + Entries(t)
  BY ToSetConcat, EntriesConcat
<1> HIDE DEF st
<1>2. Entries(st \o u) = Entries(st) + Entries(u)
  BY <1>1, EntriesConcat
<1> QED
  BY <1>1, <1>2 DEF st

LEMMA EntriesConcat4 ==
  ASSUME NEW S, NEW s \in Seq(S), NEW t \in Seq(S), NEW u \in Seq(S), NEW v \in Seq(S)
  PROVE  Entries(s \o t \o u \o v) = Entries(s) + Entries(t) + Entries(u) + Entries(v)
<1> DEFINE stu == s \o t \o u
<1>1. stu \in Seq(S) /\ Entries(stu) = Entries(s) + Entries(t) + Entries(u)
  BY ToSetConcat3, EntriesConcat3
<1> HIDE DEF stu
<1>2. Entries(stu \o v) = Entries(stu) + Entries(v)
  BY <1>1, EntriesConcat
<1> QED
  BY <1>1, <1>2 DEF stu

LEMMA UpdateEntries ==
  ASSUME NEW c \in Consoles, NEW fl
  PROVE  Entries(UpdateFiles(c, fl)) = (IF Japanese(c, fl, \h100) THEN 1 ELSE 0) + (IF Japanese(c, fl, \h101) THEN 1 ELSE 0)
                                       + (IF Hddload(c, fl) THEN 3 ELSE 0)
<1> DEFINE a == IF Japanese(c, fl, \h100) THEN << <<"I", "osdsys">> >> ELSE <<>>
           b == IF Japanese(c, fl, \h101) THEN << <<"I", "osd110">> >> ELSE <<>>
           h == IF Hddload(c, fl) THEN << <<"I", "hddload">> >> ELSE <<>>
<1>1. UpdateFiles(c, fl) = a \o b \o h
  BY Zenon DEF UpdateFiles, Japanese, BootROM100JUpdateFiles, BootROM101JUpdateFiles, PS2HDDLOADSysFiles
<1>2. a \in Seq(Paths) /\ b \in Seq(Paths) /\ h \in Seq(Paths)
  BY DEF Paths
<1>3. /\ Entries(a) = IF Japanese(c, fl, \h100) THEN 1 ELSE 0
      /\ Entries(b) = IF Japanese(c, fl, \h101) THEN 1 ELSE 0
      /\ Entries(h) = IF Hddload(c, fl) THEN 3 ELSE 0
  BY EntriesNone, EntriesOne DEF Groups
<1> HIDE DEF a, b, h
<1>4. Entries(a \o b \o h) = Entries(a) + Entries(b) + Entries(h)
  BY <1>2, EntriesConcat3
<1> QED
  BY <1>1, <1>3, <1>4

LEMMA ResourceEntries ==
  ASSUME NEW c \in Consoles, NEW fl
  PROVE  Entries(ResourceFiles(c, fl)) = IF AllRegions(fl) THEN 12 ELSE 3
<1>1. \A r \in Regions : SysResourceFiles(r) \in Seq(Paths) /\ Entries(SysResourceFiles(r)) = 3
  BY EntriesOne DEF SysResourceFiles, Paths, Groups
<1>2. CASE AllRegions(fl)
  <2> DEFINE i == SysResourceFiles("I")
             e == SysResourceFiles("E")
             a == SysResourceFiles("A")
             k == SysResourceFiles("C")
  <2>1. ResourceFiles(c, fl) = i \o e \o a \o k
    BY <1>2, Zenon DEF ResourceFiles
  <2>2. /\ i \in Seq(Paths) /\ e \in Seq(Paths) /\ a \in Seq(Paths) /\ k \in Seq(Paths)
        /\ Entries(i) = 3 /\ Entries(e) = 3 /\ Entries(a) = 3 /\ Entries(k) = 3
    BY <1>1 DEF Regions
  <2> HIDE DEF i, e, a, k
  <2>3. Entries(i \o e \o a \o k) = Entries(i) + Entries(e) + Entries(a) + Entries(k)
    BY <2>2, EntriesConcat4
  <2> QED
    BY <1>2, <2>1, <2>2, <2>3
<1>3. CASE ~AllRegions(fl)
  <2>1. ResourceFiles(c, fl) = SysResourceFiles(MGLetter(c, fl))
    BY <1>3, Zenon DEF ResourceFiles
  <2> QED
    BY <1>1, <1>3, <2>1, KindsOfFlags
<1> QED
  BY <1>2, <1>3

LEMMA BaseEntries ==
  ASSUME NEW fl
  PROVE  Entries(BaseFiles(fl)) = IF "SKIP_CNF" \in fl THEN 1 ELSE 2
<1> DEFINE s == ConstantFiles
           t == <<Cnf>>
<1>1. s \in Seq(Paths) /\ t \in Seq(Paths)
  BY DEF ConstantFiles, Paths
<1>2. Entries(s) = 1 /\ Entries(t) = 1
  BY EntriesOne DEF ConstantFiles, Cnf, Groups
<1>3. BaseFiles(fl) = IF "SKIP_CNF" \in fl THEN s ELSE s \o t
  BY Zenon DEF BaseFiles, BaseInstallFiles
<1> HIDE DEF s, t
<1>4. Entries(s \o t) = Entries(s) + Entries(t)
  BY <1>1, EntriesConcat
<1> QED
  BY <1>2, <1>3, <1>4

(* The names are copied for consoles of the first sort. *)
CopiesMeant(c, fl) == "CROSS_MODEL" \in fl \/ "CROSS_REG" \in fl => TargetSystemType(c, fl) = "PS2"

LEMMA CountedEntries ==
  ASSUME NEW c \in Consoles, NEW fl, CopiesMeant(c, fl)
  PROVE  Counted(c, fl) = Entries(List(c, fl)) /\ Counted(c, fl) \in Nat
<1> DEFINE s == SysFiles(c, fl)
           u == UpdateFiles(c, fl)
           r == ResourceFiles(c, fl)
           b == BaseFiles(fl)
<1>1. List(c, fl) = s \o u \o r \o b
  BY Zenon DEF List
<1>2. s \in Seq(Paths) /\ u \in Seq(Paths) /\ r \in Seq(Paths) /\ b \in Seq(Paths)
  BY SysFilesOf, UpdateFilesOf, ResourceFilesOf, BaseFilesOf
<1>3. /\ Entries(s) = CASE TargetSystemType(c, fl) = "PSX" -> 3
                        [] TargetSystemType(c, fl) = "DEX" -> 1
                        [] OTHER -> 2 + Len(Copies(c, fl))
      /\ Entries(u) = (IF Japanese(c, fl, \h100) THEN 1 ELSE 0) + (IF Japanese(c, fl, \h101) THEN 1 ELSE 0)
                      + (IF Hddload(c, fl) THEN 3 ELSE 0)
      /\ Entries(r) = (IF AllRegions(fl) THEN 12 ELSE 3)
      /\ Entries(b) = (IF "SKIP_CNF" \in fl THEN 1 ELSE 2)
  BY SysEntries, UpdateEntries, ResourceEntries, BaseEntries
<1> HIDE DEF s, u, r, b
<1>4. Entries(s \o u \o r \o b) = Entries(s) + Entries(u) + Entries(r) + Entries(b)
  BY <1>2, EntriesConcat4
<1>5. Len(Copies(c, fl)) \in Nat /\ (TargetSystemType(c, fl) # "PS2" => Len(Copies(c, fl)) = 0)
  <2>1. Copies(c, fl) \in Seq(Aliases) /\ ToSet(Copies(c, fl)) = CopySet(c, fl)
    BY CopiesOf
  <2> DEFINE copies == Copies(c, fl)
  <2>2. ASSUME TargetSystemType(c, fl) # "PS2" PROVE CopySet(c, fl) = {}
    BY <2>2 DEF CopiesMeant, CopySet
  <2> HIDE DEF copies
  <2>3. copies \in Seq(Aliases) /\ (TargetSystemType(c, fl) # "PS2" => ToSet(copies) = {})
    BY <2>1, <2>2 DEF copies
  <2>4. TargetSystemType(c, fl) # "PS2" => Len(copies) = 0
    BY <2>3 DEF ToSet
  <2> QED
    BY <2>3, <2>4 DEF copies
<1>6. c.rom \in Nat /\ TargetSystemType(c, fl) \in {"PS2", "DEX", "PSX"}
  BY KindsOfFlags
<1>7. (IF Japanese(c, fl, \h100) THEN 1 ELSE 0) + (IF Japanese(c, fl, \h101) THEN 1 ELSE 0)
        = (IF AllJapanese(c, fl) THEN 2 ELSE 0)
          + (IF ~AllJapanese(c, fl) /\ MGLetter(c, fl) = "I" /\ c.rom \in {\h100, \h101} THEN 1 ELSE 0)
  BY <1>6 DEF Japanese
<1>8. Counted(c, fl) =
        5 + (CASE TargetSystemType(c, fl) = "PSX" -> 3 [] TargetSystemType(c, fl) = "DEX" -> 1 [] OTHER -> 2)
        - (IF "SKIP_CNF" \in fl THEN 1 ELSE 0)
        + (IF AllJapanese(c, fl) THEN 2 ELSE 0)
        + (IF ~AllJapanese(c, fl) /\ MGLetter(c, fl) = "I" /\ c.rom \in {\h100, \h101} THEN 1 ELSE 0)
        + (IF AllRegions(fl) THEN 9 ELSE 0) + (IF Hddload(c, fl) THEN 3 ELSE 0) + Len(Copies(c, fl))
  BY Zenon DEF Counted
<1> DEFINE sys == CASE TargetSystemType(c, fl) = "PSX" -> 3 [] TargetSystemType(c, fl) = "DEX" -> 1 [] OTHER -> 2
           jap1 == (IF AllJapanese(c, fl) THEN 2 ELSE 0)
           jap2 == (IF ~AllJapanese(c, fl) /\ MGLetter(c, fl) = "I" /\ c.rom \in {\h100, \h101} THEN 1 ELSE 0)
           hdd == IF Hddload(c, fl) THEN 3 ELSE 0
           names == Len(Copies(c, fl))
           cnf == IF "SKIP_CNF" \in fl THEN 1 ELSE 0
           regions == IF AllRegions(fl) THEN 9 ELSE 0
<1>9. sys \in Nat /\ jap1 \in Nat /\ jap2 \in Nat /\ hdd \in Nat /\ names \in Nat /\ cnf \in {0, 1} /\ regions \in Nat
  BY <1>5
<1>10. Entries(s) = sys + names
  BY <1>3, <1>5, <1>6
<1>11. Entries(u) = jap1 + jap2 + hdd
  BY <1>3, <1>7
<1>12. Counted(c, fl) = 5 + sys - cnf + jap1 + jap2 + regions + hdd + names
  BY <1>8, Zenon
<1>13. Entries(r) = 3 + regions /\ Entries(b) = 2 - cnf
  BY <1>3
<1>14. Entries(List(c, fl)) = Entries(s) + Entries(u) + Entries(r) + Entries(b)
  BY <1>1, <1>4
<1> HIDE DEF sys, jap1, jap2, hdd, names, cnf, regions
<1> QED
  BY <1>9, <1>10, <1>11, <1>12, <1>13, <1>14

LEMMA EntriesAppend ==
  ASSUME NEW S, NEW s \in Seq(S), NEW p \in S, p[2] \notin Groups
  PROVE  Entries(Append(s, p)) = Entries(s) + 1
<1> DEFINE t == <<p>>
<1>1. t \in Seq(S) /\ Entries(t) = 1
  BY EntriesOne
<1>2. Append(s, p) = s \o t
  OBVIOUS
<1> HIDE DEF t
<1>3. Entries(s \o t) = Entries(s) + Entries(t)
  BY <1>1, EntriesConcat
<1> QED
  BY <1>1, <1>2, <1>3

(* What a normal installation puts on the card, and which installations have it too. *)
LEMMA NormalList ==
  ASSUME NEW c \in Consoles
  PROVE  /\ c.type = "PS2" => SysSet(c, {}) = {Own(c), <<"CONF", "endvdpl">>}
         /\ c.type = "DEX" => SysSet(c, {}) = {<<c.region, "osdmain">>}
         /\ c.type = "PSX" => SysSet(c, {}) = {<<"I", "xosdmain">>}
         /\ UpdateSet(c, {}) =
              {p \in {<<"I", "osdsys">>, <<"I", "osd110">>, <<"I", "hddload">>} :
                 /\ c.region = "I"
                 /\ \/ p = <<"I", "osdsys">> /\ c.rom = \h100
                    \/ p = <<"I", "osd110">> /\ c.rom = \h101
                    \/ p = <<"I", "hddload">> /\ c.rom <= \h120}
         /\ ResourceSet(c, {}) = {<<c.region, "icon">>}
         /\ BaseSet({}) = {<<"CONF", "usbhdfsd">>, Cnf}
<1>1. MGLetter(c, {}) = c.region /\ TargetSystemType(c, {}) = c.type /\ ~AllRegions({}) /\ ~AllJapanese(c, {})
  BY DEF MGLetter, TargetSystemType, AllRegions, AllJapanese
<1>2. CopySet(c, {}) = {}
  BY DEF CopySet
<1>3. /\ c.type = "PS2" => SysSet(c, {}) = {Own(c), <<"CONF", "endvdpl">>}
      /\ c.type = "DEX" => SysSet(c, {}) = {<<c.region, "osdmain">>}
      /\ c.type = "PSX" => SysSet(c, {}) = {<<"I", "xosdmain">>}
  BY <1>1, <1>2 DEF SysSet
<1>4. UpdateSet(c, {}) =
        {p \in {<<"I", "osdsys">>, <<"I", "osd110">>, <<"I", "hddload">>} :
           /\ c.region = "I"
           /\ \/ p = <<"I", "osdsys">> /\ c.rom = \h100
              \/ p = <<"I", "osd110">> /\ c.rom = \h101
              \/ p = <<"I", "hddload">> /\ c.rom <= \h120}
  BY <1>1 DEF UpdateSet, Japanese, Hddload
<1> QED
  BY <1>1, <1>3, <1>4 DEF ResourceSet, BaseSet

(* Its files are in the folder of the console, or in none of a region, and one of them at most has a name that may
   be cross-linked. *)
LEMMA NormalFiles ==
  ASSUME NEW c \in Consoles, NEW p \in Wanted(c, {})
  PROVE  p[1] \in {c.region, "CONF"} /\ (c.type = "PS2" => p \notin AliasesOf(c))
<1>1. Own(c)[1] = c.region /\ c.type \in {"PS2", "DEX", "PSX"} /\ (c.type = "PSX" => c.region = "I")
  BY ConsolesAssumption DEF Own
<1>2. CASE p \in SysSet(c, {})
  BY <1>1, <1>2, NormalList, TableOfAliases DEF AliasesOf, Aliases
<1>3. CASE p \in UpdateSet(c, {})
  BY <1>1, <1>3, NormalList, TableOfAliases DEF AliasesOf, Aliases
<1>4. CASE p \in ResourceSet(c, {}) \cup BaseSet({})
  <2>1. p[1] \in {c.region, "CONF"} /\ p[2] \in {"icon", "usbhdfsd", "FREEMCB.CNF"}
    BY <1>4, NormalList DEF Cnf
  <2> QED
    BY <2>1, TableOfAliases DEF AliasesOf, Aliases
<1> QED
  BY <1>2, <1>3, <1>4 DEF Wanted

LEMMA CoversOwn ==
  ASSUME NEW c \in Consoles, NEW fl, "CROSS_PSX" \notin fl
  PROVE  Wanted(c, {}) \subseteq Wanted(c, fl) \cup {Cnf}
<1>1. MGLetter(c, fl) = c.region /\ TargetSystemType(c, fl) = c.type /\ c.region \in Regions /\ c.type \in {"PS2", "DEX", "PSX"}
  BY ConsolesAssumption DEF MGLetter, TargetSystemType
<1>2. SysSet(c, {}) \subseteq SysSet(c, fl)
  BY <1>1, NormalList DEF SysSet
<1>3. UpdateSet(c, {}) \subseteq UpdateSet(c, fl)
  BY <1>1, NormalList DEF UpdateSet, Japanese, Hddload
<1>4. ResourceSet(c, {}) \subseteq ResourceSet(c, fl)
  BY <1>1, NormalList DEF ResourceSet
<1>5. BaseSet({}) \subseteq BaseSet(fl) \cup {Cnf}
  BY DEF BaseSet
<1> QED
  BY <1>2, <1>3, <1>4, <1>5 DEF Wanted

LEMMA CoversPSX ==
  ASSUME NEW c \in Consoles, NEW d \in Consoles, NEW fl, "CROSS_PSX" \in fl, d.type = "PSX"
  PROVE  Wanted(d, {}) \subseteq Wanted(c, fl) \cup {Cnf}
<1>1. MGLetter(c, fl) = "I" /\ TargetSystemType(c, fl) = "PSX" /\ d.region = "I" /\ d.rom > \h120 /\ d.rom \in Nat
  BY ConsolesAssumption DEF MGLetter, TargetSystemType
<1>2. SysSet(d, {}) \subseteq SysSet(c, fl)
  BY <1>1, NormalList DEF SysSet
<1>3. UpdateSet(d, {}) = {}
  BY <1>1, NormalList
<1>4. ResourceSet(d, {}) \subseteq ResourceSet(c, fl)
  BY <1>1, NormalList DEF ResourceSet, Regions
<1>5. BaseSet({}) \subseteq BaseSet(fl) \cup {Cnf}
  BY DEF BaseSet
<1> QED
  BY <1>2, <1>3, <1>4, <1>5 DEF Wanted

LEMMA CoversOthers ==
  ASSUME NEW c \in Consoles, NEW d \in Consoles, NEW fl, "CROSS_PSX" \notin fl, c.type = "PS2", d.type = "PS2",
         AllRegions(fl) \/ ("CROSS_MODEL" \in fl /\ d.region = c.region)
  PROVE  Wanted(d, {}) \subseteq Wanted(c, fl) \cup {Cnf, Own(d)}
<1>1. /\ MGLetter(c, fl) = c.region /\ TargetSystemType(c, fl) = "PS2"
      /\ c.region \in Regions /\ d.region \in Regions /\ d.rom \in Nat
  BY ConsolesAssumption DEF MGLetter, TargetSystemType
<1>2. SysSet(d, {}) \subseteq SysSet(c, fl) \cup {Own(d)}
  BY <1>1, NormalList DEF SysSet
<1>3. UpdateSet(d, {}) \subseteq UpdateSet(c, fl)
  BY <1>1, NormalList DEF UpdateSet, Japanese, Hddload, AllJapanese
<1>4. ResourceSet(d, {}) \subseteq ResourceSet(c, fl)
  BY <1>1, NormalList DEF ResourceSet
<1>5. BaseSet({}) \subseteq BaseSet(fl) \cup {Cnf}
  BY DEF BaseSet
<1> QED
  BY <1>2, <1>3, <1>4, <1>5 DEF Wanted

(* The copies make up for the names that are not cross-linked. *)
LEMMA CoversNames ==
  ASSUME NEW c \in Consoles, NEW d \in Consoles, NEW fl, "CROSS_PSX" \notin fl, c.type = "PS2", d.type = "PS2",
         \/ "CROSS_MODEL" \in fl /\ d.region = c.region
         \/ "CROSS_MODEL" \notin fl /\ "CROSS_REG" \in fl
  PROVE  Own(d) \in Wanted(c, fl)
<1>1. TargetSystemType(c, fl) = "PS2" /\ Own(d) \in Aliases /\ Own(d)[1] = d.region
  BY ConsolesAssumption DEF TargetSystemType, Aliases, Own
<1>2. Own(d) \in {Own(c)} \cup CopySet(c, fl)
  BY <1>1 DEF CopySet
<1> QED
  BY <1>1, <1>2 DEF Wanted, SysSet

(* An installation for a PSX on another console has none of the names that may be cross-linked. *)
LEMMA PSXPlain ==
  ASSUME NEW c \in Consoles, NEW fl, "CROSS_PSX" \in fl
  PROVE  Wanted(c, fl) \cap Aliases = {}
<1>1. TargetSystemType(c, fl) = "PSX"
  BY DEF TargetSystemType
<1>2. SysSet(c, fl) \cap Aliases = {}
  BY <1>1, TableOfAliases DEF SysSet
<1>3. UpdateSet(c, fl) \cap Aliases = {}
  BY TableOfAliases DEF UpdateSet
<1>4. ResourceSet(c, fl) \cap Aliases = {}
  BY TableOfAliases DEF ResourceSet
<1>5. BaseSet(fl) \cap Aliases = {}
  BY TableOfAliases DEF BaseSet, Cnf
<1> QED
  BY <1>2, <1>3, <1>4, <1>5 DEF Wanted

LEMMA FoldersOfPaths ==
  /\ \A p \in Paths : p[1] \in Regions \cup {"CONF", "PKG"}
  /\ \A p \in ToSet(Contents) : p[1] \in {"CONF", "PKG"} /\ p \notin Aliases /\ p \in Paths
  /\ \A a \in Aliases : a[1] \in Regions /\ a \in Paths
  /\ Cnf \in Paths /\ Cnf \notin Aliases
  /\ \A c \in Consoles : Own(c) \in Paths
<1>1. \A p \in ToSet(Contents) : p[1] \in {"CONF", "PKG"}
  BY ContentsOf DEF PackageFiles
<1>2. \A a \in Aliases : a[1] \in Regions
  BY TableOfAliases DEF Regions
<1>3. Cnf \notin Aliases
  BY TableOfAliases DEF Cnf
<1>4. \A c \in Consoles : Own(c)[1] \in Regions
  BY ConsolesAssumption DEF Own
<1>5. \A p \in Paths : p[1] \in Regions \cup {"CONF", "PKG"}
  <2> TAKE p \in Paths
  <2>1. CASE p \in Aliases \cup ToSet(Contents)
    BY <1>1, <1>2, <2>1
  <2>2. CASE p \in {Own(c) : c \in Consoles}
    BY <1>4, <2>2
  <2>3. CASE p \in (Regions \X {"icon"}) \cup (Regions \X {"osdmain"})
                     \cup {<<"I", f>> : f \in {"osdsys", "osd110", "hddload", "xosdmain"}}
                     \cup {Cnf, <<"CONF", "usbhdfsd">>, <<"CONF", "endvdpl">>}
    BY <2>3 DEF Regions, Cnf
  <2> QED
    BY <2>1, <2>2, <2>3, Zenon DEF Paths, Aliases
<1>6. \A p \in ToSet(Contents) : p \notin Aliases
  BY <1>1, <1>2 DEF Regions
<1>7. ToSet(Contents) \subseteq Paths /\ Aliases \subseteq Paths /\ Cnf \in Paths /\ \A c \in Consoles : Own(c) \in Paths
  BY DEF Paths, Aliases
<1> QED
  BY <1>1, <1>2, <1>3, <1>5, <1>6, <1>7

-----------------------------------------------------------------------------
(* The types, and what goes with the place of the program, whatever has failed *)

FileOK(file) == file.by \in Consoles /\ file.readable \in BOOLEAN /\ Named(file) \subseteq Aliases

CardType ==
  /\ files \subseteq Paths /\ shared \subseteq files \cap Aliases /\ lost \subseteq files \cap Aliases
  /\ uninst # NoFile => FileOK(uninst) /\ uninst.version \in {100, 200}
  /\ legacy # NoFile => FileOK(legacy) /\ legacy.version = 0

ConsoleType == console \in Consoles /\ hasMulti \in BOOLEAN /\ blind \in BOOLEAN
HistoryType == faults \in Nat /\ resets \in Nat /\ faults + resets <= MaxTroubles
ListType == FileCopyList \in Seq(Paths) /\ NumFiles \in Nat /\ n \in 1 .. Len(FileCopyList) + 1
TodoType == folders \in Seq(Regions) /\ todo \subseteq {p \in files : p[1] \in Regions}
DataType == data # NoFile => /\ data.by \in Consoles /\ data.names \subseteq AliasesOf(data.by)
                             /\ data.version \in {0, 100, 200}

Installs == {"stats", "list", "folders", "copy", "uninst", "link"}
Removals == {"read", "delete_uninst", "unlink", "extra"}

(* Where the program is, and what it is doing. *)
PlaceOK ==
  /\ pc \in {"menu", "polled", "cleanup", "shown"} \cup Installs \cup Removals
  /\ pc \in {"menu", "polled"} => event = "none"
  /\ pc \in Installs => event \in InstallEvents
  /\ pc \in {"uninst", "link"} => event = "MULTI_INSTALL"
  /\ pc \in Removals => event = "CLEANUP_MULTI"
  /\ pc = "cleanup" => event \in {"INSTALL", "MULTI_INSTALL", "CLEANUP", "CLEANUP_MULTI"}
  /\ pc # "cleanup" => todo = {}
  /\ result \in {"none", "complete", "failed"}

DataOK ==
  /\ event # "CLEANUP_MULTI" \/ pc = "read" => data = NoFile
  /\ pc \in {"delete_uninst", "unlink", "extra"} \/ (pc = "cleanup" /\ event = "CLEANUP_MULTI") => data # NoFile

ModesOK ==
  /\ event \notin InstallEvents => flags = {}
  /\ "MULTI_INST" \in flags <=> event = "MULTI_INSTALL"
  /\ "CROSS_PSX" \in flags <=> event = "INSTALL_CROSS_PSX"
  /\ "SKIP_CLEANUP" \in flags <=> event = "INSTALL_CROSS_PSX"
  /\ "CROSS_MODEL" \in flags \/ "CROSS_REG" \in flags => event = "INSTALL" /\ console.type = "PS2"
  /\ ~("CROSS_MODEL" \in flags /\ "CROSS_REG" \in flags)
  /\ event \in {"MULTI_INSTALL", "INSTALL_CROSS_PSX"} => console.type = "PS2"

(* The configuration that the user keeps is there. *)
CnfKept == "SKIP_CNF" \in flags => Cnf \in files

(* What is to be copied, and what has been. *)
ListOK ==
  event \in InstallEvents =>
    /\ Wanted(console, flags) \subseteq ToSet(FileCopyList)
    /\ ToSet(FileCopyList) \subseteq Wanted(console, flags) \cup ToSet(Contents)

Whole(p) == p \in files /\ p \notin shared /\ p \notin lost
CopiedOK ==
  /\ pc \notin {"list", "copy", "uninst", "link", "shown"} => n = 1
  /\ pc = "copy" => \A k \in 1 .. n - 1 : Whole(FileCopyList[k])
  /\ pc \in {"uninst", "link"} => \A p \in ToSet(FileCopyList) : Whole(p)

CountOK ==
  event \in InstallEvents =>
    \/ NumFiles = Entries(FileCopyList)
    \/ pc = "shown" /\ result = "failed" /\ faults > 0 /\ NumFiles = Entries(FileCopyList) + 1

TInv == /\ CardType /\ ConsoleType /\ HistoryType /\ ListType /\ TodoType /\ DataType
        /\ PlaceOK /\ DataOK /\ ModesOK /\ CnfKept /\ ListOK /\ CopiedOK /\ CountOK

(* An uninstallation file has its type with the names of any of its entries. *)
LEMMA FirstAliases ==
  ASSUME NEW c, NEW k \in 0 .. Len(FileAlias)
  PROVE  FirstAliasesOf(c, k) \subseteq AliasesOf(c) /\ FirstAliasesOf(c, Len(FileAlias)) = AliasesOf(c)
<1>1. Len(FileAlias) = 8 /\ \A j \in 1 .. 8 : FileAlias[j] \in Aliases
  BY TableOfAliases
<1>2. DOMAIN FileAlias = 1 .. 8
  BY DEF FileAlias
<1> QED
  BY <1>1, <1>2 DEF FirstAliasesOf, AliasesOf, Aliases, ToSet

LEMMA AliasesArePaths == ASSUME NEW c PROVE AliasesOf(c) \subseteq Aliases /\ Aliases \subseteq Paths
  BY DEF AliasesOf, Aliases, Paths

LEMMA WrittenOK ==
  ASSUME NEW c \in Consoles, NEW names \in SUBSET AliasesOf(c), NEW r \in BOOLEAN
  PROVE  LET file == [by |-> c, names |-> names, readable |-> r, version |-> 200]
         IN FileOK(file) /\ file # NoFile /\ Named(file) = names
  BY AliasesArePaths, NoFileAssumption DEF FileOK, Named

LEMMA ReadNames ==
  ASSUME NEW file, FileOK(file), file.version \in {0, 100, 200}, NEW k \in 0 .. Len(FileAlias),
         NEW read, read = [by |-> file.by, version |-> file.version,
                           names |-> CASE file.version = 200 -> HandleFMCBUninstallFile(file, k)
                                       [] file.version = 100 -> HandleFMCBUninstallFile_100(file, k)
                                       [] OTHER -> HandleLegacyFMCBUninstallFile(file, k)]
  PROVE  /\ read.by \in Consoles /\ read.version \in {0, 100, 200} /\ read.names \subseteq AliasesOf(read.by)
         /\ read # NoFile
         /\ read.names = Named(file) \cap FirstAliasesOf(file.by, k)
<1>1. read.names = Named(file) \cap FirstAliasesOf(file.by, k)
  BY DEF HandleFMCBUninstallFile, HandleFMCBUninstallFile_100, HandleLegacyFMCBUninstallFile, Named
<1>2. read.by = file.by /\ file.by \in Consoles /\ read.version = file.version
  BY DEF FileOK
<1>3. read.names \subseteq AliasesOf(read.by) /\ read.names \subseteq Paths
  BY <1>1, <1>2, FirstAliases, AliasesArePaths
<1>4. read \in [by : Consoles, version : {0, 100, 200}, names : SUBSET Paths]
  BY <1>2, <1>3
<1> QED
  BY <1>1, <1>2, <1>3, <1>4, NoFileAssumption

(* A card that is put in, or restored. *)
LEMMA CardsType ==
  ASSUME NEW card \in Cards
  PROVE  /\ card.files \subseteq Paths /\ card.shared \subseteq card.files \cap Aliases
         /\ card.uninst # NoFile => FileOK(card.uninst) /\ card.uninst.version \in {100, 200}
         /\ card.legacy # NoFile => FileOK(card.legacy) /\ card.legacy.version = 0
<1>1. /\ card.files \subseteq Paths /\ card.shared \subseteq card.files \cap Aliases /\ Recorded(card)
      /\ card.uninst # NoFile => card.uninst.version \in {100, 200}
      /\ card.legacy # NoFile => card.legacy.version = 0
      /\ \A file \in {card.uninst, card.legacy} : file # NoFile => file.by \in Consoles /\ file.readable \in BOOLEAN
  BY CardsAssumption DEF Aliases
<1>2. \A file \in {card.uninst, card.legacy} : file # NoFile => file.readable /\ Named(file) \subseteq AliasesOf(file.by)
  BY <1>1 DEF Recorded
<1>3. \A file \in {card.uninst, card.legacy} : file # NoFile => FileOK(file)
  BY <1>1, <1>2, AliasesArePaths DEF FileOK
<1> QED
  BY <1>1, <1>3

LEMMA PollTInv == TInv /\ Poll => TInv'
<1> SUFFICES ASSUME TInv, Poll PROVE TInv'
  OBVIOUS
<1>1. ConsoleType'
  BY DEF TInv, ConsoleType, Poll, cardVars, opVars, NoFault, Fault
<1>2. HistoryType'
  BY BoundAssumption DEF TInv, HistoryType, Poll, cardVars, opVars, NoFault, Fault
<1>3. CardType' /\ TodoType' /\ CnfKept'
  BY DEF TInv, CardType, TodoType, CnfKept, PlaceOK, ModesOK, Poll, cardVars, opVars, NoFault, Fault
<1>4. ListType' /\ ListOK' /\ CountOK'
  BY DEF TInv, ListType, ListOK, CountOK, Poll, cardVars, opVars, NoFault, Fault, InstallEvents
<1>5. PlaceOK' /\ DataOK' /\ ModesOK' /\ DataType'
  BY DEF TInv, PlaceOK, DataOK, ModesOK, DataType, Poll, cardVars, opVars, NoFault, Fault, InstallEvents, Installs,
         Removals
<1>6. CopiedOK'
  BY DEF TInv, CopiedOK, Poll, cardVars, opVars, NoFault, Fault, Whole
<1> QED
  BY <1>1, <1>2, <1>3, <1>4, <1>5, <1>6 DEF TInv

LEMMA RefuseTInv == TInv /\ Refuse => TInv'
<1> SUFFICES ASSUME TInv, Refuse PROVE TInv'
  OBVIOUS
<1>1. ConsoleType' /\ HistoryType'
  BY BoundAssumption DEF TInv, ConsoleType, HistoryType, Refuse, cardVars, opVars
<1>2. CardType' /\ TodoType' /\ CnfKept'
  BY DEF TInv, CardType, TodoType, CnfKept, PlaceOK, ModesOK, Refuse, cardVars, opVars
<1>3. ListType' /\ ListOK' /\ CountOK'
  BY DEF TInv, ListType, ListOK, CountOK, Refuse, cardVars, opVars, InstallEvents
<1>4. PlaceOK' /\ DataOK' /\ ModesOK' /\ DataType'
  BY DEF TInv, PlaceOK, DataOK, ModesOK, DataType, Refuse, cardVars, opVars, InstallEvents, Installs, Removals
<1>5. CopiedOK'
  BY DEF TInv, CopiedOK, Refuse, cardVars, opVars, Whole
<1> QED
  BY <1>1, <1>2, <1>3, <1>4, <1>5 DEF TInv

LEMMA BeginInstallTInv == TInv /\ BeginInstall => TInv'
<1> SUFFICES ASSUME TInv, BeginInstall PROVE TInv'
  OBVIOUS
<1> DEFINE fl == flags'
<1>a. PICK e \in InstallEvents, kind \in {{}, {"CROSS_MODEL"}, {"CROSS_REG"}}, keep \in {{}, {"SKIP_CNF"}} :
        /\ e # "INSTALL" => console.type = "PS2" /\ kind = {}
        /\ kind # {} => console.type = "PS2"
        /\ keep # {} => HasOldFMCBConfigFile
        /\ event' = e
        /\ flags' = kind \cup keep \cup (CASE e = "MULTI_INSTALL" -> {"MULTI_INST"}
                                           [] e = "INSTALL_CROSS_PSX" -> {"CROSS_PSX", "SKIP_CLEANUP"}
                                           [] OTHER -> {})
        /\ FileCopyList' = List(console, flags') /\ NumFiles' = Counted(console, flags')
  BY DEF BeginInstall
<1>b. console \in Consoles /\ console' = console /\ files' = files /\ n' = 1
  BY DEF TInv, ConsoleType, BeginInstall, cardVars
<1>c. List(console, fl) \in Seq(Paths) /\ ToSet(List(console, fl)) = Wanted(console, fl)
  BY <1>b, ListOf
<1>d. CopiesMeant(console, fl)
  BY <1>a DEF CopiesMeant, TargetSystemType, InstallEvents
<1>e. Counted(console, fl) = Entries(List(console, fl)) /\ Counted(console, fl) \in Nat
  BY <1>b, <1>d, CountedEntries
<1>1. ConsoleType' /\ HistoryType'
  BY BoundAssumption DEF TInv, ConsoleType, HistoryType, BeginInstall, cardVars
<1>2. CardType' /\ TodoType'
  BY DEF TInv, CardType, TodoType, PlaceOK, ModesOK, BeginInstall, cardVars
<1>3. CnfKept'
  BY <1>a, <1>b DEF CnfKept, HasOldFMCBConfigFile
<1>4. ListType'
  <2>1. FileCopyList' = List(console, fl) /\ NumFiles' = Counted(console, fl)
    BY <1>a
  <2> HIDE DEF fl
  <2> QED
    BY <1>b, <1>c, <1>e, <2>1 DEF ListType
<1>5. ListOK'
  BY <1>a, <1>b, <1>c, Zenon DEF ListOK
<1>6. CountOK'
  BY <1>a, <1>e, Zenon DEF CountOK
<1>7. PlaceOK' /\ DataOK' /\ ModesOK' /\ DataType'
  BY DEF TInv, PlaceOK, DataOK, ModesOK, DataType, BeginInstall, cardVars, InstallEvents, Installs, Removals
<1>8. CopiedOK'
  BY DEF TInv, CopiedOK, BeginInstall, cardVars, Whole
<1> QED
  BY <1>1, <1>2, <1>3, <1>4, <1>5, <1>6, <1>7, <1>8 DEF TInv

LEMMA BeginCleanupTInv == TInv /\ BeginCleanup => TInv'
<1> SUFFICES ASSUME TInv, BeginCleanup PROVE TInv'
  OBVIOUS
<1>1. ConsoleType' /\ HistoryType'
  BY BoundAssumption DEF TInv, ConsoleType, HistoryType, BeginCleanup, cardVars
<1>2. CardType' /\ TodoType' /\ CnfKept'
  BY DEF TInv, CardType, TodoType, CnfKept, PlaceOK, ModesOK, BeginCleanup, cardVars, CleanupFolders, Regions
<1>3. ListType' /\ ListOK' /\ CountOK'
  BY DEF TInv, ListType, ListOK, CountOK, BeginCleanup, cardVars, InstallEvents
<1>4. PlaceOK' /\ DataOK' /\ ModesOK' /\ DataType'
  BY DEF TInv, PlaceOK, DataOK, ModesOK, DataType, BeginCleanup, cardVars, InstallEvents, Installs, Removals
<1>5. CopiedOK'
  BY DEF TInv, CopiedOK, BeginCleanup, cardVars, Whole
<1> QED
  BY <1>1, <1>2, <1>3, <1>4, <1>5 DEF TInv

LEMMA BeginCleanupMultiTInv == TInv /\ BeginCleanupMulti => TInv'
<1> SUFFICES ASSUME TInv, BeginCleanupMulti PROVE TInv'
  OBVIOUS
<1>1. ConsoleType'
  BY DEF TInv, ConsoleType, BeginCleanupMulti, cardVars, NoFault, Fault
<1>2. HistoryType'
  BY BoundAssumption DEF TInv, HistoryType, BeginCleanupMulti, cardVars, NoFault, Fault
<1>3. CardType' /\ TodoType' /\ CnfKept'
  BY DEF TInv, CardType, TodoType, CnfKept, PlaceOK, ModesOK, BeginCleanupMulti, cardVars, NoFault, Fault
<1>4. ListType' /\ ListOK' /\ CountOK'
  BY DEF TInv, ListType, ListOK, CountOK, BeginCleanupMulti, cardVars, NoFault, Fault, InstallEvents
<1>5. PlaceOK' /\ DataOK' /\ ModesOK' /\ DataType'
  BY DEF TInv, PlaceOK, DataOK, ModesOK, DataType, BeginCleanupMulti, cardVars, NoFault, Fault, InstallEvents,
         Installs, Removals
<1>6. CopiedOK'
  BY DEF TInv, CopiedOK, BeginCleanupMulti, cardVars, NoFault, Fault, Whole
<1> QED
  BY <1>1, <1>2, <1>3, <1>4, <1>5, <1>6 DEF TInv

LEMMA FormatTInv == TInv /\ Format => TInv'
<1> SUFFICES ASSUME TInv, Format PROVE TInv'
  OBVIOUS
<1>1. ConsoleType'
  BY DEF TInv, ConsoleType, Format, cardVars, NoFault, Fault
<1>2. HistoryType'
  BY BoundAssumption DEF TInv, HistoryType, Format, cardVars, NoFault, Fault
<1>3. CardType'
  BY DEF TInv, CardType, Format, cardVars, NoFault, Fault
<1>4. TodoType'
  BY DEF TInv, TodoType, PlaceOK, ModesOK, Format, cardVars, NoFault, Fault
<1>5. CnfKept'
  BY DEF TInv, CnfKept, PlaceOK, ModesOK, TodoType, Format, cardVars, NoFault, Fault, InstallEvents, Installs,
         Removals
<1>6. ListType' /\ ListOK' /\ CountOK'
  BY DEF TInv, ListType, ListOK, CountOK, Format, cardVars, NoFault, Fault, InstallEvents
<1>7. PlaceOK' /\ DataOK' /\ ModesOK' /\ DataType'
  BY DEF TInv, PlaceOK, DataOK, ModesOK, DataType, Format, cardVars, NoFault, Fault, InstallEvents, Installs, Removals
<1>8. CopiedOK'
  BY DEF TInv, CopiedOK, Format, cardVars, NoFault, Fault, Whole
<1> QED
  BY <1>1, <1>2, <1>3, <1>4, <1>5, <1>6, <1>7, <1>8 DEF TInv

LEMMA DumpTInv == TInv /\ Dump => TInv'
<1> SUFFICES ASSUME TInv, Dump PROVE TInv'
  OBVIOUS
<1>1. ConsoleType' /\ HistoryType'
  BY BoundAssumption DEF TInv, ConsoleType, HistoryType, Dump, cardVars, NoFault, Fault
<1>2. CardType' /\ TodoType' /\ CnfKept'
  BY DEF TInv, CardType, TodoType, CnfKept, PlaceOK, ModesOK, Dump, cardVars, NoFault, Fault
<1>3. ListType' /\ ListOK' /\ CountOK'
  BY DEF TInv, ListType, ListOK, CountOK, Dump, cardVars, NoFault, Fault, InstallEvents
<1>4. PlaceOK' /\ DataOK' /\ ModesOK' /\ DataType'
  BY DEF TInv, PlaceOK, DataOK, ModesOK, DataType, Dump, cardVars, NoFault, Fault, InstallEvents, Installs, Removals
<1>5. CopiedOK'
  BY DEF TInv, CopiedOK, Dump, cardVars, NoFault, Fault, Whole
<1> QED
  BY <1>1, <1>2, <1>3, <1>4, <1>5 DEF TInv

LEMMA RestoreTInv == TInv /\ Restore => TInv'
<1> SUFFICES ASSUME TInv, Restore PROVE TInv'
  OBVIOUS
<1>1. ConsoleType' /\ HistoryType'
  BY BoundAssumption DEF TInv, ConsoleType, HistoryType, Restore, cardVars, NoFault, Fault
<1>2. TodoType'
  BY DEF TInv, TodoType, PlaceOK, ModesOK, Restore, cardVars, NoFault, Fault
<1>3. CnfKept'
  BY DEF TInv, CnfKept, PlaceOK, ModesOK, TodoType, Restore, cardVars, NoFault, Fault, InstallEvents, Installs,
         Removals
<1>4. CardType'
  <2>1. CASE UNCHANGED cardVars
    BY <2>1 DEF TInv, CardType, cardVars
  <2>2. CASE ~UNCHANGED cardVars
    <3>1. PICK image \in Cards : files' = image.files /\ shared' = image.shared
                                  /\ uninst' = image.uninst /\ legacy' = image.legacy /\ lost' = {}
      BY <2>2 DEF Restore
    <3> QED
      BY <3>1, CardsType DEF CardType
  <2> QED
    BY <2>1, <2>2
<1>5. ListType' /\ ListOK' /\ CountOK'
  BY DEF TInv, ListType, ListOK, CountOK, Restore, cardVars, NoFault, Fault, InstallEvents
<1>6. PlaceOK' /\ DataOK' /\ ModesOK' /\ DataType'
  BY DEF TInv, PlaceOK, DataOK, ModesOK, DataType, Restore, cardVars, NoFault, Fault, InstallEvents, Installs,
         Removals
<1>7. CopiedOK'
  BY DEF TInv, CopiedOK, Restore, cardVars, NoFault, Fault, Whole
<1> QED
  BY <1>1, <1>2, <1>3, <1>4, <1>5, <1>6, <1>7 DEF TInv

LEMMA DismissTInv == TInv /\ Dismiss => TInv'
<1> SUFFICES ASSUME TInv, Dismiss PROVE TInv'
  OBVIOUS
<1>1. ConsoleType' /\ HistoryType'
  BY BoundAssumption DEF TInv, ConsoleType, HistoryType, Dismiss, Idle, cardVars
<1>2. CardType' /\ TodoType' /\ CnfKept'
  BY DEF TInv, CardType, TodoType, CnfKept, PlaceOK, ModesOK, Dismiss, Idle, cardVars
<1>3. ListType' /\ ListOK' /\ CountOK'
  BY DEF TInv, ListType, ListOK, CountOK, Dismiss, Idle, cardVars, InstallEvents
<1>4. PlaceOK' /\ DataOK' /\ ModesOK' /\ DataType'
  BY DEF TInv, PlaceOK, DataOK, ModesOK, DataType, Dismiss, Idle, cardVars, InstallEvents, Installs, Removals
<1>5. CopiedOK'
  BY DEF TInv, CopiedOK, Dismiss, Idle, cardVars, Whole
<1> QED
  BY <1>1, <1>2, <1>3, <1>4, <1>5 DEF TInv

LEMMA MoveCardTInv == TInv /\ MoveCard => TInv'
<1> SUFFICES ASSUME TInv, MoveCard PROVE TInv'
  OBVIOUS
<1>1. ConsoleType' /\ HistoryType'
  BY BoundAssumption DEF TInv, ConsoleType, HistoryType, MoveCard, Idle, cardVars
<1>2. CardType' /\ TodoType' /\ CnfKept'
  BY DEF TInv, CardType, TodoType, CnfKept, PlaceOK, ModesOK, MoveCard, Idle, cardVars
<1>3. ListType' /\ ListOK' /\ CountOK'
  BY DEF TInv, ListType, ListOK, CountOK, MoveCard, Idle, cardVars, InstallEvents
<1>4. PlaceOK' /\ DataOK' /\ ModesOK' /\ DataType'
  BY DEF TInv, PlaceOK, DataOK, ModesOK, DataType, MoveCard, Idle, cardVars, InstallEvents, Installs, Removals
<1>5. CopiedOK'
  BY DEF TInv, CopiedOK, MoveCard, Idle, cardVars, Whole
<1> QED
  BY <1>1, <1>2, <1>3, <1>4, <1>5 DEF TInv

LEMMA ResetTInv == TInv /\ Reset => TInv'
<1> SUFFICES ASSUME TInv, Reset PROVE TInv'
  OBVIOUS
<1>1. ConsoleType'
  BY DEF TInv, ConsoleType, Reset, Idle, cardVars
<1>2. HistoryType'
  BY BoundAssumption DEF TInv, HistoryType, Reset, Idle, cardVars
<1>3. CardType' /\ TodoType' /\ CnfKept'
  BY DEF TInv, CardType, TodoType, CnfKept, PlaceOK, ModesOK, Reset, Idle, cardVars
<1>4. ListType' /\ ListOK' /\ CountOK'
  BY DEF TInv, ListType, ListOK, CountOK, Reset, Idle, cardVars, InstallEvents
<1>5. PlaceOK' /\ DataOK' /\ ModesOK' /\ DataType'
  BY DEF TInv, PlaceOK, DataOK, ModesOK, DataType, Reset, Idle, cardVars, InstallEvents, Installs, Removals
<1>6. CopiedOK'
  BY DEF TInv, CopiedOK, Reset, Idle, cardVars, Whole
<1> QED
  BY <1>1, <1>2, <1>3, <1>4, <1>5, <1>6 DEF TInv

LEMMA GetAllBaseFileStatsTInv == TInv /\ GetAllBaseFileStats => TInv'
<1> SUFFICES ASSUME TInv, GetAllBaseFileStats PROVE TInv'
  OBVIOUS
<1>1. ConsoleType' /\ HistoryType'
  BY BoundAssumption DEF TInv, ConsoleType, HistoryType, GetAllBaseFileStats, cardVars, NoFault, Fault, Show
<1>2. CardType' /\ TodoType' /\ CnfKept'
  BY DEF TInv, CardType, TodoType, CnfKept, PlaceOK, ModesOK, GetAllBaseFileStats, cardVars, NoFault, Fault, Show
<1>3. ListType' /\ ListOK' /\ CountOK'
  BY DEF TInv, ListType, ListOK, CountOK, GetAllBaseFileStats, cardVars, NoFault, Fault, Show, InstallEvents
<1>4. PlaceOK' /\ DataOK' /\ ModesOK' /\ DataType'
  BY DEF TInv, PlaceOK, DataOK, ModesOK, DataType, GetAllBaseFileStats, cardVars, NoFault, Fault, Show, InstallEvents,
         Installs, Removals
<1>5. CopiedOK'
  BY DEF TInv, CopiedOK, GetAllBaseFileStats, cardVars, NoFault, Fault, Show, Whole
<1> QED
  BY <1>1, <1>2, <1>3, <1>4, <1>5 DEF TInv

LEMMA AddDirContentsTInv == TInv /\ AddDirContents => TInv'
<1> SUFFICES ASSUME TInv, AddDirContents PROVE TInv'
  OBVIOUS
<1> DEFINE p == Contents[n]
<1>a. p \in ToSet(Contents) /\ p \in Paths /\ p[2] \notin Groups
  <2>1. Contents \in Seq(PackageFiles) /\ n \in 1 .. Len(Contents)
    BY ContentsOf DEF AddDirContents, TInv, ListType
  <2>2. p \in PackageFiles /\ p \in ToSet(Contents)
    BY <2>1 DEF ToSet
  <2> QED
    BY <2>2, FoldersOfPaths DEF PackageFiles
<1>b. FileCopyList \in Seq(Paths) /\ NumFiles \in Nat
  BY DEF TInv, ListType
<1>c. /\ Append(FileCopyList, p) \in Seq(Paths) /\ ToSet(Append(FileCopyList, p)) = ToSet(FileCopyList) \cup {p}
      /\ Entries(Append(FileCopyList, p)) = Entries(FileCopyList) + 1
  BY <1>a, <1>b, ToSetAppend, EntriesAppend
<1>d. /\ pc = "list" /\ pc' \in {"list", "shown"} /\ NumFiles' = NumFiles + 1 /\ UNCHANGED <<event, flags, console>>
      /\ \/ FileCopyList' = Append(FileCopyList, p) /\ n' = n + 1 /\ faults' = faults
         \/ UNCHANGED <<FileCopyList, n>> /\ pc' = "shown" /\ result' = "failed" /\ faults' = faults + 1
  BY DEF AddDirContents, NoFault, Fault, Show
<1>1. ConsoleType' /\ HistoryType'
  BY BoundAssumption DEF TInv, ConsoleType, HistoryType, AddDirContents, cardVars, NoFault, Fault, Show
<1>2. CardType' /\ TodoType' /\ CnfKept'
  BY DEF TInv, CardType, TodoType, CnfKept, PlaceOK, ModesOK, AddDirContents, cardVars, NoFault, Fault, Show
<1>3. ListType'
  BY <1>b, <1>c, <1>d DEF TInv, ListType
<1>4. ListOK'
  <2> HIDE DEF p
  <2> QED
    BY <1>a, <1>c, <1>d DEF TInv, ListOK
<1>5. CountOK'
  <2>1. event \in InstallEvents => NumFiles = Entries(FileCopyList)
    BY <1>d DEF TInv, CountOK
  <2>2. faults \in Nat /\ Entries(FileCopyList) \in Nat
    BY <1>b, EntriesNat DEF TInv, HistoryType
  <2> HIDE DEF p
  <2>3. CASE FileCopyList' = Append(FileCopyList, p)
    <3>1. Entries(FileCopyList') = Entries(FileCopyList) + 1
      BY <1>c, <2>3, Zenon
    <3> QED
      BY <1>d, <2>1, <3>1 DEF CountOK
  <2>4. CASE UNCHANGED FileCopyList /\ pc' = "shown" /\ result' = "failed" /\ faults' = faults + 1
    <3>1. Entries(FileCopyList') = Entries(FileCopyList)
      BY <2>4, Zenon
    <3> QED
      BY <1>d, <2>1, <2>2, <2>4, <3>1 DEF CountOK
  <2> QED
    BY <1>d, <2>3, <2>4
<1>6. PlaceOK' /\ DataOK' /\ ModesOK' /\ DataType'
  BY DEF TInv, PlaceOK, DataOK, ModesOK, DataType, AddDirContents, cardVars, NoFault, Fault, Show, InstallEvents,
         Installs, Removals
<1>7. CopiedOK'
  BY DEF TInv, CopiedOK, AddDirContents, cardVars, NoFault, Fault, Show, Whole
<1> QED
  BY <1>1, <1>2, <1>3, <1>4, <1>5, <1>6, <1>7 DEF TInv

LEMMA CheckSpaceTInv == TInv /\ CheckSpace => TInv'
<1> SUFFICES ASSUME TInv, CheckSpace PROVE TInv'
  OBVIOUS
<1>1. ConsoleType' /\ HistoryType'
  BY BoundAssumption DEF TInv, ConsoleType, HistoryType, CheckSpace, cardVars, Show
<1>2. CardType' /\ CnfKept'
  BY DEF TInv, CardType, CnfKept, PlaceOK, ModesOK, TodoType, CheckSpace, cardVars, Show, InstallEvents, Installs,
         Removals
<1>3. TodoType'
  <2>1. UNCHANGED <<files, todo>> /\ (folders' = folders \/ folders' = CleanupFolders)
    BY DEF CheckSpace, cardVars
  <2>2. CleanupFolders \in Seq(Regions)
    BY DEF CleanupFolders, Regions
  <2> QED
    BY <2>1, <2>2 DEF TInv, TodoType
<1>4. ListType' /\ ListOK' /\ CountOK'
  BY DEF TInv, ListType, ListOK, CountOK, CheckSpace, cardVars, Show, InstallEvents
<1>5. PlaceOK' /\ DataOK' /\ ModesOK' /\ DataType'
  BY DEF TInv, PlaceOK, DataOK, ModesOK, DataType, CheckSpace, cardVars, Show, InstallEvents, Installs, Removals
<1>6. CopiedOK'
  BY DEF TInv, CopiedOK, CheckSpace, cardVars, Show, Whole
<1> QED
  BY <1>1, <1>2, <1>3, <1>4, <1>5, <1>6 DEF TInv

LEMMA CreateBasicFoldersTInv == TInv /\ CreateBasicFolders => TInv'
<1> SUFFICES ASSUME TInv, CreateBasicFolders PROVE TInv'
  OBVIOUS
<1>1. ConsoleType' /\ HistoryType'
  BY BoundAssumption DEF TInv, ConsoleType, HistoryType, CreateBasicFolders, cardVars, NoFault, Fault, Show
<1>2. CardType' /\ TodoType' /\ CnfKept'
  BY DEF TInv, CardType, TodoType, CnfKept, PlaceOK, ModesOK, CreateBasicFolders, cardVars, NoFault, Fault, Show
<1>3. ListType' /\ ListOK' /\ CountOK'
  BY DEF TInv, ListType, ListOK, CountOK, CreateBasicFolders, cardVars, NoFault, Fault, Show, InstallEvents
<1>4. PlaceOK' /\ DataOK' /\ ModesOK' /\ DataType'
  BY DEF TInv, PlaceOK, DataOK, ModesOK, DataType, CreateBasicFolders, cardVars, NoFault, Fault, Show, InstallEvents,
         Installs, Removals
<1>5. CopiedOK'
  BY DEF TInv, CopiedOK, CreateBasicFolders, cardVars, NoFault, Fault, Show, Whole
<1> QED
  BY <1>1, <1>2, <1>3, <1>4, <1>5 DEF TInv

LEMMA CopyFileTInv == TInv /\ CopyFile => TInv'
<1> SUFFICES ASSUME TInv, CopyFile PROVE TInv'
  OBVIOUS
<1> DEFINE p == FileCopyList[n]
<1>a. p \in Paths /\ n \in 1 .. Len(FileCopyList)
  BY DEF CopyFile, TInv, ListType
<1>b. /\ files' = files \cup {p} /\ shared' = shared \ {p}
      /\ lost' = (lost \ {p}) \cup (IF p \in shared THEN shared \ {p} ELSE {})
      /\ UNCHANGED <<uninst, legacy, FileCopyList>>
  BY DEF CopyFile, McWrite, Freed
<1>c. pc = "copy" /\ pc' \in {"copy", "shown"} /\ (pc' = "copy" => n' = n + 1)
  BY DEF CopyFile, Show
<1>1. ConsoleType' /\ HistoryType'
  BY BoundAssumption DEF TInv, ConsoleType, HistoryType, CopyFile, NoFault, Fault, Show, McWrite, Freed
<1>2. TodoType' /\ CnfKept'
  BY DEF TInv, TodoType, CnfKept, PlaceOK, ModesOK, CopyFile, NoFault, Fault, Show, McWrite, Freed
<1>3. CardType'
  <2> HIDE DEF p
  <2> QED
    BY <1>a, <1>b DEF TInv, CardType
<1>4. ListType' /\ ListOK' /\ CountOK'
  BY DEF TInv, ListType, ListOK, CountOK, CopyFile, NoFault, Fault, Show, McWrite, Freed, InstallEvents
<1>5. PlaceOK' /\ DataOK' /\ ModesOK' /\ DataType'
  BY DEF TInv, PlaceOK, DataOK, ModesOK, DataType, CopyFile, NoFault, Fault, Show, McWrite, Freed, InstallEvents,
         Installs, Removals
<1>6. CopiedOK'
  <2>1. \A k \in 1 .. n - 1 : Whole(FileCopyList[k])
    BY <1>c DEF TInv, CopiedOK
  <2>2. \A q : Whole(q) \/ q = p => q \in files' /\ q \notin shared' /\ q \notin lost'
    <3> HIDE DEF p
    <3> QED
      BY <1>b DEF Whole
  <2>3. \A k \in 1 .. n : k \in 1 .. n - 1 \/ FileCopyList[k] = p
    BY <1>a
  <2>4. \A k \in 1 .. n : FileCopyList[k] \in files' /\ FileCopyList[k] \notin shared' /\ FileCopyList[k] \notin lost'
    BY <2>1, <2>2, <2>3
  <2>5. n + 1 - 1 = n
    BY <1>a
  <2>6. pc' = "copy" => \A k \in 1 .. n' - 1 :
          FileCopyList'[k] \in files' /\ FileCopyList'[k] \notin shared' /\ FileCopyList'[k] \notin lost'
    <3>1. pc' = "copy" => n' - 1 = n
      BY <1>a, <1>c
    <3> HIDE DEF p
    <3> QED
      BY <1>b, <2>4, <3>1, Zenon
  <2> QED
    BY <1>c, <2>6, Zenon DEF CopiedOK, Whole
<1> QED
  BY <1>1, <1>2, <1>3, <1>4, <1>5, <1>6 DEF TInv

LEMMA EndCopyTInv == TInv /\ EndCopy => TInv'
<1> SUFFICES ASSUME TInv, EndCopy PROVE TInv'
  OBVIOUS
<1>1. ConsoleType' /\ HistoryType'
  BY BoundAssumption DEF TInv, ConsoleType, HistoryType, EndCopy, cardVars, Show
<1>2. CardType' /\ TodoType' /\ CnfKept'
  BY DEF TInv, CardType, TodoType, CnfKept, PlaceOK, ModesOK, EndCopy, cardVars, Show
<1>3. ListType' /\ ListOK' /\ CountOK'
  BY DEF TInv, ListType, ListOK, CountOK, EndCopy, cardVars, Show, InstallEvents
<1>4. PlaceOK' /\ DataOK' /\ ModesOK' /\ DataType'
  BY DEF TInv, PlaceOK, DataOK, ModesOK, DataType, EndCopy, cardVars, Show, InstallEvents, Installs, Removals
<1>5. CopiedOK'
  <2>1. pc = "copy" /\ pc' \in {"uninst", "shown"} /\ UNCHANGED <<files, shared, lost, FileCopyList, n>>
    BY DEF EndCopy, Show, cardVars
  <2>2. n = Len(FileCopyList) + 1 /\ DOMAIN FileCopyList = 1 .. n - 1
    BY DEF EndCopy, TInv, ListType
  <2>3. \A p \in ToSet(FileCopyList) : Whole(p)
    BY <2>1, <2>2 DEF TInv, CopiedOK, ToSet
  <2> QED
    BY <2>1, <2>3 DEF CopiedOK, Whole
<1> QED
  BY <1>1, <1>2, <1>3, <1>4, <1>5 DEF TInv

LEMMA GenerateUninstallFileTInv == TInv /\ GenerateUninstallFile => TInv'
<1> SUFFICES ASSUME TInv, GenerateUninstallFile PROVE TInv'
  OBVIOUS
<1>1. ConsoleType' /\ HistoryType'
  BY BoundAssumption DEF TInv, ConsoleType, HistoryType, GenerateUninstallFile, NoFault, Fault, Show
<1>2. TodoType' /\ CnfKept'
  BY DEF TInv, TodoType, CnfKept, PlaceOK, ModesOK, GenerateUninstallFile, NoFault, Fault, Show
<1>3. CardType'
  <2>1. UNCHANGED <<files, shared, lost, legacy>> /\ console \in Consoles
    BY DEF GenerateUninstallFile, TInv, ConsoleType
  <2>2. \/ uninst' = uninst
        \/ \E names \in SUBSET AliasesOf(console), r \in BOOLEAN :
             uninst' = [by |-> console, names |-> names, readable |-> r, version |-> 200]
    <3> DEFINE written(names, r) == [by |-> console, names |-> names, readable |-> r, version |-> 200]
    <3>1. \/ uninst' = uninst
          \/ uninst' = written(AliasesOf(console), TRUE)
          \/ \E k \in 0 .. Len(FileAlias) - 1, r \in BOOLEAN : uninst' = written(FirstAliasesOf(console, k), r)
      BY DEF GenerateUninstallFile
    <3>2. \A k \in 0 .. Len(FileAlias) - 1 : FirstAliasesOf(console, k) \in SUBSET AliasesOf(console)
      <4>1. Len(FileAlias) = 8
        BY TableOfAliases
      <4> QED
        BY <4>1, FirstAliases
    <3> QED
      BY <3>1, <3>2
  <2> QED
    BY <2>1, <2>2, WrittenOK DEF TInv, CardType
<1>4. ListType' /\ ListOK' /\ CountOK'
  BY DEF TInv, ListType, ListOK, CountOK, GenerateUninstallFile, NoFault, Fault, Show, InstallEvents
<1>5. PlaceOK' /\ DataOK' /\ ModesOK' /\ DataType'
  BY DEF TInv, PlaceOK, DataOK, ModesOK, DataType, GenerateUninstallFile, NoFault, Fault, Show, InstallEvents,
         Installs, Removals
<1>6. CopiedOK'
  BY DEF TInv, CopiedOK, GenerateUninstallFile, NoFault, Fault, Show, Whole
<1> QED
  BY <1>1, <1>2, <1>3, <1>4, <1>5, <1>6 DEF TInv

LEMMA CreateCrossLinkedFilesTInv == TInv /\ CreateCrossLinkedFiles => TInv'
<1> SUFFICES ASSUME TInv, CreateCrossLinkedFiles PROVE TInv'
  OBVIOUS
<1>1. ConsoleType' /\ HistoryType'
  BY BoundAssumption DEF TInv, ConsoleType, HistoryType, CreateCrossLinkedFiles, NoFault, Fault, Show
<1>2. TodoType' /\ CnfKept'
  BY DEF TInv, TodoType, CnfKept, PlaceOK, ModesOK, CreateCrossLinkedFiles, NoFault, Fault, Show
<1>3. CardType'
  <2>1. PICK made \in SUBSET AliasesOf(console) : files' = files \cup made /\ shared' = shared \cup made \cup {Own(console)}
    BY DEF CreateCrossLinkedFiles
  <2>2. console.type = "PS2" /\ console \in Consoles /\ pc = "link" /\ event = "MULTI_INSTALL" /\ "MULTI_INST" \in flags
        /\ "CROSS_PSX" \notin flags
    BY DEF CreateCrossLinkedFiles, TInv, ConsoleType, PlaceOK, ModesOK
  <2>3. Own(console) \in Aliases /\ AliasesOf(console) \subseteq Aliases /\ Aliases \subseteq Paths
    BY <2>2, ConsolesAssumption, AliasesArePaths DEF Aliases
  <2>4. Own(console) \in Wanted(console, flags)
    BY <2>2 DEF Wanted, SysSet, TargetSystemType
  <2>5. Own(console) \in files
    BY <2>2, <2>4 DEF TInv, ListOK, CopiedOK, Whole, InstallEvents
  <2> QED
    BY <2>1, <2>3, <2>5 DEF TInv, CardType, CreateCrossLinkedFiles
<1>4. ListType' /\ ListOK' /\ CountOK'
  BY DEF TInv, ListType, ListOK, CountOK, CreateCrossLinkedFiles, NoFault, Fault, Show, InstallEvents
<1>5. PlaceOK' /\ DataOK' /\ ModesOK' /\ DataType'
  BY DEF TInv, PlaceOK, DataOK, ModesOK, DataType, CreateCrossLinkedFiles, NoFault, Fault, Show, InstallEvents,
         Installs, Removals
<1>6. CopiedOK'
  BY DEF TInv, CopiedOK, CreateCrossLinkedFiles, NoFault, Fault, Show, Whole
<1> QED
  BY <1>1, <1>2, <1>3, <1>4, <1>5, <1>6 DEF TInv

LEMMA ReadUninstallFileTInv == TInv /\ ReadUninstallFile => TInv'
<1> SUFFICES ASSUME TInv, ReadUninstallFile PROVE TInv'
  OBVIOUS
<1>a. data' = data \/
      (\E file \in {uninst, legacy} \ {NoFile}, k \in 0 .. Len(FileAlias) :
         data' = [by |-> file.by, version |-> file.version,
                  names |-> CASE file.version = 200 -> HandleFMCBUninstallFile(file, k)
                              [] file.version = 100 -> HandleFMCBUninstallFile_100(file, k)
                              [] OTHER -> HandleLegacyFMCBUninstallFile(file, k)])
  BY DEF ReadUninstallFile
<1>b. \A file \in {uninst, legacy} \ {NoFile} : FileOK(file) /\ file.version \in {0, 100, 200}
  BY DEF TInv, CardType
<1>c. ASSUME NEW file \in {uninst, legacy} \ {NoFile}, NEW k \in 0 .. Len(FileAlias),
             data' = [by |-> file.by, version |-> file.version,
                      names |-> CASE file.version = 200 -> HandleFMCBUninstallFile(file, k)
                                  [] file.version = 100 -> HandleFMCBUninstallFile_100(file, k)
                                  [] OTHER -> HandleLegacyFMCBUninstallFile(file, k)]
      PROVE  /\ data'.by \in Consoles /\ data'.names \subseteq AliasesOf(data'.by)
             /\ data'.version \in {0, 100, 200} /\ data' # NoFile
  <2> DEFINE read == data'
  <2>1. read = [by |-> file.by, version |-> file.version,
                names |-> CASE file.version = 200 -> HandleFMCBUninstallFile(file, k)
                            [] file.version = 100 -> HandleFMCBUninstallFile_100(file, k)
                            [] OTHER -> HandleLegacyFMCBUninstallFile(file, k)]
    BY <1>c
  <2>2. FileOK(file) /\ file.version \in {0, 100, 200}
    BY <1>b
  <2> HIDE DEF read
  <2>3. /\ read.by \in Consoles /\ read.version \in {0, 100, 200} /\ read.names \subseteq AliasesOf(read.by)
        /\ read # NoFile
    BY <2>1, <2>2, ReadNames
  <2> QED
    BY <2>3 DEF read
<1>1. ConsoleType'
  BY DEF TInv, ConsoleType, ReadUninstallFile, cardVars, NoFault, Fault, Show
<1>2. HistoryType'
  BY BoundAssumption DEF TInv, HistoryType, ReadUninstallFile, cardVars, NoFault, Fault, Show
<1>3. CardType' /\ TodoType' /\ CnfKept'
  BY DEF TInv, CardType, TodoType, CnfKept, PlaceOK, ModesOK, ReadUninstallFile, cardVars, NoFault, Fault, Show
<1>4. ListType' /\ ListOK' /\ CountOK'
  BY DEF TInv, ListType, ListOK, CountOK, ReadUninstallFile, cardVars, NoFault, Fault, Show, InstallEvents
<1>5. PlaceOK' /\ ModesOK'
  BY DEF TInv, PlaceOK, ModesOK, ReadUninstallFile, cardVars, NoFault, Fault, Show, InstallEvents, Installs, Removals
<1>6. DataOK'
  <2>1. pc = "read" /\ event' = event /\ event = "CLEANUP_MULTI" /\ pc' \in {"shown", "delete_uninst"}
    BY DEF ReadUninstallFile, Show, TInv, PlaceOK, Removals
  <2>2. pc' = "delete_uninst" => data' # NoFile
    <3>1. pc' = "delete_uninst" =>
            (\E file \in {uninst, legacy} \ {NoFile}, k \in 0 .. Len(FileAlias) :
               data' = [by |-> file.by, version |-> file.version,
                        names |-> CASE file.version = 200 -> HandleFMCBUninstallFile(file, k)
                                    [] file.version = 100 -> HandleFMCBUninstallFile_100(file, k)
                                    [] OTHER -> HandleLegacyFMCBUninstallFile(file, k)])
      BY DEF ReadUninstallFile, Show
    <3> QED
      BY <1>c, <3>1
  <2> QED
    BY <2>1, <2>2 DEF DataOK
<1>7. DataType'
  BY <1>a, <1>c DEF TInv, DataType
<1>8. CopiedOK'
  BY DEF TInv, CopiedOK, ReadUninstallFile, cardVars, NoFault, Fault, Show, Whole
<1> QED
  BY <1>1, <1>2, <1>3, <1>4, <1>5, <1>6, <1>7, <1>8 DEF TInv

LEMMA DeleteUninstallFileTInv == TInv /\ DeleteUninstallFile => TInv'
<1> SUFFICES ASSUME TInv, DeleteUninstallFile PROVE TInv'
  OBVIOUS
<1>1. ConsoleType' /\ HistoryType'
  BY BoundAssumption DEF TInv, ConsoleType, HistoryType, DeleteUninstallFile, opVars, NoFault, Fault
<1>2. CardType' /\ TodoType' /\ CnfKept'
  BY DEF TInv, CardType, TodoType, CnfKept, PlaceOK, ModesOK, DeleteUninstallFile, opVars, NoFault, Fault
<1>3. ListType' /\ ListOK' /\ CountOK'
  BY DEF TInv, ListType, ListOK, CountOK, DeleteUninstallFile, opVars, NoFault, Fault, InstallEvents
<1>4. PlaceOK' /\ DataOK' /\ ModesOK' /\ DataType'
  BY DEF TInv, PlaceOK, DataOK, ModesOK, DataType, DeleteUninstallFile, opVars, NoFault, Fault, InstallEvents,
         Installs, Removals
<1>5. CopiedOK'
  BY DEF TInv, CopiedOK, DeleteUninstallFile, opVars, NoFault, Fault, Whole
<1> QED
  BY <1>1, <1>2, <1>3, <1>4, <1>5 DEF TInv

LEMMA DeleteCrossLinkedFilesTInv == TInv /\ DeleteCrossLinkedFiles => TInv'
<1> SUFFICES ASSUME TInv, DeleteCrossLinkedFiles PROVE TInv'
  OBVIOUS
<1>1. ConsoleType' /\ HistoryType'
  BY BoundAssumption DEF TInv, ConsoleType, HistoryType, DeleteCrossLinkedFiles, opVars, NoFault, Fault
<1>2. CardType'
  BY DEF TInv, CardType, DeleteCrossLinkedFiles, opVars, NoFault, Fault
<1>3. TodoType'
  BY DEF TInv, TodoType, PlaceOK, ModesOK, DeleteCrossLinkedFiles, opVars, NoFault, Fault
<1>4. CnfKept'
  BY DEF TInv, CnfKept, PlaceOK, ModesOK, TodoType, DeleteCrossLinkedFiles, opVars, NoFault, Fault, InstallEvents,
         Installs, Removals
<1>5. ListType' /\ ListOK' /\ CountOK'
  BY DEF TInv, ListType, ListOK, CountOK, DeleteCrossLinkedFiles, opVars, NoFault, Fault, InstallEvents
<1>6. PlaceOK' /\ DataOK' /\ ModesOK' /\ DataType'
  BY DEF TInv, PlaceOK, DataOK, ModesOK, DataType, DeleteCrossLinkedFiles, opVars, NoFault, Fault, InstallEvents,
         Installs, Removals
<1>7. CopiedOK'
  BY DEF TInv, CopiedOK, DeleteCrossLinkedFiles, opVars, NoFault, Fault, Whole
<1> QED
  BY <1>1, <1>2, <1>3, <1>4, <1>5, <1>6, <1>7 DEF TInv

LEMMA DeleteUnneededTInv == TInv /\ DeleteUnneeded => TInv'
<1> SUFFICES ASSUME TInv, DeleteUnneeded PROVE TInv'
  OBVIOUS
<1>1. ConsoleType' /\ HistoryType'
  BY BoundAssumption DEF TInv, ConsoleType, HistoryType, DeleteUnneeded, cardVars
<1>2. CardType' /\ CnfKept'
  BY DEF TInv, CardType, CnfKept, PlaceOK, ModesOK, TodoType, DeleteUnneeded, cardVars, InstallEvents, Installs,
         Removals
<1>3. TodoType'
  <2>1. data.by.region \in Regions
    BY ConsolesAssumption DEF DeleteUnneeded, TInv, DataType, DataOK
  <2>2. OtherFolders(data.by.region) \in Seq(Regions)
    <3> DEFINE letter == data.by.region
    <3>1. \/ letter = "I" /\ OtherFolders(letter) = <<"A", "E", "C">>
          \/ letter = "A" /\ OtherFolders(letter) = <<"I", "E", "C">>
          \/ letter = "E" /\ OtherFolders(letter) = <<"A", "I", "C", "A", "I", "E">>
          \/ letter = "C" /\ OtherFolders(letter) = <<"A", "I", "E">>
      BY <2>1 DEF OtherFolders, Regions
    <3>2. /\ <<"A", "E", "C">> \in Seq(Regions) /\ <<"I", "E", "C">> \in Seq(Regions)
          /\ <<"A", "I", "C", "A", "I", "E">> \in Seq(Regions) /\ <<"A", "I", "E">> \in Seq(Regions)
      BY DEF Regions
    <3> QED
      BY <3>1, <3>2, Zenon
  <2>3. Unneeded \subseteq {p \in files : p[1] \in Regions}
    BY DEF Unneeded, Regions
  <2> QED
    BY <2>2, <2>3 DEF TodoType, DeleteUnneeded, cardVars
<1>4. ListType' /\ ListOK' /\ CountOK'
  BY DEF TInv, ListType, ListOK, CountOK, DeleteUnneeded, cardVars, InstallEvents
<1>5. PlaceOK' /\ DataOK' /\ ModesOK' /\ DataType'
  BY DEF TInv, PlaceOK, DataOK, ModesOK, DataType, DeleteUnneeded, cardVars, InstallEvents, Installs, Removals
<1>6. CopiedOK'
  BY DEF TInv, CopiedOK, DeleteUnneeded, cardVars, Whole
<1> QED
  BY <1>1, <1>2, <1>3, <1>4, <1>5, <1>6 DEF TInv

LEMMA ListFolderTInv == TInv /\ ListFolder => TInv'
<1> SUFFICES ASSUME TInv, ListFolder PROVE TInv'
  OBVIOUS
<1>1. ConsoleType' /\ HistoryType'
  BY BoundAssumption DEF TInv, ConsoleType, HistoryType, ListFolder, cardVars, NoFault, Fault
<1>2. CardType' /\ TodoType' /\ CnfKept'
  BY DEF TInv, CardType, TodoType, CnfKept, PlaceOK, ModesOK, ListFolder, cardVars, NoFault, Fault
<1>3. ListType' /\ ListOK' /\ CountOK'
  BY DEF TInv, ListType, ListOK, CountOK, ListFolder, cardVars, NoFault, Fault, InstallEvents
<1>4. PlaceOK' /\ DataOK' /\ ModesOK' /\ DataType'
  BY DEF TInv, PlaceOK, DataOK, ModesOK, DataType, ListFolder, cardVars, NoFault, Fault, InstallEvents, Installs,
         Removals
<1>5. CopiedOK'
  BY DEF TInv, CopiedOK, ListFolder, cardVars, NoFault, Fault, Whole
<1> QED
  BY <1>1, <1>2, <1>3, <1>4, <1>5 DEF TInv

LEMMA DeleteFileTInv == TInv /\ DeleteFile => TInv'
<1> SUFFICES ASSUME TInv, DeleteFile PROVE TInv'
  OBVIOUS
<1>1. ConsoleType' /\ HistoryType'
  BY BoundAssumption DEF TInv, ConsoleType, HistoryType, DeleteFile, NoFault, Fault, McDelete, Freed
<1>2. CardType' /\ TodoType' /\ CnfKept'
  BY DEF TInv, CardType, TodoType, CnfKept, PlaceOK, ModesOK, DeleteFile, NoFault, Fault, McDelete, Freed, Cnf,
         Regions
<1>3. ListType' /\ ListOK' /\ CountOK'
  BY DEF TInv, ListType, ListOK, CountOK, DeleteFile, NoFault, Fault, McDelete, Freed, InstallEvents
<1>4. PlaceOK' /\ DataOK' /\ ModesOK' /\ DataType'
  BY DEF TInv, PlaceOK, DataOK, ModesOK, DataType, DeleteFile, NoFault, Fault, McDelete, Freed, InstallEvents,
         Installs, Removals
<1>5. CopiedOK'
  BY DEF TInv, CopiedOK, DeleteFile, NoFault, Fault, McDelete, Freed, Whole
<1> QED
  BY <1>1, <1>2, <1>3, <1>4, <1>5 DEF TInv

LEMMA EndCleanupTInv == TInv /\ EndCleanup => TInv'
<1> SUFFICES ASSUME TInv, EndCleanup PROVE TInv'
  OBVIOUS
<1>1. ConsoleType' /\ HistoryType'
  BY BoundAssumption DEF TInv, ConsoleType, HistoryType, EndCleanup, cardVars, Show
<1>2. CardType' /\ TodoType' /\ CnfKept'
  BY DEF TInv, CardType, TodoType, CnfKept, PlaceOK, ModesOK, EndCleanup, cardVars, Show
<1>3. ListType' /\ ListOK' /\ CountOK'
  BY DEF TInv, ListType, ListOK, CountOK, EndCleanup, cardVars, Show, InstallEvents
<1>4. PlaceOK' /\ DataOK' /\ ModesOK' /\ DataType'
  BY DEF TInv, PlaceOK, DataOK, ModesOK, DataType, EndCleanup, cardVars, Show, InstallEvents, Installs, Removals
<1>5. CopiedOK'
  BY DEF TInv, CopiedOK, EndCleanup, cardVars, Show, Whole
<1> QED
  BY <1>1, <1>2, <1>3, <1>4, <1>5 DEF TInv

LEMMA InitTInv == Init => TInv
<1> SUFFICES ASSUME Init PROVE TInv
  OBVIOUS
<1>1. CardType
  <2>1. PICK card \in Cards : files = card.files /\ shared = card.shared /\ uninst = card.uninst /\ legacy = card.legacy
    BY DEF Init
  <2> QED
    BY <2>1, CardsType DEF CardType, Init
<1>2. ListType /\ TodoType
  BY DEF Init, ListType, TodoType
<1>3. ConsoleType /\ DataType /\ PlaceOK /\ DataOK /\ ModesOK
  BY DEF Init, ConsoleType, DataType, PlaceOK, DataOK, ModesOK, Installs, Removals, InstallEvents
<1>4. HistoryType /\ CnfKept /\ ListOK /\ CopiedOK /\ CountOK
  BY BoundAssumption DEF Init, HistoryType, CnfKept, ListOK, CopiedOK, CountOK, InstallEvents
<1> QED
  BY <1>1, <1>2, <1>3, <1>4 DEF TInv

LEMMA NextTInv == TInv /\ [Next]_vars => TInv'
<1> SUFFICES ASSUME TInv, [Next]_vars PROVE TInv'
  OBVIOUS
<1>1. CASE UNCHANGED vars
  BY <1>1 DEF TInv, CardType, ConsoleType, HistoryType, ListType, TodoType, DataType, PlaceOK, DataOK, ModesOK, CnfKept,
         ListOK, CopiedOK, Whole, CountOK, vars, cardVars, opVars
<1>2. CASE Poll \/ Refuse \/ BeginInstall \/ BeginCleanup \/ BeginCleanupMulti \/ Format \/ Dump \/ Restore
  BY <1>2, PollTInv, RefuseTInv, BeginInstallTInv, BeginCleanupTInv, BeginCleanupMultiTInv, FormatTInv, DumpTInv, RestoreTInv
<1>3. CASE Dismiss \/ MoveCard \/ Reset
  BY <1>3, DismissTInv, MoveCardTInv, ResetTInv
<1>4. CASE GetAllBaseFileStats \/ AddDirContents \/ CheckSpace \/ CreateBasicFolders \/ CopyFile \/ EndCopy
  BY <1>4, GetAllBaseFileStatsTInv, AddDirContentsTInv, CheckSpaceTInv, CreateBasicFoldersTInv, CopyFileTInv, EndCopyTInv
<1>5. CASE GenerateUninstallFile \/ CreateCrossLinkedFiles
  BY <1>5, GenerateUninstallFileTInv, CreateCrossLinkedFilesTInv
<1>6. CASE ReadUninstallFile \/ DeleteUninstallFile \/ DeleteCrossLinkedFiles \/ DeleteUnneeded
  BY <1>6, ReadUninstallFileTInv, DeleteUninstallFileTInv, DeleteCrossLinkedFilesTInv, DeleteUnneededTInv
<1>7. CASE ListFolder \/ DeleteFile \/ EndCleanup
  BY <1>7, ListFolderTInv, DeleteFileTInv, EndCleanupTInv
<1> QED
  BY <1>1, <1>2, <1>3, <1>4, <1>5, <1>6, <1>7 DEF Next

LEMMA TInvImplies == TInv => TypeOK /\ ListCovered
<1> SUFFICES ASSUME TInv PROVE TypeOK /\ ListCovered
  OBVIOUS
<1>1. ListCovered
  BY DEF TInv, CountOK, ListCovered
<1>2. \A file \in {uninst, legacy} \ {NoFile} :
        /\ file.by \in Consoles /\ file.readable \in BOOLEAN /\ (file.version = 0 <=> file = legacy)
        /\ Named(file) \subseteq Paths
  BY AliasesArePaths DEF TInv, CardType, FileOK
<1>3. data # NoFile => data.by \in Consoles /\ data.names \subseteq Paths
  BY AliasesArePaths DEF TInv, DataType
<1>4. ToSet(FileCopyList) \subseteq Paths /\ ToSet(folders) \subseteq Regions
  BY ToSetOf DEF TInv, ListType, TodoType
<1>5. /\ files \subseteq Paths /\ shared \subseteq files /\ lost \subseteq files
      /\ console \in Consoles /\ hasMulti \in BOOLEAN /\ blind \in BOOLEAN
      /\ NumFiles \in Nat /\ n \in 1 .. Len(FileCopyList) + 1
      /\ todo \subseteq files /\ result \in {"none", "complete", "failed"}
      /\ faults \in Nat /\ resets \in Nat /\ faults + resets <= MaxTroubles
  BY DEF TInv, CardType, ConsoleType, ListType, TodoType, PlaceOK, HistoryType
<1> QED
  BY <1>1, <1>2, <1>3, <1>4, <1>5 DEF TypeOK

(* The types, and what goes with the place of the program, whatever has failed or been reset. *)
THEOREM TInvAlways == Spec => []TInv
  BY InitTInv, NextTInv, PTL DEF Spec

(* Whatever has failed or been reset: the state has its type, what shares clusters is on the card, and what is still to
   be deleted or copied is on the card or in the package. *)
THEOREM TypesAreRight == Spec => []TypeOK
  BY TInvAlways, TInvImplies, PTL

(* For every package, console and choice of the user: the list is filled with as many entries as have been counted
   from the flags, so that it never runs over. *)
THEOREM ListIsCovered == Spec => []ListCovered
  BY TInvAlways, TInvImplies, PTL

-----------------------------------------------------------------------------
(* What holds as long as no step has failed *)

File == IF uninst # NoFile THEN uninst ELSE legacy
Skip == "SKIP_CLEANUP" \in flags

(* There is one uninstallation file at most, of a card with a whole installation of the console it is by. *)
OneFile ==
  HasOldMultiInstall =>
    /\ NoFile \in {uninst, legacy}
    /\ File.readable /\ File.by.type = "PS2" /\ Named(File) \subseteq AliasesOf(File.by)
    /\ shared \subseteq Named(File) \cup {Own(File.by)}
    /\ Wanted(File.by, {}) \subseteq files

(* The places at which there is none. *)
NoFileAt ==
  \/ pc \in {"unlink", "extra", "cleanup", "uninst"}
  \/ pc \in {"stats", "list", "folders", "copy"} /\ ~Skip
  => ~HasOldMultiInstall

(* The removal of a multi-installation has read the file... *)
ReadOK ==
  pc = "delete_uninst" =>
    HasOldMultiInstall /\ data.by = File.by /\ data.names = Named(File) /\ data.version = File.version

(* ...and takes what it names off the card, of what shares clusters all but the executable. *)
UnlinkedOK ==
  /\ pc = "unlink" => shared \subseteq data.names \cup {Own(data.by)}
  /\ pc = "extra" \/ (pc = "cleanup" /\ event = "CLEANUP_MULTI") => shared \subseteq {Own(data.by)}
  /\ pc \in {"unlink", "extra"} => data.by.type = "PS2" /\ Wanted(data.by, {}) \subseteq files

(* The list of the console that made it stays out of what is still to be deleted. *)
KeptOK ==
  pc = "cleanup" /\ event = "CLEANUP_MULTI" /\ console = data.by /\ console.region # "E" =>
    /\ Wanted(console, {}) \subseteq files \ todo
    /\ console.region \notin ToSet(folders)

(* A cleanup forgets no file... *)
Spared == {"CONF", "PKG"} \cup (IF event = "CLEANUP_MULTI" THEN {data.by.region} ELSE {})
CleanOK == pc = "cleanup" => \A p \in files : p[1] \in Spared \/ p \in todo \/ p[1] \in ToSet(folders)

(* ...so that an installation is to a card with no file that shares clusters, until it makes them. *)
CleanedOK ==
  /\ pc \in {"folders", "copy", "uninst", "link"} /\ ~Skip => shared = {} /\ lost = {}
  /\ pc = "link" => uninst # NoFile /\ uninst.by = console /\ Named(uninst) = AliasesOf(console)

(* Clusters are lost only by a cleanup of what a removal has left that has been reset. *)
LostOK ==
  lost # {} =>
    /\ ~HasOldMultiInstall /\ resets > 0 /\ (resets = 1 => pc = "cleanup")
    /\ pc \notin {"unlink", "extra"} /\ (pc = "cleanup" => event # "CLEANUP_MULTI")

(* Without a reset, the names in the file are those that share clusters. *)
SharedOK ==
  resets = 0 => /\ ~HasOldMultiInstall /\ pc # "unlink" => \A p, q \in shared : p = q
                /\ HasOldMultiInstall /\ pc # "link" => shared = Named(File) \cup {Own(File.by)}

(* What a removal has left. *)
ExactOK ==
  pc = "shown" /\ event = "CLEANUP_MULTI" /\ result = "complete" /\ data # NoFile =>
    /\ \A p \in files : p[1] \in {data.by.region, "CONF", "PKG"}
    /\ console = data.by /\ console.region # "E" => Wanted(console, {}) \subseteq files

Sound == /\ ~blind /\ OneFile /\ NoFileAt /\ ReadOK /\ UnlinkedOK /\ KeptOK /\ CleanOK /\ CleanedOK
         /\ LostOK /\ SharedOK /\ ExactOK
SInv == faults = 0 => Sound

(* A card that is put in, or restored. *)
LEMMA CardsSound ==
  ASSUME NEW card \in Cards, NEW file, file = IF card.uninst # NoFile THEN card.uninst ELSE card.legacy
  PROVE  /\ file = NoFile => card.uninst = NoFile /\ card.legacy = NoFile /\ \A p, q \in card.shared : p = q
         /\ file # NoFile => /\ NoFile \in {card.uninst, card.legacy}
                             /\ file.readable /\ file.by.type = "PS2" /\ Named(file) \subseteq AliasesOf(file.by)
                             /\ card.shared = Named(file) \cup {Own(file.by)}
                             /\ Wanted(file.by, {}) \subseteq card.files
<1>1. /\ Recorded(card)
      /\ \A f \in {card.uninst, card.legacy} \ {NoFile} :
           f.by \in Consoles /\ ToSet(List(f.by, {})) \subseteq card.files
  BY CardsAssumption
<1>2. /\ file = NoFile => \A p, q \in card.shared : p = q
      /\ file # NoFile => /\ NoFile \in {card.uninst, card.legacy}
                          /\ file.readable /\ file.by.type = "PS2" /\ Named(file) \subseteq AliasesOf(file.by)
                          /\ card.shared = Named(file) \cup {Own(file.by)}
  BY <1>1, Zenon DEF Recorded
<1>3. file # NoFile => Wanted(file.by, {}) \subseteq card.files
  <2>1. file # NoFile => file \in {card.uninst, card.legacy} \ {NoFile}
    OBVIOUS
  <2> QED
    BY <1>1, <2>1, ListOf
<1> QED
  BY <1>2, <1>3

(* What an installation has put on the card, with the configuration that was there. *)
LEMMA CnfWanted == ASSUME NEW c, NEW fl, "SKIP_CNF" \notin fl PROVE Cnf \in Wanted(c, fl)
  BY DEF Wanted, BaseSet

(* The folders that are left after a removal, and those that are not. *)
LEMMA Others ==
  ASSUME NEW letter \in Regions
  PROVE  ToSet(OtherFolders(letter)) \cup {letter} = Regions /\ (letter # "E" => letter \notin ToSet(OtherFolders(letter)))
<1>1. \/ letter = "I" /\ OtherFolders(letter) = <<"A", "E", "C">>
      \/ letter = "A" /\ OtherFolders(letter) = <<"I", "E", "C">>
      \/ letter = "E" /\ OtherFolders(letter) = <<"A", "I", "C", "A", "I", "E">>
      \/ letter = "C" /\ OtherFolders(letter) = <<"A", "I", "E">>
  BY DEF OtherFolders, Regions
<1>2. /\ ToSet(<<"A", "E", "C">>) = {"A", "E", "C"} /\ ToSet(<<"I", "E", "C">>) = {"I", "E", "C"}
      /\ ToSet(<<"A", "I", "C", "A", "I", "E">>) = {"A", "I", "C", "E"} /\ ToSet(<<"A", "I", "E">>) = {"A", "I", "E"}
  <2>1. ToSet(<<"A", "E", "C">>) = {"A", "E", "C"}
    BY DEF ToSet
  <2>2. ToSet(<<"I", "E", "C">>) = {"I", "E", "C"}
    BY DEF ToSet
  <2>3. ToSet(<<"A", "I", "C", "A", "I", "E">>) = {"A", "I", "C", "E"}
    BY DEF ToSet
  <2>4. ToSet(<<"A", "I", "E">>) = {"A", "I", "E"}
    BY DEF ToSet
  <2> QED
    BY <2>1, <2>2, <2>3, <2>4
<1> QED
  BY <1>1, <1>2 DEF Regions

LEMMA AllFolders == ToSet(CleanupFolders) = Regions
  BY DEF CleanupFolders, Regions, ToSet

-----------------------------------------------------------------------------

LEMMA PollSInv == TInv /\ SInv /\ IInv' /\ Poll => SInv'
<1> SUFFICES ASSUME TInv, SInv, IInv', Poll, faults' = 0 PROVE Sound'
  BY DEF SInv
<1>1. Sound /\ faults = 0 /\ UNCHANGED faults
  BY DEF SInv, TInv, HistoryType, Poll, cardVars, opVars, NoFault, Fault
<1>2. OneFile' /\ LostOK' /\ SharedOK'
  BY <1>1 DEF TInv, PlaceOK, DataOK, ModesOK, Installs, Removals, InstallEvents, Sound, OneFile, LostOK, SharedOK,
         Poll, cardVars, opVars, NoFault, Fault, HasOldMultiInstall, File
<1>3. NoFileAt' /\ ReadOK' /\ UnlinkedOK'
  BY <1>1 DEF TInv, PlaceOK, DataOK, ModesOK, Installs, Removals, InstallEvents, Sound, NoFileAt, ReadOK, UnlinkedOK,
         Poll, cardVars, opVars, NoFault, Fault, HasOldMultiInstall, File, Skip, IInv, PassedOK, CleanedWithoutLinks
<1>4. KeptOK' /\ CleanOK' /\ CleanedOK' /\ ExactOK'
  BY <1>1 DEF TInv, PlaceOK, DataOK, ModesOK, Installs, Removals, InstallEvents, Sound, KeptOK, CleanOK, CleanedOK,
         ExactOK, Poll, cardVars, opVars, NoFault, Fault, HasOldMultiInstall, Skip, Spared
<1>5. ~blind'
  BY <1>1 DEF Sound, Poll, cardVars, opVars, NoFault, Fault
<1> QED
  BY <1>2, <1>3, <1>4, <1>5 DEF Sound

LEMMA RefuseSInv == TInv /\ SInv /\ IInv' /\ Refuse => SInv'
<1> SUFFICES ASSUME TInv, SInv, IInv', Refuse, faults' = 0 PROVE Sound'
  BY DEF SInv
<1>1. Sound /\ faults = 0 /\ UNCHANGED faults
  BY DEF SInv, TInv, HistoryType, Refuse, cardVars, opVars
<1>2. OneFile' /\ LostOK' /\ SharedOK'
  BY <1>1 DEF TInv, PlaceOK, DataOK, ModesOK, Installs, Removals, InstallEvents, Sound, OneFile, LostOK, SharedOK,
         Refuse, cardVars, opVars, HasOldMultiInstall, File
<1>3. NoFileAt' /\ ReadOK' /\ UnlinkedOK'
  BY <1>1 DEF TInv, PlaceOK, DataOK, ModesOK, Installs, Removals, InstallEvents, Sound, NoFileAt, ReadOK, UnlinkedOK,
         Refuse, cardVars, opVars, HasOldMultiInstall, File, Skip, IInv, PassedOK, CleanedWithoutLinks
<1>4. KeptOK' /\ CleanOK' /\ CleanedOK' /\ ExactOK'
  BY <1>1 DEF TInv, PlaceOK, DataOK, ModesOK, Installs, Removals, InstallEvents, Sound, KeptOK, CleanOK, CleanedOK,
         ExactOK, Refuse, cardVars, opVars, HasOldMultiInstall, Skip, Spared
<1>5. ~blind'
  BY <1>1 DEF Sound, Refuse, cardVars, opVars
<1> QED
  BY <1>2, <1>3, <1>4, <1>5 DEF Sound

LEMMA BeginInstallSInv == TInv /\ SInv /\ IInv' /\ BeginInstall => SInv'
<1> SUFFICES ASSUME TInv, SInv, IInv', BeginInstall, faults' = 0 PROVE Sound'
  BY DEF SInv
<1>1. Sound /\ faults = 0 /\ UNCHANGED faults
  BY DEF SInv, TInv, HistoryType, BeginInstall, cardVars
<1>2. OneFile' /\ LostOK' /\ SharedOK'
  BY <1>1 DEF TInv, PlaceOK, DataOK, ModesOK, Installs, Removals, InstallEvents, Sound, OneFile, LostOK, SharedOK,
         BeginInstall, cardVars, HasOldMultiInstall, File
<1>3. NoFileAt' /\ ReadOK' /\ UnlinkedOK'
  BY <1>1 DEF TInv, PlaceOK, DataOK, ModesOK, Installs, Removals, InstallEvents, Sound, NoFileAt, ReadOK, UnlinkedOK,
         BeginInstall, cardVars, HasOldMultiInstall, File, Skip, IInv, PassedOK, CleanedWithoutLinks
<1>4. KeptOK' /\ CleanOK' /\ CleanedOK' /\ ExactOK'
  BY <1>1 DEF TInv, PlaceOK, DataOK, ModesOK, Installs, Removals, InstallEvents, Sound, KeptOK, CleanOK, CleanedOK,
         ExactOK, BeginInstall, cardVars, HasOldMultiInstall, Skip, Spared
<1>5. ~blind'
  BY <1>1 DEF Sound, BeginInstall, cardVars
<1> QED
  BY <1>2, <1>3, <1>4, <1>5 DEF Sound

LEMMA BeginCleanupSInv == TInv /\ SInv /\ IInv' /\ BeginCleanup => SInv'
<1> SUFFICES ASSUME TInv, SInv, IInv', BeginCleanup, faults' = 0 PROVE Sound'
  BY DEF SInv
<1>1. Sound /\ faults = 0 /\ UNCHANGED faults
  BY DEF SInv, TInv, HistoryType, BeginCleanup, cardVars
<1>2. OneFile' /\ LostOK' /\ SharedOK'
  BY <1>1 DEF TInv, PlaceOK, DataOK, ModesOK, Installs, Removals, InstallEvents, Sound, OneFile, LostOK, SharedOK,
         BeginCleanup, cardVars, HasOldMultiInstall, File
<1>3. NoFileAt' /\ ReadOK' /\ UnlinkedOK'
  BY <1>1 DEF TInv, PlaceOK, DataOK, ModesOK, Installs, Removals, InstallEvents, Sound, NoFileAt, ReadOK, UnlinkedOK,
         BeginCleanup, cardVars, HasOldMultiInstall, File, Skip, IInv, PassedOK, CleanedWithoutLinks
<1>4. KeptOK' /\ CleanedOK' /\ ExactOK'
  BY <1>1 DEF TInv, PlaceOK, DataOK, ModesOK, Installs, Removals, InstallEvents, Sound, KeptOK, CleanedOK, ExactOK,
         BeginCleanup, cardVars, HasOldMultiInstall, Skip
<1>5. CleanOK'
  <2>1. pc' = "cleanup" /\ files' = files /\ folders' = CleanupFolders /\ files \subseteq Paths
    BY DEF BeginCleanup, cardVars, TInv, CardType
  <2>2. \A p \in files : p[1] \in {"CONF", "PKG"} \/ p[1] \in ToSet(CleanupFolders)
    BY <2>1, FoldersOfPaths, AllFolders
  <2> QED
    BY <2>1, <2>2 DEF CleanOK, Spared
<1>6. ~blind'
  BY <1>1 DEF Sound, BeginCleanup, cardVars
<1> QED
  BY <1>2, <1>3, <1>4, <1>5, <1>6 DEF Sound

LEMMA BeginCleanupMultiSInv == TInv /\ SInv /\ IInv' /\ BeginCleanupMulti => SInv'
<1> SUFFICES ASSUME TInv, SInv, IInv', BeginCleanupMulti, faults' = 0 PROVE Sound'
  BY DEF SInv
<1>1. Sound /\ faults = 0 /\ UNCHANGED faults
  BY DEF SInv, TInv, HistoryType, BeginCleanupMulti, cardVars, NoFault, Fault
<1>2. OneFile' /\ LostOK' /\ SharedOK'
  BY <1>1 DEF TInv, PlaceOK, DataOK, ModesOK, Installs, Removals, InstallEvents, Sound, OneFile, LostOK, SharedOK,
         BeginCleanupMulti, cardVars, NoFault, Fault, HasOldMultiInstall, File
<1>3. NoFileAt' /\ ReadOK' /\ UnlinkedOK'
  BY <1>1 DEF TInv, PlaceOK, DataOK, ModesOK, Installs, Removals, InstallEvents, Sound, NoFileAt, ReadOK, UnlinkedOK,
         BeginCleanupMulti, cardVars, NoFault, Fault, HasOldMultiInstall, File, Skip, IInv, PassedOK,
         CleanedWithoutLinks
<1>4. KeptOK' /\ CleanOK' /\ CleanedOK' /\ ExactOK'
  BY <1>1 DEF TInv, PlaceOK, DataOK, ModesOK, Installs, Removals, InstallEvents, Sound, KeptOK, CleanOK, CleanedOK,
         ExactOK, BeginCleanupMulti, cardVars, NoFault, Fault, HasOldMultiInstall, Skip, Spared
<1>5. ~blind'
  BY <1>1 DEF Sound, BeginCleanupMulti, cardVars, NoFault, Fault
<1> QED
  BY <1>2, <1>3, <1>4, <1>5 DEF Sound

LEMMA FormatSInv == TInv /\ SInv /\ IInv' /\ Format => SInv'
<1> SUFFICES ASSUME TInv, SInv, IInv', Format, faults' = 0 PROVE Sound'
  BY DEF SInv
<1>1. Sound /\ faults = 0 /\ UNCHANGED faults
  BY DEF SInv, TInv, HistoryType, Format, cardVars, NoFault, Fault
<1>2. OneFile' /\ LostOK' /\ SharedOK'
  BY <1>1 DEF TInv, PlaceOK, DataOK, ModesOK, Installs, Removals, InstallEvents, Sound, OneFile, LostOK, SharedOK,
         Format, cardVars, NoFault, Fault, HasOldMultiInstall, File
<1>3. NoFileAt' /\ ReadOK' /\ UnlinkedOK'
  BY <1>1 DEF TInv, PlaceOK, DataOK, ModesOK, Installs, Removals, InstallEvents, Sound, NoFileAt, ReadOK, UnlinkedOK,
         Format, cardVars, NoFault, Fault, HasOldMultiInstall, File, Skip, IInv, PassedOK, CleanedWithoutLinks
<1>4. KeptOK' /\ CleanOK' /\ CleanedOK' /\ ExactOK'
  BY <1>1 DEF TInv, PlaceOK, DataOK, ModesOK, Installs, Removals, InstallEvents, Sound, KeptOK, CleanOK, CleanedOK,
         ExactOK, Format, cardVars, NoFault, Fault, HasOldMultiInstall, Skip, Spared
<1>5. ~blind'
  BY <1>1 DEF Sound, Format, cardVars, NoFault, Fault
<1> QED
  BY <1>2, <1>3, <1>4, <1>5 DEF Sound

LEMMA DumpSInv == TInv /\ SInv /\ IInv' /\ Dump => SInv'
<1> SUFFICES ASSUME TInv, SInv, IInv', Dump, faults' = 0 PROVE Sound'
  BY DEF SInv
<1>1. Sound /\ faults = 0 /\ UNCHANGED faults
  BY DEF SInv, TInv, HistoryType, Dump, cardVars, NoFault, Fault
<1>2. OneFile' /\ LostOK' /\ SharedOK'
  BY <1>1 DEF TInv, PlaceOK, DataOK, ModesOK, Installs, Removals, InstallEvents, Sound, OneFile, LostOK, SharedOK,
         Dump, cardVars, NoFault, Fault, HasOldMultiInstall, File
<1>3. NoFileAt' /\ ReadOK' /\ UnlinkedOK'
  BY <1>1 DEF TInv, PlaceOK, DataOK, ModesOK, Installs, Removals, InstallEvents, Sound, NoFileAt, ReadOK, UnlinkedOK,
         Dump, cardVars, NoFault, Fault, HasOldMultiInstall, File, Skip, IInv, PassedOK, CleanedWithoutLinks
<1>4. KeptOK' /\ CleanOK' /\ CleanedOK' /\ ExactOK'
  BY <1>1 DEF TInv, PlaceOK, DataOK, ModesOK, Installs, Removals, InstallEvents, Sound, KeptOK, CleanOK, CleanedOK,
         ExactOK, Dump, cardVars, NoFault, Fault, HasOldMultiInstall, Skip, Spared
<1>5. ~blind'
  BY <1>1 DEF Sound, Dump, cardVars, NoFault, Fault
<1> QED
  BY <1>2, <1>3, <1>4, <1>5 DEF Sound

LEMMA RestoreSInv == TInv /\ SInv /\ IInv' /\ Restore => SInv'
<1> SUFFICES ASSUME TInv, SInv, IInv', Restore, faults' = 0 PROVE Sound'
  BY DEF SInv
<1>1. Sound /\ faults = 0 /\ UNCHANGED faults
  BY DEF SInv, TInv, HistoryType, Restore, cardVars, NoFault, Fault
<1>a. PICK card \in Cards : /\ files' = card.files /\ shared' = card.shared
                            /\ uninst' = card.uninst /\ legacy' = card.legacy
  BY <1>1 DEF Restore, Fault, TInv, HistoryType
<1>b. /\ (~HasOldMultiInstall)' => \A p, q \in shared' : p = q
      /\ HasOldMultiInstall' => /\ NoFile \in {uninst', legacy'}
                                /\ File'.readable /\ File'.by.type = "PS2" /\ Named(File') \subseteq AliasesOf(File'.by)
                                /\ shared' = Named(File') \cup {Own(File'.by)}
                                /\ Wanted(File'.by, {}) \subseteq files'
  <2>1. File' = (IF card.uninst # NoFile THEN card.uninst ELSE card.legacy)
    BY <1>a DEF File
  <2>2. HasOldMultiInstall' <=> File' # NoFile
    BY <1>a, <2>1 DEF HasOldMultiInstall
  <2> QED
    BY <1>a, <2>1, <2>2, CardsSound
<1>2. LostOK'
  BY <1>1 DEF TInv, PlaceOK, DataOK, ModesOK, Installs, Removals, InstallEvents, Sound, LostOK, Restore, cardVars,
         NoFault, Fault, HasOldMultiInstall
<1>3. OneFile'
  BY <1>b DEF OneFile
<1>4. SharedOK'
  BY <1>b DEF SharedOK
<1>5. NoFileAt' /\ ReadOK' /\ UnlinkedOK'
  BY <1>1 DEF TInv, PlaceOK, DataOK, ModesOK, Installs, Removals, InstallEvents, Sound, NoFileAt, ReadOK, UnlinkedOK,
         Restore, cardVars, NoFault, Fault, HasOldMultiInstall, File, Skip, IInv, PassedOK, CleanedWithoutLinks
<1>6. KeptOK' /\ CleanOK' /\ CleanedOK' /\ ExactOK'
  BY <1>1 DEF TInv, PlaceOK, DataOK, ModesOK, Installs, Removals, InstallEvents, Sound, KeptOK, CleanOK, CleanedOK,
         ExactOK, Restore, cardVars, NoFault, Fault, HasOldMultiInstall, Skip, Spared
<1>7. ~blind'
  BY <1>1 DEF Sound, Restore, cardVars, NoFault, Fault
<1> QED
  BY <1>2, <1>3, <1>4, <1>5, <1>6, <1>7 DEF Sound

LEMMA DismissSInv == TInv /\ SInv /\ IInv' /\ Dismiss => SInv'
<1> SUFFICES ASSUME TInv, SInv, IInv', Dismiss, faults' = 0 PROVE Sound'
  BY DEF SInv
<1>1. Sound /\ faults = 0 /\ UNCHANGED faults
  BY DEF SInv, TInv, HistoryType, Dismiss, Idle, cardVars
<1>2. OneFile' /\ LostOK' /\ SharedOK'
  BY <1>1 DEF TInv, PlaceOK, DataOK, ModesOK, Installs, Removals, InstallEvents, Sound, OneFile, LostOK, SharedOK,
         Dismiss, Idle, cardVars, HasOldMultiInstall, File
<1>3. NoFileAt' /\ ReadOK' /\ UnlinkedOK'
  BY <1>1 DEF TInv, PlaceOK, DataOK, ModesOK, Installs, Removals, InstallEvents, Sound, NoFileAt, ReadOK, UnlinkedOK,
         Dismiss, Idle, cardVars, HasOldMultiInstall, File, Skip, IInv, PassedOK, CleanedWithoutLinks
<1>4. KeptOK' /\ CleanOK' /\ CleanedOK' /\ ExactOK'
  BY <1>1 DEF TInv, PlaceOK, DataOK, ModesOK, Installs, Removals, InstallEvents, Sound, KeptOK, CleanOK, CleanedOK,
         ExactOK, Dismiss, Idle, cardVars, HasOldMultiInstall, Skip, Spared
<1>5. ~blind'
  BY <1>1 DEF Sound, Dismiss, Idle, cardVars
<1> QED
  BY <1>2, <1>3, <1>4, <1>5 DEF Sound

LEMMA MoveCardSInv == TInv /\ SInv /\ IInv' /\ MoveCard => SInv'
<1> SUFFICES ASSUME TInv, SInv, IInv', MoveCard, faults' = 0 PROVE Sound'
  BY DEF SInv
<1>1. Sound /\ faults = 0 /\ UNCHANGED faults
  BY DEF SInv, TInv, HistoryType, MoveCard, Idle, cardVars
<1>2. OneFile' /\ LostOK' /\ SharedOK'
  BY <1>1 DEF TInv, PlaceOK, DataOK, ModesOK, Installs, Removals, InstallEvents, Sound, OneFile, LostOK, SharedOK,
         MoveCard, Idle, cardVars, HasOldMultiInstall, File
<1>3. NoFileAt' /\ ReadOK' /\ UnlinkedOK'
  BY <1>1 DEF TInv, PlaceOK, DataOK, ModesOK, Installs, Removals, InstallEvents, Sound, NoFileAt, ReadOK, UnlinkedOK,
         MoveCard, Idle, cardVars, HasOldMultiInstall, File, Skip, IInv, PassedOK, CleanedWithoutLinks
<1>4. KeptOK' /\ CleanOK' /\ CleanedOK' /\ ExactOK'
  BY <1>1 DEF TInv, PlaceOK, DataOK, ModesOK, Installs, Removals, InstallEvents, Sound, KeptOK, CleanOK, CleanedOK,
         ExactOK, MoveCard, Idle, cardVars, HasOldMultiInstall, Skip, Spared
<1>5. ~blind'
  BY <1>1 DEF Sound, MoveCard, Idle, cardVars
<1> QED
  BY <1>2, <1>3, <1>4, <1>5 DEF Sound

LEMMA ResetSInv == TInv /\ SInv /\ IInv' /\ Reset => SInv'
<1> SUFFICES ASSUME TInv, SInv, IInv', Reset, faults' = 0 PROVE Sound'
  BY DEF SInv
<1>1. Sound /\ faults = 0 /\ UNCHANGED faults
  BY DEF SInv, TInv, HistoryType, Reset, Idle, cardVars
<1>2. OneFile'
  BY <1>1 DEF TInv, PlaceOK, DataOK, ModesOK, Installs, Removals, InstallEvents, Sound, OneFile, Reset, Idle,
         cardVars, HasOldMultiInstall, File
<1>3. LostOK'
  <2>1. UNCHANGED <<lost, uninst, legacy>> /\ pc' = "menu" /\ resets' = resets + 1 /\ resets \in Nat
    BY DEF Reset, Idle, cardVars, TInv, HistoryType
  <2>2. lost # {} => resets > 0 /\ ~HasOldMultiInstall
    BY <1>1 DEF Sound, LostOK
  <2> QED
    BY <2>1, <2>2 DEF LostOK, HasOldMultiInstall
<1>4. SharedOK'
  <2>1. resets' = resets + 1 /\ resets \in Nat
    BY DEF Reset, TInv, HistoryType
  <2> QED
    BY <2>1 DEF SharedOK
<1>5. NoFileAt' /\ ReadOK' /\ UnlinkedOK'
  BY <1>1 DEF TInv, PlaceOK, DataOK, ModesOK, Installs, Removals, InstallEvents, Sound, NoFileAt, ReadOK, UnlinkedOK,
         Reset, Idle, cardVars, HasOldMultiInstall, File, Skip, IInv, PassedOK, CleanedWithoutLinks
<1>6. KeptOK' /\ CleanOK' /\ CleanedOK' /\ ExactOK'
  BY <1>1 DEF TInv, PlaceOK, DataOK, ModesOK, Installs, Removals, InstallEvents, Sound, KeptOK, CleanOK, CleanedOK,
         ExactOK, Reset, Idle, cardVars, HasOldMultiInstall, Skip, Spared
<1>7. ~blind'
  BY <1>1 DEF Sound, Reset, Idle, cardVars
<1> QED
  BY <1>2, <1>3, <1>4, <1>5, <1>6, <1>7 DEF Sound

LEMMA GetAllBaseFileStatsSInv == TInv /\ SInv /\ IInv' /\ GetAllBaseFileStats => SInv'
<1> SUFFICES ASSUME TInv, SInv, IInv', GetAllBaseFileStats, faults' = 0 PROVE Sound'
  BY DEF SInv
<1>1. Sound /\ faults = 0 /\ UNCHANGED faults
  BY DEF SInv, TInv, HistoryType, GetAllBaseFileStats, cardVars, NoFault, Fault, Show
<1>2. OneFile' /\ LostOK' /\ SharedOK'
  BY <1>1 DEF TInv, PlaceOK, DataOK, ModesOK, Installs, Removals, InstallEvents, Sound, OneFile, LostOK, SharedOK,
         GetAllBaseFileStats, cardVars, NoFault, Fault, Show, HasOldMultiInstall, File
<1>3. NoFileAt' /\ ReadOK' /\ UnlinkedOK'
  BY <1>1 DEF TInv, PlaceOK, DataOK, ModesOK, Installs, Removals, InstallEvents, Sound, NoFileAt, ReadOK, UnlinkedOK,
         GetAllBaseFileStats, cardVars, NoFault, Fault, Show, HasOldMultiInstall, File, Skip, IInv, PassedOK,
         CleanedWithoutLinks
<1>4. KeptOK' /\ CleanOK' /\ CleanedOK' /\ ExactOK'
  BY <1>1 DEF TInv, PlaceOK, DataOK, ModesOK, Installs, Removals, InstallEvents, Sound, KeptOK, CleanOK, CleanedOK,
         ExactOK, GetAllBaseFileStats, cardVars, NoFault, Fault, Show, HasOldMultiInstall, Skip, Spared
<1>5. ~blind'
  BY <1>1 DEF Sound, GetAllBaseFileStats, cardVars, NoFault, Fault, Show
<1> QED
  BY <1>2, <1>3, <1>4, <1>5 DEF Sound

LEMMA AddDirContentsSInv == TInv /\ SInv /\ IInv' /\ AddDirContents => SInv'
<1> SUFFICES ASSUME TInv, SInv, IInv', AddDirContents, faults' = 0 PROVE Sound'
  BY DEF SInv
<1>1. Sound /\ faults = 0 /\ UNCHANGED faults
  BY DEF SInv, TInv, HistoryType, AddDirContents, cardVars, NoFault, Fault, Show
<1>2. OneFile' /\ LostOK' /\ SharedOK'
  BY <1>1 DEF TInv, PlaceOK, DataOK, ModesOK, Installs, Removals, InstallEvents, Sound, OneFile, LostOK, SharedOK,
         AddDirContents, cardVars, NoFault, Fault, Show, HasOldMultiInstall, File
<1>3. NoFileAt' /\ ReadOK' /\ UnlinkedOK'
  BY <1>1 DEF TInv, PlaceOK, DataOK, ModesOK, Installs, Removals, InstallEvents, Sound, NoFileAt, ReadOK, UnlinkedOK,
         AddDirContents, cardVars, NoFault, Fault, Show, HasOldMultiInstall, File, Skip, IInv, PassedOK,
         CleanedWithoutLinks
<1>4. KeptOK' /\ CleanOK' /\ CleanedOK' /\ ExactOK'
  BY <1>1 DEF TInv, PlaceOK, DataOK, ModesOK, Installs, Removals, InstallEvents, Sound, KeptOK, CleanOK, CleanedOK,
         ExactOK, AddDirContents, cardVars, NoFault, Fault, Show, HasOldMultiInstall, Skip, Spared
<1>5. ~blind'
  BY <1>1 DEF Sound, AddDirContents, cardVars, NoFault, Fault, Show
<1> QED
  BY <1>2, <1>3, <1>4, <1>5 DEF Sound

LEMMA CheckSpaceSInv == TInv /\ SInv /\ IInv' /\ CheckSpace => SInv'
<1> SUFFICES ASSUME TInv, SInv, IInv', CheckSpace, faults' = 0 PROVE Sound'
  BY DEF SInv
<1>1. Sound /\ faults = 0 /\ UNCHANGED faults
  BY DEF SInv, TInv, HistoryType, CheckSpace, cardVars, Show
<1>2. OneFile' /\ LostOK' /\ SharedOK'
  BY <1>1 DEF TInv, PlaceOK, DataOK, ModesOK, Installs, Removals, InstallEvents, Sound, OneFile, LostOK, SharedOK,
         CheckSpace, cardVars, Show, HasOldMultiInstall, File
<1>3. NoFileAt' /\ ReadOK' /\ UnlinkedOK'
  BY <1>1 DEF TInv, PlaceOK, DataOK, ModesOK, Installs, Removals, InstallEvents, Sound, NoFileAt, ReadOK, UnlinkedOK,
         CheckSpace, cardVars, Show, HasOldMultiInstall, File, Skip, IInv, PassedOK, CleanedWithoutLinks
<1>4. KeptOK' /\ CleanedOK' /\ ExactOK'
  BY <1>1 DEF TInv, PlaceOK, DataOK, ModesOK, Installs, Removals, InstallEvents, Sound, KeptOK, CleanedOK, ExactOK,
         CheckSpace, cardVars, Show, HasOldMultiInstall, Skip
<1>5. CleanOK'
  <2>1. (pc' = "cleanup" => folders' = CleanupFolders) /\ files' = files /\ files \subseteq Paths
    BY DEF CheckSpace, Show, cardVars, TInv, CardType
  <2>2. \A p \in files : p[1] \in {"CONF", "PKG"} \/ p[1] \in ToSet(CleanupFolders)
    BY <2>1, FoldersOfPaths, AllFolders
  <2> QED
    BY <2>1, <2>2 DEF CleanOK, Spared
<1>6. ~blind'
  BY <1>1 DEF Sound, CheckSpace, cardVars, Show
<1> QED
  BY <1>2, <1>3, <1>4, <1>5, <1>6 DEF Sound

LEMMA CreateBasicFoldersSInv == TInv /\ SInv /\ IInv' /\ CreateBasicFolders => SInv'
<1> SUFFICES ASSUME TInv, SInv, IInv', CreateBasicFolders, faults' = 0 PROVE Sound'
  BY DEF SInv
<1>1. Sound /\ faults = 0 /\ UNCHANGED faults
  BY DEF SInv, TInv, HistoryType, CreateBasicFolders, cardVars, NoFault, Fault, Show
<1>2. OneFile' /\ LostOK' /\ SharedOK'
  BY <1>1 DEF TInv, PlaceOK, DataOK, ModesOK, Installs, Removals, InstallEvents, Sound, OneFile, LostOK, SharedOK,
         CreateBasicFolders, cardVars, NoFault, Fault, Show, HasOldMultiInstall, File
<1>3. NoFileAt' /\ ReadOK' /\ UnlinkedOK'
  BY <1>1 DEF TInv, PlaceOK, DataOK, ModesOK, Installs, Removals, InstallEvents, Sound, NoFileAt, ReadOK, UnlinkedOK,
         CreateBasicFolders, cardVars, NoFault, Fault, Show, HasOldMultiInstall, File, Skip, IInv, PassedOK,
         CleanedWithoutLinks
<1>4. KeptOK' /\ CleanOK' /\ CleanedOK' /\ ExactOK'
  BY <1>1 DEF TInv, PlaceOK, DataOK, ModesOK, Installs, Removals, InstallEvents, Sound, KeptOK, CleanOK, CleanedOK,
         ExactOK, CreateBasicFolders, cardVars, NoFault, Fault, Show, HasOldMultiInstall, Skip, Spared
<1>5. ~blind'
  BY <1>1 DEF Sound, CreateBasicFolders, cardVars, NoFault, Fault, Show
<1> QED
  BY <1>2, <1>3, <1>4, <1>5 DEF Sound

LEMMA CopyFileSInv == TInv /\ SInv /\ IInv' /\ CopyFile => SInv'
<1> SUFFICES ASSUME TInv, SInv, IInv', CopyFile, faults' = 0 PROVE Sound'
  BY DEF SInv
<1>1. Sound /\ faults = 0 /\ UNCHANGED faults
  BY DEF SInv, TInv, HistoryType, CopyFile, NoFault, Fault, Show, McWrite, Freed
<1> DEFINE p == FileCopyList[n]
<1>a. /\ files' = files \cup {p} /\ shared' = shared \ {p} /\ lost' = (lost \ {p}) \cup (IF p \in shared THEN shared \ {p} ELSE {})
      /\ pc = "copy" /\ pc' = "copy" /\ UNCHANGED <<uninst, legacy, resets>>
  BY <1>1 DEF CopyFile, McWrite, Freed, Fault, TInv, HistoryType
<1>b. shared' = shared /\ lost' = lost
  <2>1. CASE ~Skip
    <3>1. shared = {} /\ lost = {}
      BY <1>1, <1>a, <2>1 DEF Sound, CleanedOK
    <3> HIDE DEF p
    <3> QED
      BY <1>a, <3>1
  <2>2. CASE Skip
    <3>1. "CROSS_PSX" \in flags /\ event \in InstallEvents
      BY <1>a, <2>2 DEF Skip, TInv, ModesOK, PlaceOK, Installs
    <3>2. p \in ToSet(FileCopyList)
      BY DEF CopyFile, TInv, ListType, ToSet
    <3>3. p \in Wanted(console, flags) \cup ToSet(Contents)
      BY <3>1, <3>2 DEF TInv, ListOK
    <3>4. p \notin Aliases
      BY <3>1, <3>3, PSXPlain, FoldersOfPaths DEF TInv, ConsoleType
    <3>5. shared \subseteq Aliases /\ lost \subseteq Aliases
      BY DEF TInv, CardType
    <3> HIDE DEF p
    <3> QED
      BY <1>a, <3>4, <3>5
  <2> QED
    BY <2>1, <2>2
<1>2. OneFile'
  <2> HIDE DEF p
  <2> QED
    BY <1>1, <1>a, <1>b DEF Sound, OneFile, HasOldMultiInstall, File
<1>3. LostOK'
  <2> HIDE DEF p
  <2> QED
    BY <1>1, <1>a, <1>b DEF Sound, LostOK, HasOldMultiInstall
<1>4. SharedOK'
  <2> HIDE DEF p
  <2> QED
    BY <1>1, <1>a, <1>b DEF Sound, SharedOK, HasOldMultiInstall, File
<1>5. NoFileAt' /\ ReadOK' /\ UnlinkedOK'
  BY <1>1 DEF TInv, PlaceOK, DataOK, ModesOK, Installs, Removals, InstallEvents, Sound, NoFileAt, ReadOK, UnlinkedOK,
         CopyFile, NoFault, Fault, Show, McWrite, Freed, HasOldMultiInstall, File, Skip, IInv, PassedOK,
         CleanedWithoutLinks
<1>6. KeptOK' /\ CleanOK' /\ ExactOK'
  BY <1>1 DEF TInv, PlaceOK, DataOK, ModesOK, Installs, Removals, InstallEvents, Sound, KeptOK, CleanOK, ExactOK,
         CopyFile, NoFault, Fault, Show, McWrite, Freed, HasOldMultiInstall, Spared
<1>7. CleanedOK'
  <2> HIDE DEF p
  <2> QED
    BY <1>1, <1>a, <1>b DEF Sound, CleanedOK, Skip, CopyFile
<1>8. ~blind'
  BY <1>1 DEF Sound, CopyFile, NoFault, Fault, Show, McWrite, Freed
<1> QED
  BY <1>2, <1>3, <1>4, <1>5, <1>6, <1>7, <1>8 DEF Sound

LEMMA EndCopySInv == TInv /\ SInv /\ IInv' /\ EndCopy => SInv'
<1> SUFFICES ASSUME TInv, SInv, IInv', EndCopy, faults' = 0 PROVE Sound'
  BY DEF SInv
<1>1. Sound /\ faults = 0 /\ UNCHANGED faults
  BY DEF SInv, TInv, HistoryType, EndCopy, cardVars, Show
<1>2. OneFile' /\ LostOK' /\ SharedOK'
  BY <1>1 DEF TInv, PlaceOK, DataOK, ModesOK, Installs, Removals, InstallEvents, Sound, OneFile, LostOK, SharedOK,
         EndCopy, cardVars, Show, HasOldMultiInstall, File
<1>3. NoFileAt' /\ ReadOK' /\ UnlinkedOK'
  BY <1>1 DEF TInv, PlaceOK, DataOK, ModesOK, Installs, Removals, InstallEvents, Sound, NoFileAt, ReadOK, UnlinkedOK,
         EndCopy, cardVars, Show, HasOldMultiInstall, File, Skip, IInv, PassedOK, CleanedWithoutLinks
<1>4. KeptOK' /\ CleanOK' /\ CleanedOK' /\ ExactOK'
  BY <1>1 DEF TInv, PlaceOK, DataOK, ModesOK, Installs, Removals, InstallEvents, Sound, KeptOK, CleanOK, CleanedOK,
         ExactOK, EndCopy, cardVars, Show, HasOldMultiInstall, Skip, Spared
<1>5. ~blind'
  BY <1>1 DEF Sound, EndCopy, cardVars, Show
<1> QED
  BY <1>2, <1>3, <1>4, <1>5 DEF Sound

LEMMA GenerateUninstallFileSInv == TInv /\ SInv /\ IInv' /\ GenerateUninstallFile => SInv'
<1> SUFFICES ASSUME TInv, SInv, IInv', GenerateUninstallFile, faults' = 0 PROVE Sound'
  BY DEF SInv
<1>1. Sound /\ faults = 0 /\ UNCHANGED faults
  BY DEF SInv, TInv, HistoryType, GenerateUninstallFile, NoFault, Fault, Show
<1>a. /\ uninst' = [by |-> console, names |-> AliasesOf(console), readable |-> TRUE, version |-> 200]
      /\ pc = "uninst" /\ pc' = "link" /\ UNCHANGED <<files, shared, lost, legacy, console, flags, event, resets>>
  BY <1>1 DEF GenerateUninstallFile, NoFault, Fault, TInv, HistoryType
<1>b. /\ console \in Consoles /\ console.type = "PS2" /\ event = "MULTI_INSTALL" /\ ~Skip
      /\ "CROSS_PSX" \notin flags /\ event \in InstallEvents
  BY <1>a DEF TInv, ConsoleType, PlaceOK, ModesOK, Skip, InstallEvents
<1>c. shared = {} /\ lost = {} /\ legacy = NoFile
  BY <1>1, <1>a, <1>b DEF Sound, CleanedOK, NoFileAt, HasOldMultiInstall
<1>d. /\ uninst' # NoFile /\ Named(uninst') = AliasesOf(console) /\ uninst'.by = console /\ uninst'.readable
      /\ HasOldMultiInstall' /\ File' = uninst'
  <2>1. uninst' # NoFile /\ Named(uninst') = AliasesOf(console)
    BY <1>a, <1>b, WrittenOK, ZenonT(30)
  <2>2. uninst'.by = console /\ uninst'.readable
    BY <1>a
  <2> QED
    BY <2>1, <2>2 DEF HasOldMultiInstall, File
<1>e. Wanted(console, {}) \subseteq files
  <2>1. \A p \in Wanted(console, flags) : p \in files
    BY <1>a, <1>b DEF TInv, ListOK, CopiedOK, Whole
  <2>2. Cnf \in files
    BY <2>1, CnfWanted DEF TInv, CnfKept
  <2> QED
    BY <1>b, <2>1, <2>2, CoversOwn
<1>2. OneFile'
  BY <1>a, <1>b, <1>c, <1>d, <1>e DEF OneFile
<1>3. LostOK'
  BY <1>a, <1>c DEF LostOK
<1>4. SharedOK'
  BY <1>a, <1>d DEF SharedOK
<1>5. NoFileAt' /\ ReadOK' /\ UnlinkedOK'
  BY <1>1 DEF TInv, PlaceOK, DataOK, ModesOK, Installs, Removals, InstallEvents, Sound, NoFileAt, ReadOK, UnlinkedOK,
         GenerateUninstallFile, NoFault, Fault, Show, HasOldMultiInstall, File, Skip, IInv, PassedOK,
         CleanedWithoutLinks
<1>6. KeptOK' /\ CleanOK' /\ ExactOK'
  BY <1>1 DEF TInv, PlaceOK, DataOK, ModesOK, Installs, Removals, InstallEvents, Sound, KeptOK, CleanOK, ExactOK,
         GenerateUninstallFile, NoFault, Fault, Show, HasOldMultiInstall, Spared
<1>7. CleanedOK'
  BY <1>a, <1>c, <1>d DEF CleanedOK
<1>8. ~blind'
  BY <1>1 DEF Sound, GenerateUninstallFile, NoFault, Fault, Show
<1> QED
  BY <1>2, <1>3, <1>4, <1>5, <1>6, <1>7, <1>8 DEF Sound

LEMMA CreateCrossLinkedFilesSInv == TInv /\ SInv /\ IInv' /\ CreateCrossLinkedFiles => SInv'
<1> SUFFICES ASSUME TInv, SInv, IInv', CreateCrossLinkedFiles, faults' = 0 PROVE Sound'
  BY DEF SInv
<1>1. Sound /\ faults = 0 /\ UNCHANGED faults
  BY DEF SInv, TInv, HistoryType, CreateCrossLinkedFiles, NoFault, Fault, Show
<1>a. /\ files' = files \cup AliasesOf(console) /\ shared' = shared \cup AliasesOf(console) \cup {Own(console)}
      /\ pc = "link" /\ pc' = "shown" /\ UNCHANGED <<lost, uninst, legacy, resets>>
  BY <1>1 DEF CreateCrossLinkedFiles, NoFault, Fault, Show, TInv, HistoryType
<1>b. shared = {} /\ lost = {} /\ uninst # NoFile /\ uninst.by = console /\ Named(uninst) = AliasesOf(console)
  BY <1>1, <1>a DEF Sound, CleanedOK, Skip, TInv, PlaceOK, ModesOK
<1>c. File = uninst /\ File' = uninst /\ HasOldMultiInstall /\ HasOldMultiInstall'
  BY <1>a, <1>b DEF File, HasOldMultiInstall
<1>2. LostOK'
  BY <1>1 DEF TInv, PlaceOK, DataOK, ModesOK, Installs, Removals, InstallEvents, Sound, LostOK,
         CreateCrossLinkedFiles, NoFault, Fault, Show, HasOldMultiInstall
<1>3. OneFile'
  BY <1>1, <1>a, <1>b, <1>c DEF Sound, OneFile
<1>4. SharedOK'
  BY <1>a, <1>b, <1>c DEF SharedOK
<1>5. NoFileAt' /\ ReadOK' /\ UnlinkedOK'
  BY <1>1 DEF TInv, PlaceOK, DataOK, ModesOK, Installs, Removals, InstallEvents, Sound, NoFileAt, ReadOK, UnlinkedOK,
         CreateCrossLinkedFiles, NoFault, Fault, Show, HasOldMultiInstall, File, Skip, IInv, PassedOK,
         CleanedWithoutLinks
<1>6. KeptOK' /\ CleanOK' /\ CleanedOK' /\ ExactOK'
  BY <1>1 DEF TInv, PlaceOK, DataOK, ModesOK, Installs, Removals, InstallEvents, Sound, KeptOK, CleanOK, CleanedOK,
         ExactOK, CreateCrossLinkedFiles, NoFault, Fault, Show, HasOldMultiInstall, Skip, Spared
<1>7. ~blind'
  BY <1>1 DEF Sound, CreateCrossLinkedFiles, NoFault, Fault, Show
<1> QED
  BY <1>2, <1>3, <1>4, <1>5, <1>6, <1>7 DEF Sound

LEMMA ReadUninstallFileSInv == TInv /\ SInv /\ IInv' /\ ReadUninstallFile => SInv'
<1> SUFFICES ASSUME TInv, SInv, IInv', ReadUninstallFile, faults' = 0 PROVE Sound'
  BY DEF SInv
<1>1. Sound /\ faults = 0 /\ UNCHANGED faults
  BY DEF SInv, TInv, HistoryType, ReadUninstallFile, cardVars, NoFault, Fault, Show
<1>2. OneFile' /\ LostOK' /\ SharedOK'
  BY <1>1 DEF TInv, PlaceOK, DataOK, ModesOK, Installs, Removals, InstallEvents, Sound, OneFile, LostOK, SharedOK,
         ReadUninstallFile, cardVars, NoFault, Fault, Show, HasOldMultiInstall, File
<1>3. NoFileAt' /\ UnlinkedOK'
  BY <1>1 DEF TInv, PlaceOK, DataOK, ModesOK, Installs, Removals, InstallEvents, Sound, NoFileAt, UnlinkedOK,
         ReadUninstallFile, cardVars, NoFault, Fault, Show, HasOldMultiInstall, Skip, IInv, PassedOK,
         CleanedWithoutLinks
<1>4. ReadOK'
  <2>1. CASE pc' # "delete_uninst"
    BY <2>1 DEF ReadOK
  <2>2. CASE pc' = "delete_uninst"
    <3>1. PICK file \in {uninst, legacy} \ {NoFile}, k \in 0 .. Len(FileAlias) :
            /\ data' = [by |-> file.by, version |-> file.version,
                        names |-> CASE file.version = 200 -> HandleFMCBUninstallFile(file, k)
                                    [] file.version = 100 -> HandleFMCBUninstallFile_100(file, k)
                                    [] OTHER -> HandleLegacyFMCBUninstallFile(file, k)]
            /\ IF k = Len(FileAlias) /\ (file = uninst \/ uninst = NoFile) THEN NoFault ELSE Fault
      BY <2>2 DEF ReadUninstallFile, Show
    <3>2. k = Len(FileAlias) /\ (file = uninst \/ uninst = NoFile)
      BY <1>1, <3>1 DEF Fault, TInv, HistoryType
    <3>3. file = File /\ HasOldMultiInstall /\ UNCHANGED <<uninst, legacy>>
      BY <3>1, <3>2 DEF File, HasOldMultiInstall, ReadUninstallFile, cardVars
    <3>4. FileOK(file) /\ file.version \in {0, 100, 200} /\ Named(file) \subseteq AliasesOf(file.by)
      BY <1>1, <3>1, <3>3 DEF TInv, CardType, Sound, OneFile
    <3> DEFINE read == data'
    <3>5. read.by = file.by /\ read.version = file.version
      BY <3>1
    <3>6. read.names = Named(file)
      <4>1. FirstAliasesOf(file.by, k) = AliasesOf(file.by)
        BY <3>1, <3>2, FirstAliases
      <4>2. read.names = Named(file) \cap FirstAliasesOf(file.by, k)
        BY <3>1, <3>4, ReadNames
      <4> QED
        BY <3>4, <4>1, <4>2
    <3> HIDE DEF read
    <3>7. File' = File /\ HasOldMultiInstall'
      BY <3>3 DEF File, HasOldMultiInstall
    <3>8. read.by = File.by /\ read.version = File.version /\ read.names = Named(File)
      BY <3>3, <3>5, <3>6
    <3> QED
      BY <3>7, <3>8 DEF ReadOK, read
  <2> QED
    BY <2>1, <2>2
<1>5. KeptOK' /\ CleanOK' /\ CleanedOK' /\ ExactOK'
  BY <1>1 DEF TInv, PlaceOK, DataOK, ModesOK, Installs, Removals, InstallEvents, Sound, KeptOK, CleanOK, CleanedOK,
         ExactOK, ReadUninstallFile, cardVars, NoFault, Fault, Show, HasOldMultiInstall, Skip, Spared
<1>6. ~blind'
  BY <1>1 DEF Sound, ReadUninstallFile, cardVars, NoFault, Fault, Show
<1> QED
  BY <1>2, <1>3, <1>4, <1>5, <1>6 DEF Sound

LEMMA DeleteUninstallFileSInv == TInv /\ SInv /\ IInv' /\ DeleteUninstallFile => SInv'
<1> SUFFICES ASSUME TInv, SInv, IInv', DeleteUninstallFile, faults' = 0 PROVE Sound'
  BY DEF SInv
<1>1. Sound /\ faults = 0 /\ UNCHANGED faults
  BY DEF SInv, TInv, HistoryType, DeleteUninstallFile, opVars, NoFault, Fault
<1>a. /\ IF data.version = 0 THEN legacy' = NoFile /\ UNCHANGED uninst ELSE uninst' = NoFile /\ UNCHANGED legacy
      /\ pc = "delete_uninst" /\ pc' = "unlink" /\ UNCHANGED <<files, shared, lost, data, resets, flags, event>>
  BY <1>1 DEF DeleteUninstallFile, Fault, TInv, HistoryType, opVars
<1>b. HasOldMultiInstall /\ data.by = File.by /\ data.names = Named(File) /\ data.version = File.version
  BY <1>1, <1>a DEF Sound, ReadOK
<1>c. NoFile \in {uninst, legacy} /\ lost = {}
  BY <1>1, <1>b DEF Sound, OneFile, LostOK
<1>d. ~HasOldMultiInstall'
  <2>1. (uninst # NoFile => uninst.version # 0) /\ (legacy # NoFile => legacy.version = 0)
    BY DEF TInv, CardType
  <2> QED
    BY <1>a, <1>b, <1>c, <2>1 DEF HasOldMultiInstall, File
<1>2. OneFile'
  BY <1>d DEF OneFile
<1>3. LostOK'
  BY <1>a, <1>c DEF LostOK
<1>4. SharedOK'
  BY <1>a, <1>d DEF SharedOK
<1>5. ReadOK'
  BY <1>1 DEF TInv, PlaceOK, DataOK, ModesOK, Installs, Removals, InstallEvents, Sound, ReadOK, DeleteUninstallFile,
         opVars, NoFault, Fault, HasOldMultiInstall, File
<1>6. NoFileAt'
  BY <1>d DEF NoFileAt
<1>7. UnlinkedOK'
  BY <1>1, <1>a, <1>b DEF Sound, OneFile, UnlinkedOK
<1>8. KeptOK' /\ CleanOK' /\ CleanedOK' /\ ExactOK'
  BY <1>1 DEF TInv, PlaceOK, DataOK, ModesOK, Installs, Removals, InstallEvents, Sound, KeptOK, CleanOK, CleanedOK,
         ExactOK, DeleteUninstallFile, opVars, NoFault, Fault, HasOldMultiInstall, Skip, Spared
<1>9. ~blind'
  BY <1>1 DEF Sound, DeleteUninstallFile, opVars, NoFault, Fault
<1> QED
  BY <1>2, <1>3, <1>4, <1>5, <1>6, <1>7, <1>8, <1>9 DEF Sound

LEMMA DeleteCrossLinkedFilesSInv == TInv /\ SInv /\ IInv' /\ DeleteCrossLinkedFiles => SInv'
<1> SUFFICES ASSUME TInv, SInv, IInv', DeleteCrossLinkedFiles, faults' = 0 PROVE Sound'
  BY DEF SInv
<1>1. Sound /\ faults = 0 /\ UNCHANGED faults
  BY DEF SInv, TInv, HistoryType, DeleteCrossLinkedFiles, opVars, NoFault, Fault
<1>a. PICK left \in SUBSET (data.names \cap files) :
        /\ files' = files \ (data.names \ left) /\ shared' = shared \cap files' /\ lost' = lost \cap files'
        /\ IF left = {} THEN NoFault ELSE Fault
  BY DEF DeleteCrossLinkedFiles
<1>b. left = {}
  BY <1>1, <1>a DEF Fault, TInv, HistoryType
<1>c. pc = "unlink" /\ pc' = "extra" /\ UNCHANGED <<uninst, legacy, data, resets, flags, event>>
  BY DEF DeleteCrossLinkedFiles, opVars
<1>d. /\ ~HasOldMultiInstall /\ lost = {} /\ shared \subseteq data.names \cup {Own(data.by)}
      /\ data.by.type = "PS2" /\ Wanted(data.by, {}) \subseteq files
      /\ data.by \in Consoles /\ data.names \subseteq AliasesOf(data.by)
  BY <1>1, <1>c DEF Sound, NoFileAt, LostOK, UnlinkedOK, TInv, DataType, DataOK
<1>e. files' = files \ data.names /\ shared' \subseteq {Own(data.by)} /\ lost' = {}
  BY <1>a, <1>b, <1>d
<1>f. ~HasOldMultiInstall'
  BY <1>c, <1>d DEF HasOldMultiInstall
<1>2. OneFile'
  BY <1>f DEF OneFile
<1>3. LostOK'
  BY <1>e DEF LostOK
<1>4. SharedOK'
  BY <1>e, <1>f DEF SharedOK
<1>5. NoFileAt' /\ ReadOK'
  BY <1>1 DEF TInv, PlaceOK, DataOK, ModesOK, Installs, Removals, InstallEvents, Sound, NoFileAt, ReadOK,
         DeleteCrossLinkedFiles, opVars, NoFault, Fault, HasOldMultiInstall, File, Skip, IInv, PassedOK,
         CleanedWithoutLinks
<1>6. UnlinkedOK'
  <2>1. Wanted(data.by, {}) \cap data.names = {}
    BY <1>d, NormalFiles
  <2> QED
    BY <1>c, <1>d, <1>e, <2>1 DEF UnlinkedOK
<1>7. KeptOK' /\ CleanOK' /\ CleanedOK' /\ ExactOK'
  BY <1>1 DEF TInv, PlaceOK, DataOK, ModesOK, Installs, Removals, InstallEvents, Sound, KeptOK, CleanOK, CleanedOK,
         ExactOK, DeleteCrossLinkedFiles, opVars, NoFault, Fault, HasOldMultiInstall, Skip, Spared
<1>8. ~blind'
  BY <1>1 DEF Sound, DeleteCrossLinkedFiles, opVars, NoFault, Fault
<1> QED
  BY <1>2, <1>3, <1>4, <1>5, <1>6, <1>7, <1>8 DEF Sound

LEMMA DeleteUnneededSInv == TInv /\ SInv /\ IInv' /\ DeleteUnneeded => SInv'
<1> SUFFICES ASSUME TInv, SInv, IInv', DeleteUnneeded, faults' = 0 PROVE Sound'
  BY DEF SInv
<1>1. Sound /\ faults = 0 /\ UNCHANGED faults
  BY DEF SInv, TInv, HistoryType, DeleteUnneeded, cardVars
<1>a. /\ pc = "extra" /\ pc' = "cleanup" /\ todo' = Unneeded /\ folders' = OtherFolders(data.by.region)
      /\ UNCHANGED <<files, console, data, event>>
  BY DEF DeleteUnneeded, cardVars
<1>b. /\ event = "CLEANUP_MULTI" /\ data.by \in Consoles /\ data.by.region \in Regions /\ files \subseteq Paths
      /\ Wanted(data.by, {}) \subseteq files
  BY <1>1, <1>a, ConsolesAssumption DEF TInv, PlaceOK, Removals, DataOK, DataType, CardType, Sound, UnlinkedOK
<1>2. OneFile' /\ LostOK' /\ SharedOK'
  BY <1>1 DEF TInv, PlaceOK, DataOK, ModesOK, Installs, Removals, InstallEvents, Sound, OneFile, LostOK, SharedOK,
         DeleteUnneeded, cardVars, HasOldMultiInstall, File
<1>3. NoFileAt' /\ ReadOK' /\ UnlinkedOK'
  BY <1>1 DEF TInv, PlaceOK, DataOK, ModesOK, Installs, Removals, InstallEvents, Sound, NoFileAt, ReadOK, UnlinkedOK,
         DeleteUnneeded, cardVars, HasOldMultiInstall, File, Skip, IInv, PassedOK, CleanedWithoutLinks
<1>4. CleanedOK' /\ ExactOK'
  BY <1>1 DEF TInv, PlaceOK, DataOK, ModesOK, Installs, Removals, InstallEvents, Sound, CleanedOK, ExactOK,
         DeleteUnneeded, cardVars, HasOldMultiInstall, Skip
<1>5. KeptOK'
  <2>1. console = data.by => Wanted(console, {}) \cap Unneeded = {}
    <3> SUFFICES ASSUME console = data.by, NEW p \in Wanted(console, {}), p \in Unneeded PROVE FALSE
      OBVIOUS
    <3>1. p \notin UpdateSet(console, {})
      <4>1. console \in Consoles /\ console.rom \in Nat
        BY <1>b, ConsolesAssumption
      <4> QED
        BY <4>1, NormalList DEF Unneeded
    <3>2. p[2] \in {"osdsys", "osd110", "hddload"}
      BY DEF Unneeded
    <3>3. p \notin ResourceSet(console, {}) /\ p \notin BaseSet({})
      BY <1>b, <3>2, NormalList DEF Cnf
    <3>4. p \notin SysSet(console, {})
      <4>1. console.type \in {"PS2", "DEX", "PSX"} /\ (console.type = "PS2" => Own(console) \in Aliases)
        BY <1>b, ConsolesAssumption DEF Aliases
      <4> QED
        BY <1>b, <3>2, <4>1, NormalList, TableOfAliases
    <3> QED
      BY <3>1, <3>3, <3>4 DEF Wanted
  <2> QED
    BY <1>a, <1>b, <2>1, Others DEF KeptOK
<1>6. CleanOK'
  <2>1. \A p \in files : p[1] \in {"CONF", "PKG", data.by.region} \/ p[1] \in ToSet(OtherFolders(data.by.region))
    BY <1>b, Others, FoldersOfPaths
  <2> QED
    BY <1>a, <1>b, <2>1 DEF CleanOK, Spared
<1>7. ~blind'
  BY <1>1 DEF Sound, DeleteUnneeded, cardVars
<1> QED
  BY <1>2, <1>3, <1>4, <1>5, <1>6, <1>7 DEF Sound

LEMMA ListFolderSInv == TInv /\ SInv /\ IInv' /\ ListFolder => SInv'
<1> SUFFICES ASSUME TInv, SInv, IInv', ListFolder, faults' = 0 PROVE Sound'
  BY DEF SInv
<1>1. Sound /\ faults = 0 /\ UNCHANGED faults
  BY DEF SInv, TInv, HistoryType, ListFolder, cardVars, NoFault, Fault
<1>a. /\ pc = "cleanup" /\ pc' = "cleanup" /\ todo = {} /\ todo' = {p \in files : p[1] = Head(folders)}
      /\ folders' = Tail(folders) /\ UNCHANGED <<files, console, data, event>>
  BY <1>1 DEF ListFolder, Fault, TInv, HistoryType, cardVars
<1>b. ToSet(folders) = {Head(folders)} \cup ToSet(Tail(folders))
  BY ToSetTail DEF ListFolder, TInv, TodoType
<1>c. ToSet(folders') = ToSet(Tail(folders))
  BY <1>a
<1>2. OneFile' /\ LostOK' /\ SharedOK'
  BY <1>1 DEF TInv, PlaceOK, DataOK, ModesOK, Installs, Removals, InstallEvents, Sound, OneFile, LostOK, SharedOK,
         ListFolder, cardVars, NoFault, Fault, HasOldMultiInstall, File
<1>3. NoFileAt' /\ ReadOK' /\ UnlinkedOK'
  BY <1>1 DEF TInv, PlaceOK, DataOK, ModesOK, Installs, Removals, InstallEvents, Sound, NoFileAt, ReadOK, UnlinkedOK,
         ListFolder, cardVars, NoFault, Fault, HasOldMultiInstall, File, Skip, IInv, PassedOK, CleanedWithoutLinks
<1>4. CleanedOK' /\ ExactOK'
  BY <1>1 DEF TInv, PlaceOK, DataOK, ModesOK, Installs, Removals, InstallEvents, Sound, CleanedOK, ExactOK,
         ListFolder, cardVars, NoFault, Fault, HasOldMultiInstall, Skip
<1>5. KeptOK'
  <2> SUFFICES ASSUME event = "CLEANUP_MULTI", console = data.by, console.region # "E"
               PROVE  /\ Wanted(console, {}) \subseteq files \ todo'
                      /\ console.region \notin ToSet(folders')
    BY <1>a DEF KeptOK
  <2>1. Wanted(console, {}) \subseteq files /\ console.region \notin ToSet(folders)
    BY <1>1, <1>a DEF Sound, KeptOK
  <2>2. Head(folders) # console.region /\ Head(folders) # "CONF"
    <3>1. ToSet(folders) \subseteq Regions
      BY ToSetOf DEF TInv, TodoType
    <3> QED
      BY <1>b, <2>1, <3>1 DEF Regions
  <2>3. \A p \in Wanted(console, {}) : p[1] # Head(folders)
    BY <2>2, NormalFiles DEF TInv, ConsoleType
  <2> QED
    BY <1>a, <1>b, <1>c, <2>1, <2>3
<1>6. CleanOK'
  <2>1. \A p \in files : p[1] \in Spared \/ p[1] = Head(folders) \/ p[1] \in ToSet(Tail(folders))
    BY <1>1, <1>a, <1>b DEF Sound, CleanOK
  <2>2. Spared' = Spared
    BY <1>a DEF Spared
  <2> QED
    BY <1>a, <1>c, <2>1, <2>2 DEF CleanOK
<1>7. ~blind'
  BY <1>1 DEF Sound, ListFolder, cardVars, NoFault, Fault
<1> QED
  BY <1>2, <1>3, <1>4, <1>5, <1>6, <1>7 DEF Sound

LEMMA DeleteFileSInv == TInv /\ SInv /\ IInv' /\ DeleteFile => SInv'
<1> SUFFICES ASSUME TInv, SInv, IInv', DeleteFile, faults' = 0 PROVE Sound'
  BY DEF SInv
<1>1. Sound /\ faults = 0 /\ UNCHANGED faults
  BY DEF SInv, TInv, HistoryType, DeleteFile, NoFault, Fault, McDelete, Freed
<1>a. PICK p \in todo :
        /\ todo' = todo \ {p} /\ files' = files \ {p} /\ shared' = shared \ {p}
        /\ lost' = (lost \ {p}) \cup (IF p \in shared THEN shared \ {p} ELSE {})
  BY <1>1 DEF DeleteFile, McDelete, Freed, Fault, TInv, HistoryType
<1>b. pc = "cleanup" /\ UNCHANGED <<pc, event, uninst, legacy, resets>>
  BY DEF DeleteFile
<1>c. ~HasOldMultiInstall /\ ~HasOldMultiInstall'
  BY <1>1, <1>b DEF Sound, NoFileAt, HasOldMultiInstall
<1>2. OneFile'
  BY <1>c DEF OneFile
<1>3. LostOK'
  <2>1. CASE \A q, r \in shared : q = r
    <3>1. lost' \subseteq lost
      BY <1>a, <2>1
    <3> QED
      BY <1>1, <1>b, <1>c, <3>1 DEF Sound, LostOK
  <2>2. CASE ~(\A q, r \in shared : q = r)
    <3>1. resets # 0 /\ event # "CLEANUP_MULTI"
      BY <1>1, <1>b, <1>c, <2>2 DEF Sound, SharedOK, UnlinkedOK
    <3> QED
      BY <1>b, <1>c, <3>1 DEF LostOK, TInv, HistoryType
  <2> QED
    BY <2>1, <2>2
<1>4. SharedOK'
  BY <1>1, <1>a, <1>b, <1>c DEF Sound, SharedOK
<1>5. NoFileAt' /\ ReadOK' /\ UnlinkedOK'
  BY <1>1 DEF TInv, PlaceOK, DataOK, ModesOK, Installs, Removals, InstallEvents, Sound, NoFileAt, ReadOK, UnlinkedOK,
         DeleteFile, NoFault, Fault, McDelete, Freed, HasOldMultiInstall, File, Skip, IInv, PassedOK,
         CleanedWithoutLinks
<1>6. KeptOK' /\ CleanOK' /\ CleanedOK' /\ ExactOK'
  BY <1>1 DEF TInv, PlaceOK, DataOK, ModesOK, Installs, Removals, InstallEvents, Sound, KeptOK, CleanOK, CleanedOK,
         ExactOK, DeleteFile, NoFault, Fault, McDelete, Freed, HasOldMultiInstall, Skip, Spared
<1>7. ~blind'
  BY <1>1 DEF Sound, DeleteFile, NoFault, Fault, McDelete, Freed
<1> QED
  BY <1>2, <1>3, <1>4, <1>5, <1>6, <1>7 DEF Sound

LEMMA EndCleanupSInv == TInv /\ SInv /\ IInv' /\ EndCleanup => SInv'
<1> SUFFICES ASSUME TInv, SInv, IInv', EndCleanup, faults' = 0 PROVE Sound'
  BY DEF SInv
<1>1. Sound /\ faults = 0 /\ UNCHANGED faults
  BY DEF SInv, TInv, HistoryType, EndCleanup, cardVars, Show
<1>a. /\ pc = "cleanup" /\ pc' \in {"folders", "shown"} /\ (pc' = "folders" => event \in InstallEvents)
      /\ UNCHANGED <<cardVars, event, data, console, flags, resets>>
  BY DEF EndCleanup, Show
<1>b. \A p \in files : p[1] \in Spared
  <2>1. todo = {} /\ ToSet(folders) = {}
    BY ToSetSmall DEF EndCleanup
  <2> QED
    BY <1>1, <1>a, <2>1 DEF Sound, CleanOK
<1>c. event # "CLEANUP_MULTI" => shared = {} /\ lost = {}
  <2>1. event # "CLEANUP_MULTI" => \A p \in files : p \notin Aliases
    BY <1>b, FoldersOfPaths DEF Spared, Regions
  <2> QED
    BY <2>1 DEF TInv, CardType
<1>d. lost = {}
  BY <1>1, <1>a, <1>c DEF Sound, LostOK
<1>2. OneFile' /\ SharedOK'
  BY <1>1 DEF TInv, PlaceOK, DataOK, ModesOK, Installs, Removals, InstallEvents, Sound, OneFile, SharedOK, EndCleanup,
         cardVars, Show, HasOldMultiInstall, File
<1>3. LostOK'
  BY <1>a, <1>d DEF LostOK, cardVars
<1>4. NoFileAt' /\ ReadOK' /\ UnlinkedOK'
  BY <1>1 DEF TInv, PlaceOK, DataOK, ModesOK, Installs, Removals, InstallEvents, Sound, NoFileAt, ReadOK, UnlinkedOK,
         EndCleanup, cardVars, Show, HasOldMultiInstall, File, Skip, IInv, PassedOK, CleanedWithoutLinks
<1>5. KeptOK' /\ CleanOK'
  BY <1>1 DEF TInv, PlaceOK, DataOK, ModesOK, Installs, Removals, InstallEvents, Sound, KeptOK, CleanOK, EndCleanup,
         cardVars, Show, HasOldMultiInstall, Spared
<1>6. CleanedOK'
  BY <1>a, <1>c, <1>d DEF CleanedOK, InstallEvents, cardVars
<1>7. ExactOK'
  <2> SUFFICES ASSUME event = "CLEANUP_MULTI", pc' = "shown", data # NoFile
               PROVE  /\ \A p \in files : p[1] \in {data.by.region, "CONF", "PKG"}
                      /\ console = data.by /\ console.region # "E" => Wanted(console, {}) \subseteq files
    BY <1>a DEF ExactOK, cardVars
  <2>1. \A p \in files : p[1] \in {data.by.region, "CONF", "PKG"}
    BY <1>b DEF Spared
  <2> QED
    BY <1>1, <1>a, <2>1 DEF Sound, KeptOK
<1>8. ~blind'
  BY <1>1 DEF Sound, EndCleanup, cardVars, Show
<1> QED
  BY <1>2, <1>3, <1>4, <1>5, <1>6, <1>7, <1>8 DEF Sound

LEMMA InitSInv == Init => SInv
<1> SUFFICES ASSUME Init PROVE Sound
  BY DEF SInv
<1>1. PICK card \in Cards : files = card.files /\ shared = card.shared /\ uninst = card.uninst /\ legacy = card.legacy
  BY DEF Init
<1>2. File = (IF card.uninst # NoFile THEN card.uninst ELSE card.legacy) /\ (HasOldMultiInstall <=> File # NoFile)
  BY <1>1 DEF File, HasOldMultiInstall
<1>3. OneFile /\ SharedOK
  BY <1>1, <1>2, CardsSound DEF OneFile, SharedOK
<1> QED
  BY <1>3 DEF Init, Sound, NoFileAt, ReadOK, UnlinkedOK, KeptOK, CleanOK, CleanedOK, LostOK, ExactOK

LEMMA NextSInv == TInv /\ SInv /\ IInv' /\ [Next]_vars => SInv'
<1> SUFFICES ASSUME TInv, SInv, IInv', [Next]_vars PROVE SInv'
  OBVIOUS
<1>1. CASE UNCHANGED vars
  BY <1>1 DEF SInv, Sound, OneFile, NoFileAt, ReadOK, UnlinkedOK, KeptOK, CleanOK, Spared, CleanedOK, LostOK, SharedOK,
         ExactOK, File, Skip, HasOldMultiInstall, vars, cardVars, opVars
<1>2. CASE Poll \/ Refuse \/ BeginInstall \/ BeginCleanup \/ BeginCleanupMulti \/ Format \/ Dump \/ Restore
  BY <1>2, PollSInv, RefuseSInv, BeginInstallSInv, BeginCleanupSInv, BeginCleanupMultiSInv, FormatSInv, DumpSInv, RestoreSInv
<1>3. CASE Dismiss \/ MoveCard \/ Reset
  BY <1>3, DismissSInv, MoveCardSInv, ResetSInv
<1>4. CASE GetAllBaseFileStats \/ AddDirContents \/ CheckSpace \/ CreateBasicFolders \/ CopyFile \/ EndCopy
  BY <1>4, GetAllBaseFileStatsSInv, AddDirContentsSInv, CheckSpaceSInv, CreateBasicFoldersSInv, CopyFileSInv, EndCopySInv
<1>5. CASE GenerateUninstallFile \/ CreateCrossLinkedFiles
  BY <1>5, GenerateUninstallFileSInv, CreateCrossLinkedFilesSInv
<1>6. CASE ReadUninstallFile \/ DeleteUninstallFile \/ DeleteCrossLinkedFiles \/ DeleteUnneeded
  BY <1>6, ReadUninstallFileSInv, DeleteUninstallFileSInv, DeleteCrossLinkedFilesSInv, DeleteUnneededSInv
<1>7. CASE ListFolder \/ DeleteFile \/ EndCleanup
  BY <1>7, ListFolderSInv, DeleteFileSInv, EndCleanupSInv
<1> QED
  BY <1>1, <1>2, <1>3, <1>4, <1>5, <1>6, <1>7 DEF Next

(* What holds of a card as long as nothing has failed, next to what holds whatever has. *)
THEOREM SInvAlways == Spec => [](TInv /\ IInv /\ SInv)
<1>1. TInv /\ IInv /\ SInv /\ [Next]_vars => (TInv /\ IInv /\ SInv)'
  <2> SUFFICES ASSUME TInv, IInv, SInv, [Next]_vars PROVE TInv' /\ IInv' /\ SInv'
    OBVIOUS
  <2>1. TInv' /\ IInv'
    BY NextTInv, NextIInv
  <2> QED
    BY <2>1, NextSInv
<1> QED
  BY InitTInv, InitIInv, InitSInv, <1>1, PTL DEF Spec

LEMMA LinksOfSound == TInv /\ SInv => LinksRecorded
<1> SUFFICES ASSUME TInv, SInv, pc = "menu", faults = 0, resets = 0
             PROVE  Recorded([shared |-> shared, uninst |-> uninst, legacy |-> legacy])
  BY DEF LinksRecorded
<1> DEFINE card == [shared |-> shared, uninst |-> uninst, legacy |-> legacy]
<1>1. card.shared = shared /\ card.uninst = uninst /\ card.legacy = legacy
  OBVIOUS
<1>2. OneFile /\ SharedOK
  BY DEF SInv, Sound
<1>3. HasOldMultiInstall <=> File # NoFile
  BY DEF HasOldMultiInstall, File
<1>4. File = NoFile => \A p, q \in shared : p = q
  BY <1>2, <1>3 DEF SharedOK
<1>5. File # NoFile => /\ NoFile \in {uninst, legacy}
                       /\ File.readable /\ File.by.type = "PS2" /\ Named(File) \subseteq AliasesOf(File.by)
                       /\ shared = Named(File) \cup {Own(File.by)}
  BY <1>2, <1>3 DEF SharedOK, OneFile
<1> HIDE DEF card
<1>6. Recorded(card)
  BY <1>1, <1>4, <1>5, Zenon DEF Recorded, File
<1> QED
  BY <1>6 DEF card

LEMMA ExactOfSound == TInv /\ SInv => DowngradeExact
<1> SUFFICES ASSUME TInv, SInv, pc = "shown", event = "CLEANUP_MULTI", result = "complete", faults = 0, data # NoFile
             PROVE  /\ \A p \in files : p[1] \in {data.by.region, "CONF", "PKG"}
                    /\ console = data.by /\ console.region # "E" => ToSet(List(console, {})) \subseteq files
  BY DEF DowngradeExact
<1>1. ExactOK
  BY DEF SInv, Sound
<1>2. ToSet(List(console, {})) = Wanted(console, {})
  BY ListOf DEF TInv, ConsoleType
<1> QED
  BY <1>1, <1>2 DEF ExactOK

(* Between operations that have neither failed nor been reset, for every set of consoles and of cards in use: the
   uninstallation file names just the files that share clusters, but for the executable. *)
THEOREM LinksAreRecorded == Spec => []LinksRecorded
  BY SInvAlways, LinksOfSound, PTL

(* Between operations no file has lost its clusters to another of its name, if no step has failed and at most one reset
   has come in between. *)
THEOREM NoFileIsLost == Spec => []NoFileLost
<1>1. TInv /\ SInv => NoFileLost
  BY DEF TInv, HistoryType, SInv, Sound, LostOK, NoFileLost
<1> QED
  BY SInvAlways, <1>1, PTL

(* A removal of a multi-installation leaves no file of another region, and to the console that made it, unless it is of
   region E, its own installation, with every file. *)
THEOREM DowngradeIsExact == Spec => []DowngradeExact
  BY SInvAlways, ExactOfSound, PTL

-----------------------------------------------------------------------------
(* What an installation reported complete has put on the card *)

(* All that has been copied is whole at the end. *)
LEMMA CopiedWhole == TInv /\ EndCopy => \A p \in ToSet(FileCopyList) : Whole(p)
<1> SUFFICES ASSUME TInv, EndCopy PROVE \A p \in ToSet(FileCopyList) : Whole(p)
  OBVIOUS
<1>1. pc = "copy" /\ n = Len(FileCopyList) + 1 /\ DOMAIN FileCopyList = 1 .. n - 1
  BY DEF EndCopy, TInv, ListType
<1> QED
  BY <1>1 DEF TInv, CopiedOK, ToSet

(* The list of an installation, and the names cross-linked to it, make a normal installation for every console that it
   is meant for. *)
LEMMA ServedCovered ==
  ASSUME TInv, event \in InstallEvents, NEW d \in Served
  PROVE  /\ d \in Consoles
         /\ Wanted(d, {}) \subseteq Wanted(console, flags) \cup {Cnf}
            \/ ("MULTI_INST" \in flags /\ Wanted(d, {}) \subseteq Wanted(console, flags) \cup {Cnf} \cup Aliases)
<1>1. d \in Consoles /\ console \in Consoles
  BY DEF Served, TInv, ConsoleType
<1>2. CASE "CROSS_PSX" \in flags
  <2>1. d.type = "PSX"
    <3>1. ~AllRegions(flags) /\ "CROSS_MODEL" \notin flags
      BY <1>2 DEF TInv, ModesOK, AllRegions
    <3> QED
      BY <1>2, <3>1 DEF Served
  <2>2. Wanted(d, {}) \subseteq Wanted(console, flags) \cup {Cnf}
    BY <1>1, <1>2, <2>1, CoversPSX
  <2> QED
    BY <1>1, <2>2
<1>3. CASE "CROSS_PSX" \notin flags /\ AllRegions(flags)
  <2>1. console.type = "PS2" /\ d.type = "PS2"
    BY <1>3 DEF TInv, ModesOK, Served, AllRegions
  <2>2. Wanted(d, {}) \subseteq Wanted(console, flags) \cup {Cnf, Own(d)}
    BY <1>1, <1>3, <2>1, CoversOthers
  <2>3. CASE "MULTI_INST" \in flags
    BY <1>1, <2>1, <2>2, <2>3, ConsolesAssumption DEF Aliases
  <2>4. CASE "MULTI_INST" \notin flags
    <3>1. "CROSS_REG" \in flags /\ "CROSS_MODEL" \notin flags
      BY <1>3, <2>4 DEF AllRegions, TInv, ModesOK
    <3> QED
      BY <1>1, <1>3, <2>1, <2>2, <3>1, CoversNames
  <2> QED
    BY <2>3, <2>4
<1>4. CASE "CROSS_PSX" \notin flags /\ ~AllRegions(flags) /\ "CROSS_MODEL" \in flags
  <2>1. console.type = "PS2" /\ d.type = "PS2" /\ d.region = console.region
    BY <1>4 DEF TInv, ModesOK, Served
  <2> QED
    BY <1>1, <1>4, <2>1, CoversOthers, CoversNames
<1>5. CASE "CROSS_PSX" \notin flags /\ ~AllRegions(flags) /\ "CROSS_MODEL" \notin flags
  <2>1. d = console
    BY <1>5 DEF Served
  <2> QED
    BY <1>1, <1>5, <2>1, CoversOwn
<1> QED
  BY <1>1, <1>2, <1>3, <1>4, <1>5

LEMMA EndCopyServes == TInv /\ EndCopy => ServesConsoles'
<1> SUFFICES ASSUME TInv, EndCopy, pc' = "shown", NEW d \in Served'
             PROVE  ToSet(List(d, {})) \subseteq files' /\ lost' \cap ToSet(List(d, {})) = {}
  BY DEF ServesConsoles
<1>1. /\ event \in InstallEvents /\ "MULTI_INST" \notin flags
      /\ UNCHANGED <<files, lost, flags, console>>
  BY DEF EndCopy, TInv, PlaceOK, Installs, cardVars
<1>2. d \in Served
  BY <1>1 DEF Served
<1>3. \A p \in Wanted(console, flags) \cup {Cnf} : p \in files /\ p \notin lost
  <2>1. \A p \in Wanted(console, flags) : p \in files /\ p \notin lost
    BY <1>1, CopiedWhole DEF TInv, ListOK, Whole
  <2>2. Cnf \in files /\ Cnf \notin lost
    BY <2>1, CnfWanted, FoldersOfPaths DEF TInv, CnfKept, CardType
  <2> QED
    BY <2>1, <2>2
<1>4. d \in Consoles /\ Wanted(d, {}) \subseteq Wanted(console, flags) \cup {Cnf}
  BY <1>1, <1>2, ServedCovered
<1>5. ToSet(List(d, {})) = Wanted(d, {})
  BY <1>4, ListOf
<1> QED
  BY <1>1, <1>3, <1>4, <1>5

LEMMA LinkServes == TInv /\ SInv /\ CreateCrossLinkedFiles => ServesConsoles'
<1> SUFFICES ASSUME TInv, SInv, CreateCrossLinkedFiles, "MULTI_INST" \in flags' => faults' = 0, NEW d \in Served'
             PROVE  ToSet(List(d, {})) \subseteq files' /\ lost' \cap ToSet(List(d, {})) = {}
  BY DEF ServesConsoles
<1>1. /\ pc = "link" /\ event \in InstallEvents /\ "MULTI_INST" \in flags /\ ~Skip
      /\ UNCHANGED <<lost, flags, console>> /\ console.type = "PS2" /\ console \in Consoles
  BY DEF CreateCrossLinkedFiles, TInv, PlaceOK, ModesOK, Installs, InstallEvents, Skip, ConsoleType
<1>2. faults' = 0 /\ faults = 0
  BY <1>1 DEF CreateCrossLinkedFiles, NoFault, Fault, TInv, HistoryType
<1>3. files' = files \cup AliasesOf(console) /\ lost' = {}
  <2>1. lost = {}
    BY <1>1, <1>2 DEF SInv, Sound, CleanedOK
  <2> QED
    BY <1>1, <1>2, <2>1 DEF CreateCrossLinkedFiles, Fault
<1>4. \A p \in Wanted(console, flags) : p \in files
  BY <1>1 DEF TInv, ListOK, CopiedOK, Whole
<1>5. Cnf \in files /\ Own(console) \in files
  <2>1. Cnf \in files
    BY <1>4, CnfWanted DEF TInv, CnfKept
  <2>2. Own(console) \in Wanted(console, flags)
    BY <1>1 DEF Wanted, SysSet, TargetSystemType, TInv, ModesOK
  <2> QED
    BY <1>4, <2>1, <2>2
<1>6. Aliases \subseteq files'
  BY <1>3, <1>5 DEF AliasesOf, Aliases
<1>7. d \in Served
  BY <1>1 DEF Served
<1>8. d \in Consoles /\ Wanted(d, {}) \subseteq Wanted(console, flags) \cup {Cnf} \cup Aliases
  BY <1>1, <1>7, ServedCovered
<1>9. ToSet(List(d, {})) = Wanted(d, {})
  BY <1>8, ListOf
<1> QED
  BY <1>3, <1>4, <1>5, <1>6, <1>8, <1>9

LEMMA NextServes == TInv /\ SInv /\ ServesConsoles /\ [Next]_vars => ServesConsoles'
<1> SUFFICES ASSUME TInv, SInv, ServesConsoles, [Next]_vars PROVE ServesConsoles'
  OBVIOUS
<1>1. CASE UNCHANGED vars
  BY <1>1 DEF ServesConsoles, Served, vars, cardVars, opVars
<1>2. CASE Poll \/ Refuse \/ BeginInstall \/ BeginCleanup \/ BeginCleanupMulti \/ Format \/ Dump \/ Restore
  <2>1. pc' # "shown" \/ event' \notin InstallEvents
    BY <1>2 DEF Poll, Refuse, BeginInstall, BeginCleanup, BeginCleanupMulti, Format, Dump, Restore, InstallEvents
  <2> QED
    BY <2>1 DEF ServesConsoles
<1>3. CASE Dismiss \/ MoveCard \/ Reset
  BY <1>3 DEF Dismiss, MoveCard, Reset, Idle, ServesConsoles
<1>4. CASE GetAllBaseFileStats \/ AddDirContents \/ CheckSpace \/ CreateBasicFolders \/ CopyFile \/ GenerateUninstallFile
  <2>1. pc' # "shown" \/ result' = "failed"
    BY <1>4 DEF GetAllBaseFileStats, AddDirContents, CheckSpace, CreateBasicFolders, CopyFile, GenerateUninstallFile, Show,
           TInv, PlaceOK
  <2> QED
    BY <2>1 DEF ServesConsoles
<1>5. CASE EndCopy \/ CreateCrossLinkedFiles
  BY <1>5, EndCopyServes, LinkServes
<1>6. CASE ReadUninstallFile \/ DeleteUninstallFile \/ DeleteCrossLinkedFiles \/ DeleteUnneeded \/ ListFolder \/ DeleteFile
           \/ EndCleanup
  <2>1. pc' # "shown" \/ event' \notin InstallEvents
    BY <1>6 DEF ReadUninstallFile, DeleteUninstallFile, DeleteCrossLinkedFiles, DeleteUnneeded, ListFolder, DeleteFile,
           EndCleanup, Show, TInv, PlaceOK, Removals, InstallEvents
  <2> QED
    BY <2>1 DEF ServesConsoles
<1> QED
  BY <1>1, <1>2, <1>3, <1>4, <1>5, <1>6 DEF Next

(* For every choice of the user, whatever was on the card: after an installation reported complete the card has every
   file that a normal installation by any console it is meant for would have put there, whole; for a
   multi-installation, if nothing has failed. *)
THEOREM InstallationServes == Spec => []ServesConsoles
<1>1. Init => ServesConsoles
  BY DEF Init, ServesConsoles
<1> QED
  BY SInvAlways, <1>1, NextServes, PTL DEF Spec
=============================================================================
