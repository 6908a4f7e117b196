----------------------------- MODULE CrossLink -----------------------------
(***************************************************************************)
(* Cross-linked files: directory entries of several names for the one      *)
(* executable that an installation for all consoles puts on a card.  The   *)
(* EE (system.c) sends their names in batches and goes on after as many    *)
(* as the IOP answers; the IOP (mctools.c) creates or deletes an entry for *)
(* each name of a batch.                                                   *)
(***************************************************************************)
EXTENDS McFs

CONSTANTS
  FileAlias,         \* the table of names, [dir, name] each
  Own,               \* index of the name of the executable itself
  MaxEntries,        \* MAX_RPC_FILE_ENTRIES
  Cards              \* cards that an installation may find: fat, page, and where everything is on
                     \* them: the clusters of the root and of each folder (chain), the record of
                     \* each folder in the root, that of the executable in its folder

ASSUME CrossLinkAssumption ==
  /\ FileAlias \in Seq([dir : Names, name : Names])
  /\ Own \in DOMAIN FileAlias /\ MaxEntries \in Nat \ {0}
  /\ \A a, b \in DOMAIN FileAlias : FileAlias[a] = FileAlias[b] => a = b
  /\ AllocStart >= EINVAL

FoldersOfAliases == {FileAlias[k].dir : k \in DOMAIN FileAlias}

(* The page of the r-th record of a folder with these clusters. *)
PageOf(clusters, r) == <<clusters[r \div PagesPerCluster + 1], r % PagesPerCluster>>

IsChain(table, clusters) ==
  /\ clusters \in Seq(Clusters) /\ clusters # <<>>
  /\ \A j, k \in DOMAIN clusters : clusters[j] = clusters[k] => j = k
  /\ \A j \in DOMAIN clusters :
       table[clusters[j]] = IF j < Len(clusters) THEN LinkTo(clusters[j + 1]) ELSE EndOfChain

Disjoint(a, b) == \A j \in DOMAIN a, k \in DOMAIN b : a[j] # b[k]

(* A free cluster has no link.  The root is large enough for its records, and has those of the
   folders behind its first cluster ("." and ".."). *)
FormattedRoot(card) ==
  /\ card.fat \in [Clusters -> FatEntries] /\ card.page \in [Clusters \X Slots -> Dirents]
  /\ \A c \in Clusters : ~card.fat[c].used => card.fat[c].next = Nil
  /\ IsChain(card.fat, card.root) /\ card.root[1] = 0
  /\ card.page[<<0, 0>>].length \in 1 .. Len(card.root) * PagesPerCluster
  /\ card.record \in [FoldersOfAliases -> PagesPerCluster .. card.page[<<0, 0>>].length - 1]

(* A folder is found, has clusters of its own, and as many as its records need. *)
FormattedFolder(card, d) ==
  LET entry == card.page[PageOf(card.root, card.record[d])]
      n     == Len(card.chain[d])
  IN /\ entry.live /\ entry.name = d /\ entry.cluster = card.chain[d][1]
     /\ \A r \in 0 .. card.record[d] - 1 :
          LET other == card.page[PageOf(card.root, r)] IN other.live => other.name # d
     /\ IsChain(card.fat, card.chain[d]) /\ Disjoint(card.root, card.chain[d])
     /\ \A e \in FoldersOfAliases \ {d} : Disjoint(card.chain[e], card.chain[d])
     /\ entry.length > (n - 1) * PagesPerCluster /\ entry.length <= n * PagesPerCluster

(* The executable is there, and no other file has a name of the table. *)
FormattedFiles(card) ==
  LET dir(k)    == FileAlias[k].dir
      length(k) == card.page[PageOf(card.root, card.record[dir(k)])].length
      file(k, r) == card.page[PageOf(card.chain[dir(k)], r)]
      is(k, r)  == file(k, r).live /\ file(k, r).name = FileAlias[k].name
  IN /\ card.executable \in 0 .. length(Own) - 1 /\ is(Own, card.executable)
     /\ \A k \in DOMAIN FileAlias : \A r \in 0 .. length(k) - 1 :
          is(k, r) => k = Own /\ r = card.executable

ASSUME CardsAssumption ==
  \A card \in Cards :
    /\ FormattedRoot(card) /\ FormattedFiles(card)
    /\ card.chain \in [FoldersOfAliases -> Seq(Clusters)]
    /\ \A d \in FoldersOfAliases : FormattedFolder(card, d)

VARIABLES
  (* the EE *)
  ee,                \* where it is
  FileIndex,         \* next name to send
  NumFiles,          \* names left to send
  result,            \* of the operation
  (* the IOP *)
  iop,               \* where it is in a call, "idle" outside
  batch,             \* first and last index of the names of the call
  i,                 \* the name it is at
  count,             \* entries created or deleted by the call
  folder,            \* entry and place of the folder read at the start (ParentDirEnt)
  target             \* cluster for the new entry, negative for an error of AddFATRecord

eeVars == <<ee, FileIndex, NumFiles, result>>
iopVars == <<iop, batch, i, count, folder, target>>
vars == <<fsVars, eeVars, iopVars>>

N == Len(FileAlias)
Deleting == ee \in {"delete", "delete_wait"}

(* The names in the uninstallation file: all but the executable's. *)
Uninstall == [k \in 1 .. N - 1 |-> IF k < Own THEN FileAlias[k] ELSE FileAlias[k + 1]]

Visible == {k \in DOMAIN FileAlias : FindFile(FileAlias[k]).result = "found"}

Init ==
  /\ \E card \in Cards : fat = card.fat /\ page = card.page
  /\ outside = {} /\ faults = 0
  /\ ee = "ready" /\ FileIndex = 1 /\ NumFiles = 0 /\ result = 0
  /\ iop = "idle" /\ batch = <<1, 0>> /\ i = 1 /\ count = 0
  /\ folder = [entry |-> page[<<0, 0>>], place |-> FirstPage(0)] /\ target = 0

-----------------------------------------------------------------------------
(* EE: CreateCrossLinkedFiles; a card or cache that cannot be initialised ends it before. *)

BeginCreate ==
  /\ ee = "ready"
  /\ ee' = "before" /\ FileIndex' = 1 /\ NumFiles' = Own - 1 /\ result' = 0
  /\ UNCHANGED <<fsVars, iopVars>>

(* Faulty variant: the names are not limited to what fits. *)
Batch_Unlimited(n) == <<FileIndex, FileIndex + n - 1>>

(* The names that fit into one call. *)
Batch(n) == <<FileIndex, FileIndex + (IF n < MaxEntries THEN n ELSE MaxEntries) - 1>>

(* The IOP reads the superblock, and the entry of the executable to create others like it. *)
Call(names, wait) ==
  /\ batch' = names /\ i' = names[1] /\ count' = 0
  /\ iop' = "next"
  /\ ee' = wait
  /\ UNCHANGED <<fsVars, FileIndex, NumFiles, result, folder, target>>

SendBefore == ee = "before" /\ NumFiles > 0 /\ Call(Batch(NumFiles), "before_wait")
SendAfter == ee = "after" /\ NumFiles > 0 /\ Call(Batch(NumFiles), "after_wait")

(* The answer of a call: as many names are taken for done; none, or an error, ends the loop. *)
Receive ==
  /\ ee \in {"before_wait", "after_wait"} /\ iop = "idle"
  /\ IF count > 0
     THEN /\ result' = count
          /\ FileIndex' = FileIndex + count /\ NumFiles' = NumFiles - count
          /\ ee' = IF ee = "before_wait" THEN "before" ELSE "after"
     ELSE /\ result' = -1
          /\ ee' = IF ee = "before_wait" THEN "skip" ELSE "flush"
          /\ UNCHANGED <<FileIndex, NumFiles>>
  /\ UNCHANGED <<fsVars, iopVars>>

(* Faulty variant: the last name is forgotten. *)
SkipOwn_OffByOne ==
  /\ ee = "skip" \/ (ee = "before" /\ NumFiles = 0)
  /\ FileIndex' = FileIndex + 1 /\ NumFiles' = N - FileIndex'
  /\ ee' = "after"
  /\ UNCHANGED <<fsVars, result, iopVars>>

(* The second loop starts behind the name where the first has ended, even after an error. *)
SkipOwn ==
  /\ ee = "skip" \/ (ee = "before" /\ NumFiles = 0)
  /\ FileIndex' = FileIndex + 1 /\ NumFiles' = N - FileIndex
  /\ ee' = "after"
  /\ UNCHANGED <<fsVars, result, iopVars>>

(* Only without an error is the page cache flushed; its failure is the result. *)
FlushCreated ==
  /\ ee = "flush" \/ (ee = "after" /\ NumFiles <= 0)
  /\ \/ UNCHANGED result /\ NoFault
     \/ result >= 0 /\ result' = -1 /\ Fault
  /\ ee' = "created"
  /\ UNCHANGED <<fat, page, outside, FileIndex, NumFiles, iopVars>>

(* EE: the loop of CleanupMultiInstallation, over the names but the executable's. *)
BeginDelete ==
  /\ ee = "created"
  /\ ee' = "delete" /\ FileIndex' = 1
  /\ UNCHANGED <<fsVars, NumFiles, result, iopVars>>

(* A batch reaches to the end of the list at most, where a name is empty. *)
SendDelete ==
  /\ ee = "delete" /\ FileIndex < N
  /\ Call(Batch(N - FileIndex), "delete_wait")

(* Faulty variant: a name after a batch is passed over. *)
ReceiveDeleted_OffByOne ==
  /\ ee = "delete_wait" /\ iop = "idle"
  /\ FileIndex' = FileIndex + count + 1
  /\ ee' = "delete"
  /\ UNCHANGED <<fsVars, NumFiles, result, iopVars>>

(* Faulty variant: a name that cannot be deleted is tried for ever. *)
ReceiveDeleted_Stuck ==
  /\ ee = "delete_wait" /\ iop = "idle"
  /\ FileIndex' = FileIndex + count
  /\ ee' = "delete"
  /\ UNCHANGED <<fsVars, NumFiles, result, iopVars>>

(* A name that cannot be deleted is passed over. *)
ReceiveDeleted ==
  /\ ee = "delete_wait" /\ iop = "idle"
  /\ FileIndex' = FileIndex + (IF count > 0 THEN count ELSE 1)
  /\ ee' = "delete"
  /\ UNCHANGED <<fsVars, NumFiles, result, iopVars>>

EndDelete ==
  /\ ee = "delete" /\ FileIndex >= N
  /\ ee' = "deleted"
  /\ UNCHANGED <<fsVars, FileIndex, NumFiles, result, iopVars>>

-----------------------------------------------------------------------------
(* IOP: the names of a call one after the other. *)

Alias == IF Deleting THEN Uninstall[i] ELSE FileAlias[i]
Executable == Entry(FindFile(FileAlias[Own]).place)
NewDirEnt == [Executable EXCEPT !.name = Alias.name, !.live = TRUE]

NextName(done) == iop' = "next" /\ i' = i + 1 /\ count' = IF done THEN count + 1 ELSE count

EndCall ==
  /\ iop = "next" /\ i > batch[2]
  /\ iop' = "idle"
  /\ UNCHANGED <<fsVars, eeVars, batch, i, count, folder, target>>

(* The superblock, or the entry of the executable, cannot be read. *)
CallFails ==
  /\ iop = "next" /\ i = batch[1] /\ count = 0
  /\ Fault
  /\ iop' = "idle"
  /\ UNCHANGED <<fat, page, outside, eeVars, batch, i, count, folder, target>>

(* CreateNewVirtualDirent: the folder's entry is read first... *)
ReadFolder ==
  /\ iop = "next" /\ i <= batch[2] /\ ~Deleting
  /\ LET found == FindFolder(Alias.dir)
     IN \/ /\ found.result = "found" /\ NoFault
           /\ folder' = [entry |-> Entry(found.place), place |-> found.place]
           /\ iop' = "free_page"
           /\ UNCHANGED <<i, count>>
        \/ /\ IF found.result = "found" THEN Fault ELSE NoFault
           /\ NextName(FALSE) /\ UNCHANGED folder
  /\ UNCHANGED <<fat, page, outside, eeVars, batch, target>>

(* ...then a free page of its clusters is looked for and filled; no such page and any
   failure alike lead to a new cluster. *)
FillFreePage ==
  /\ iop = "free_page"
  /\ LET free == FreePage(Alias.dir)
     IN \/ /\ free.result = "found" /\ NoFault
           /\ UpdateDirEntInformation(free.place, NewDirEnt)
           /\ NextName(TRUE)
        \/ /\ free.result = "unused" /\ NoFault
           /\ UpdateDirEntInformation(free.place, NewDirEnt)
           /\ iop' = "grow" /\ UNCHANGED <<i, count>>
        \/ /\ IF free.result = "ENOENT" THEN NoFault /\ UNCHANGED <<page, outside>>
              ELSE UpdateDirEntFails(free.place, NewDirEnt)
           /\ iop' = "allocate" /\ UNCHANGED <<i, count>>
  /\ UNCHANGED <<fat, eeVars, batch, folder, target>>

(* AddFATRecord: the first free cluster is linked to the end of the chain... *)
AddFATRecord ==
  /\ iop = "allocate"
  /\ LET last == LastOf(folder.entry.cluster)
     IN \/ /\ FreeClusters = {} \/ last = Nil
           /\ target' = -EINVAL /\ iop' = "place"
           /\ UNCHANGED fat /\ NoFault
        \/ /\ FreeClusters # {} /\ last # Nil
           /\ \/ /\ UpdateFatTableIndexData(last, LinkTo(FirstFree)) /\ NoFault
                 /\ target' = FirstFree /\ iop' = "mark"
              \/ /\ UpdateFatFails(last, LinkTo(FirstFree))
                 /\ target' = -1 /\ iop' = "place"
  /\ UNCHANGED <<page, outside, eeVars, batch, i, count, folder>>

(* Faulty variant: the new cluster is not marked as the end. *)
MarkNewCluster_Forgotten ==
  /\ iop = "mark"
  /\ iop' = "place"
  /\ UNCHANGED <<fsVars, eeVars, batch, i, count, folder, target>>

(* ...and then marked as used. *)
MarkNewCluster ==
  /\ iop = "mark"
  /\ \/ UpdateFatTableIndexData(target, EndOfChain) /\ NoFault /\ UNCHANGED target
     \/ UpdateFatFails(target, EndOfChain) /\ target' = -1
  /\ iop' = "place"
  /\ UNCHANGED <<page, outside, eeVars, batch, i, count, folder>>

(* Only 0 is taken for an error: a negative number is a cluster before the data area. *)
PlaceEntry ==
  /\ iop = "place"
  /\ \/ /\ target = 0
        /\ NextName(FALSE) /\ NoFault /\ UNCHANGED <<page, outside>>
     \/ /\ target # 0
        /\ UpdateDirEntInformation(FirstPage(target), NewDirEnt) /\ NoFault
        /\ iop' = "grow" /\ UNCHANGED <<i, count>>
     \/ /\ target # 0
        /\ UpdateDirEntFails(FirstPage(target), NewDirEnt)
        /\ NextName(FALSE)
  /\ UNCHANGED <<fat, eeVars, batch, folder, target>>

(* The folder's entry is written back with one record more. *)
GrowFolder ==
  /\ iop = "grow"
  /\ LET grown == [folder.entry EXCEPT !.length = @ + 1]
     IN \/ UpdateDirEntInformation(folder.place, grown) /\ NoFault /\ NextName(TRUE)
        \/ UpdateDirEntFails(folder.place, grown) /\ NextName(FALSE)
  /\ UNCHANGED <<fat, eeVars, batch, folder, target>>

(* DeleteVirtualDirent: the entry is written back without its "exists" flag. *)
DeleteEntry ==
  /\ iop = "next" /\ i <= batch[2] /\ Deleting
  /\ LET found == FindFile(Alias)
         gone  == [Entry(found.place) EXCEPT !.live = FALSE]
     IN \/ /\ found.result = "found" /\ NoFault
           /\ UpdateDirEntInformation(found.place, gone)
           /\ iop' = "reread" /\ UNCHANGED <<i, count>>
        \/ /\ IF found.result = "found" THEN UpdateDirEntFails(found.place, gone)
              ELSE NoFault /\ UNCHANGED <<page, outside>>
           /\ NextName(FALSE)
  /\ UNCHANGED <<fat, eeVars, batch, folder, target>>

(* The folder is read once more for nothing; a failure hides that the entry is gone. *)
RereadFolder ==
  /\ iop = "reread"
  /\ \/ NoFault /\ NextName(TRUE)
     \/ Fault /\ NextName(FALSE)
  /\ UNCHANGED <<fat, page, outside, eeVars, batch, folder, target>>

-----------------------------------------------------------------------------
EENext ==
  \/ BeginCreate \/ SendBefore \/ SendAfter \/ Receive \/ SkipOwn \/ FlushCreated
  \/ BeginDelete \/ SendDelete \/ ReceiveDeleted \/ EndDelete

IOPNext ==
  \/ EndCall \/ CallFails \/ ReadFolder \/ FillFreePage \/ AddFATRecord \/ MarkNewCluster
  \/ PlaceEntry \/ GrowFolder \/ DeleteEntry \/ RereadFolder

Next == EENext \/ IOPNext

Spec == Init /\ [][Next]_vars
FairSpec == Spec /\ WF_vars(Next)

-----------------------------------------------------------------------------
(* Properties *)

EEPlaces == {"ready", "before", "before_wait", "skip", "after", "after_wait", "flush", "created",
             "delete", "delete_wait", "deleted"}
IOPPlaces == {"idle", "next", "free_page", "allocate", "mark", "place", "grow", "reread"}

(* The state has its type: in particular a call never goes past its batch, nor the EE past its table. *)
TypeOK ==
  /\ fat \in [Clusters -> FatEntries] /\ page \in [Clusters \X Slots -> Dirents]
  /\ outside \subseteq 0 .. AllocStart - 1 /\ faults \in 0 .. MaxFaults
  /\ ee \in EEPlaces /\ FileIndex \in 1 .. N + 1 /\ NumFiles \in 0 .. N /\ result \in -1 .. MaxEntries
  /\ iop \in IOPPlaces
  /\ batch[1] \in 1 .. N /\ batch[2] \in 0 .. N /\ batch[2] < batch[1] + MaxEntries
  /\ i \in 1 .. N + 1 /\ i <= batch[2] + 1 /\ count \in 0 .. i - batch[1]
  /\ folder.entry \in Dirents /\ folder.place.cluster \in Clusters /\ folder.place.slot \in Slots
  /\ target \in {-EINVAL, -1} \cup Clusters

Sound == faults = 0 /\ outside = {}

FolderEntry(dir) == Entry(FindFolder(dir).place)
ClustersOf(dir) == {Chain[k][FolderEntry(dir).cluster] : k \in 0 .. NumClusters} \ {Nil}

(* While nothing has failed and the card has had room, the chain of each folder ends within the
   card (but for the moment between the two writes of AddFATRecord), belongs to that
   folder alone, and has exactly the clusters that its records need (CreateNewVirtualDirent). *)
ChainsOK ==
  Sound =>
    \A d \in FoldersOfAliases :
      /\ iop # "mark" => LastOf(FolderEntry(d).cluster) # Nil
      /\ iop \notin {"mark", "place", "grow"} =>
           LET n == FolderEntry(d).length
           IN \E k \in 0 .. NumClusters :
                /\ Chain[k][FolderEntry(d).cluster] # Nil
                /\ Chain[k + 1][FolderEntry(d).cluster] = Nil
                /\ n > k * PagesPerCluster /\ n <= (k + 1) * PagesPerCluster
      /\ \A e \in FoldersOfAliases \ {d} : ClustersOf(d) \cap ClustersOf(e) = {}

(* While nothing has failed and the card has had room: once the cross-linked files have been created, the operation says so,
   and every name is found and leads to the clusters of the executable (CreateCrossLinkedFiles). *)
AllCreated ==
  ee = "created" /\ Sound =>
    /\ result >= 0
    /\ Visible = DOMAIN FileAlias
    /\ \A k \in Visible : Entry(FindFile(FileAlias[k]).place).cluster = Executable.cluster

(* While nothing has failed and the card has had room: a removal leaves no name but the executable's, which
   may then be deleted with its clusters (CleanupMultiInstallation). *)
AllDeleted ==
  ee = "deleted" /\ Sound => Visible = {Own}

(* With the failures of the run, as long as nothing is written before the data area: a write leaves alone the entry of
   every name that is found, but the one being deleted, a folder's entry only grows by one record, and no
   chain is cut or led elsewhere (CreateNewVirtualDirent, DeleteVirtualDirent, AddFATRecord).  Two failures
   may cross the chains of two folders, if the table returns to a folder after another one. *)
OthersKept ==
  [][outside' = {} =>
       /\ \A k \in Visible :
            LET p == FindFile(FileAlias[k]).place
            IN page'[<<p.cluster, p.slot>>] = Entry(p) \/ (Deleting /\ FileAlias[k] = Alias)
       /\ \A d \in FoldersOfAliases :
            LET p == FindFolder(d).place
            IN page'[<<p.cluster, p.slot>>] \in {Entry(p), [Entry(p) EXCEPT !.length = @ + 1]}
       /\ \A c \in Clusters : fat[c].used /\ fat[c] # EndOfChain => fat'[c] = fat[c]]_<<fat, page>>

(* The creation and the removal end, whatever fails. *)
Finishes == <>(ee = "deleted")

(* The comment of AddFATRecord: it returns the new cluster, or 0 on error. *)
NewClusterOrZero == iop = "place" => target \in Clusters
=============================================================================
