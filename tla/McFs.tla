-------------------------------- MODULE McFs --------------------------------
(***************************************************************************)
(* The file system of a memory card as MCTOOLS reads and writes it         *)
(* (mctools.c): a FAT of cluster chains, and folders whose entries are     *)
(* pages of the clusters of their chain.  A FAT entry is bit 31 ("used")   *)
(* and the number of the next cluster; Nil stands for 0x7FFFFFFF, the end  *)
(* of a chain when the entry is used.  Clusters count from alloc_start.    *)
(* A read may fail; a write that fails may have reached its page, because  *)
(* WriteCluster writes the pages of a cluster one by one.                  *)
(***************************************************************************)
EXTENDS Integers, Sequences

CONSTANTS
  NumClusters,       \* clusters of the card
  PagesPerCluster,
  AllocStart,        \* clusters before the data area: superblock and FAT
  Names,             \* names of files and folders
  MaxFaults          \* bound on the failures of one behaviour

ASSUME McFsAssumption ==
  /\ NumClusters \in Nat \ {0} /\ PagesPerCluster \in Nat \ {0}
  /\ AllocStart \in Nat /\ MaxFaults \in Nat

VARIABLES
  fat,               \* the FAT
  page,              \* the directory entry on each page of each cluster
  outside,           \* clusters before the data area that have been overwritten
  faults             \* reads and writes that have failed

fsVars == <<fat, page, outside, faults>>

Clusters == 0 .. NumClusters - 1
Nil == NumClusters
Slots == 0 .. PagesPerCluster - 1
EINVAL == 22

FatEntries == [used : BOOLEAN, next : Clusters \cup {Nil}]
Dirents == [name : Names, live : BOOLEAN, cluster : Clusters \cup {Nil}, length : Nat]

LinkTo(c) == [used |-> TRUE, next |-> c]
EndOfChain == LinkTo(Nil)

(* GetFatTableNextIndexData, once and k times *)
NextCluster == [c \in Clusters \cup {Nil} |-> IF c = Nil THEN Nil ELSE fat[c].next]
Chain[k \in 0 .. NumClusters] ==
  [start \in Clusters \cup {Nil} |-> IF k = 0 THEN start ELSE NextCluster[Chain[k - 1][start]]]

Entry(place) == page[<<place.cluster, place.slot>>]
FirstPage(c) == [cluster |-> c, slot |-> 0]

(***************************************************************************)
(* ScanThroughDirEnt: the record at which it stops, and why.  To "find" is *)
(* mode 0; "free" is mode 1, which stops at a deleted entry or at a page   *)
(* behind the last record, unless that record ends its cluster.            *)
(***************************************************************************)
Scans == [mode : {"find", "free"}, start : Clusters \cup {Nil}, nRecords : Nat, name : Names]
Scan == [scan \in Scans |->
  LET place(k) == [cluster |-> Chain[k \div PagesPerCluster][scan.start], slot |-> k % PagesPerCluster]
      n        == IF scan.nRecords < 1 THEN Entry(place(0)).length ELSE scan.nRecords
      stops(k) == \/ k >= n \/ place(k).cluster = Nil
                  \/ scan.mode = "free" /\ ~Entry(place(k)).live
                  \/ scan.mode = "find" /\ Entry(place(k)).live /\ Entry(place(k)).name = scan.name
      at       == CHOOSE k \in {j \in 0 .. n : stops(j)} : \A j \in 0 .. k - 1 : ~stops(j)
  IN [place  |-> place(at),
      result |-> IF place(at).cluster = Nil THEN "ENOENT"
                 ELSE IF at < n THEN "found"
                 ELSE IF scan.mode = "free" /\ at % PagesPerCluster # 0 THEN "unused" ELSE "ENOENT"]]

(* The chain of a folder; the root is known by the cluster its own entry is in. *)
FirstCluster(place) == IF place.cluster = 0 THEN 0 ELSE Entry(place).cluster

(* GetFileData, of a folder of the root and of a file in it *)
FindFolder(dir) == Scan[[mode |-> "find", start |-> 0, nRecords |-> 0, name |-> dir]]
FindFile(alias) ==
  LET folder == FindFolder(alias.dir)
  IN IF folder.result # "found" THEN folder
     ELSE Scan[[mode |-> "find", start |-> FirstCluster(folder.place),
                nRecords |-> Entry(folder.place).length, name |-> alias.name]]

(* Where GetSetFileData in mode 1 puts a new entry. *)
FreePage(dir) ==
  LET place == FindFolder(dir).place
  IN Scan[[mode |-> "free", start |-> FirstCluster(place), nRecords |-> Entry(place).length, name |-> dir]]

(* Faulty variant: the chain is not followed. *)
LastOf_First(start) == start

(* The last cluster of a chain; Nil when it leaves the card, for an error. *)
LastOf(start) ==
  LET ends == {k \in 0 .. NumClusters : Chain[k][start] # Nil /\ fat[Chain[k][start]] = EndOfChain}
  IN IF ends = {} THEN Nil ELSE Chain[CHOOSE k \in ends : \A j \in ends : k <= j][start]

FreeClusters == {c \in Clusters : ~fat[c].used}
FirstFree == CHOOSE c \in FreeClusters : \A d \in FreeClusters : c <= d

-----------------------------------------------------------------------------
NoFault == UNCHANGED faults
Fault == faults < MaxFaults /\ faults' = faults + 1

(* A cluster of the data area gets the entry on its page; before it, something of the FAT is lost. *)
UpdateDirEntInformation(place, entry) ==
  IF place.cluster >= 0
  THEN page' = [page EXCEPT ![<<place.cluster, place.slot>>] = entry] /\ UNCHANGED outside
  ELSE outside' = outside \cup {AllocStart + place.cluster} /\ UNCHANGED page

UpdateDirEntFails(place, entry) ==
  /\ Fault
  /\ \/ UNCHANGED <<page, outside>>
     \/ UpdateDirEntInformation(place, entry)

UpdateFatTableIndexData(index, data) == fat' = [fat EXCEPT ![index] = data]

UpdateFatFails(index, data) ==
  /\ Fault
  /\ \/ UNCHANGED fat
     \/ UpdateFatTableIndexData(index, data)
=============================================================================
