--------------------------- MODULE CrossLinkProofs ---------------------------
(***************************************************************************)
(* Proofs about the cross-linked files, for any table of names, any card   *)
(* that is formatted as CardsAssumption has it, any size of a batch and    *)
(* any number of failures.                                                 *)
(*                                                                         *)
(* EInv   has the two loops of the EE, and how far the IOP is with a batch.*)
(* CardOK holds whatever fails: the folders stay where they were, and each *)
(*        has the clusters it had and then some that were free.            *)
(* CallOK says what a call has found out about the folder it is in.        *)
(* SoundOK holds while nothing has failed and the card has had room: the   *)
(*        chains of the folders are apart and as long as their records     *)
(*        need, and exactly the names that are done have an entry.         *)
(* CalmOK holds as long as at most one operation on the card has failed    *)
(*        and nothing has been written before its data area: the chains    *)
(*        are still apart, though the last cluster of one may be free, and *)
(*        a folder may have a cluster more than its records need.          *)
(*                                                                         *)
(* The chains themselves are witnesses of the invariant (ch): CardOK and   *)
(* SoundOK speak of sequences of clusters, and the lemmas on ScanThrough-  *)
(* DirEnt and AddFATRecord say that the FAT is followed along them.        *)
(***************************************************************************)
EXTENDS CrossLink, SequenceLemmas, FiniteSetTheorems

-----------------------------------------------------------------------------
(* The parts of the inductive invariant. *)

(* The two loops of the EE, the batch they have sent, and how far the IOP is with it. *)
EEOK ==
  /\ ee \in EEPlaces /\ FileIndex \in 1 .. N + 1 /\ NumFiles \in 0 .. N /\ result \in -1 .. MaxEntries
  /\ ee \in {"before", "before_wait", "skip"} => FileIndex + NumFiles = Own
  /\ ee \in {"after", "after_wait", "flush"} => FileIndex + NumFiles = N + 1
  /\ ee \in {"delete", "delete_wait"} => FileIndex <= N
  /\ ee = "before_wait" => batch[2] < Own
  /\ ee = "delete_wait" => batch[2] < N

BatchOK ==
  /\ iop \in IOPPlaces
  /\ batch[1] \in 1 .. N /\ batch[2] \in 0 .. N /\ batch[2] < batch[1] + MaxEntries
  /\ i \in 1 .. N + 1 /\ i <= batch[2] + 1 /\ count \in 0 .. i - batch[1]
  /\ ee \in {"before_wait", "after_wait", "delete_wait"} => batch[1] = FileIndex /\ batch[1] <= batch[2]
  /\ iop # "idle" => ee \in {"before_wait", "after_wait", "delete_wait"}
  /\ iop \notin {"idle", "next"} => i <= batch[2] /\ (iop = "reread" <=> ee = "delete_wait")

EInv == EEOK /\ BatchOK

Home == FileAlias[Own].dir
Spare(card) == {c \in Clusters : ~card.fat[c].used}
FolderPage(card, d) == PageOf(card.root, card.record[d])
FolderLength(card, d) == page[FolderPage(card, d)].length
OwnPage(card) == PageOf(card.chain[Home], card.executable)

(* The root keeps its clusters, and of its records only lengths grow. *)
RootOK(card) ==
  /\ \A j \in DOMAIN card.root : fat[card.root[j]] = card.fat[card.root[j]]
  /\ page[<<0, 0>>] = card.page[<<0, 0>>]
  /\ \A r \in 0 .. card.page[<<0, 0>>].length - 1 :
       LET now  == page[PageOf(card.root, r)]
           then == card.page[PageOf(card.root, r)]
       IN /\ now.name = then.name /\ now.live = then.live /\ now.cluster = then.cluster
          /\ now.length >= then.length

(* A folder keeps its clusters; others that were free may be linked to them. *)
ChainOK(card, d, clusters) ==
  LET n == Len(card.chain[d])
      m == Len(clusters)
  IN /\ clusters \in Seq(Clusters) /\ n <= m
     /\ \A j, k \in 1 .. m : clusters[j] = clusters[k] => j = k
     /\ \A j \in 1 .. n : clusters[j] = card.chain[d][j]
     /\ \A j \in n + 1 .. m : clusters[j] \in Spare(card)
     /\ \A j \in 1 .. m - 1 : fat[clusters[j]] = LinkTo(clusters[j + 1])
     /\ fat[clusters[m]].next = Nil

FreeOK(card) == \A c \in Clusters : ~fat[c].used => c \in Spare(card) /\ fat[c].next = Nil

TypesOK ==
  /\ fat \in [Clusters -> FatEntries] /\ page \in [Clusters \X Slots -> Dirents]
  /\ outside \subseteq 0 .. AllocStart - 1 /\ faults \in 0 .. MaxFaults
  /\ folder.entry \in Dirents /\ folder.place.cluster \in Clusters /\ folder.place.slot \in Slots
  /\ target \in {-EINVAL, -1} \cup Clusters

(* What holds whatever fails. *)
CardOK(card, ch) ==
  /\ TypesOK /\ RootOK(card) /\ FreeOK(card)
  /\ page[OwnPage(card)] = card.page[OwnPage(card)]
  /\ \A d \in FoldersOfAliases : ChainOK(card, d, ch[d])

(* What a call has read and found. *)
CallOK(card) ==
  /\ iop \in {"free_page", "allocate", "mark", "place", "grow"} =>
       /\ folder.entry = page[FolderPage(card, Alias.dir)]
       /\ <<folder.place.cluster, folder.place.slot>> = FolderPage(card, Alias.dir)
  /\ iop = "mark" => target \in Clusters /\ ~fat[target].used
  /\ iop = "place" => target \in {-EINVAL, -1} \cup Spare(card)

(* The names that have an entry. *)
Listed(k) == IF k < Own THEN k ELSE k - 1
Done(k) ==
  \/ k = Own
  \/ ee \in {"before", "after"} /\ k < FileIndex
  \/ ee \in {"before_wait", "after_wait"} /\ k < i
  \/ ee = "created"
  \/ ee = "delete" /\ Listed(k) >= FileIndex
  \/ ee = "delete_wait" /\ (Listed(k) > i \/ (Listed(k) = i /\ iop # "reread"))

Has(clusters, k, r) ==
  LET entry == page[PageOf(clusters, r)] IN entry.live /\ entry.name = FileAlias[k].name

(* A name that has an entry has one only, with the clusters of the executable. *)
NameOK(card, ch, k) ==
  LET d == FileAlias[k].dir
      n == FolderLength(card, d)
  IN IF Done(k)
     THEN \E r \in 0 .. n - 1 :
            /\ Has(ch[d], k, r) /\ page[PageOf(ch[d], r)].cluster = page[OwnPage(card)].cluster
            /\ \A q \in 0 .. n - 1 : Has(ch[d], k, q) => q = r
     ELSE \A q \in 0 .. n - 1 : ~Has(ch[d], k, q)

(* The clusters of a folder are as many as its records need, one more while one is added. *)
Growing(d) == iop \in {"mark", "place", "grow"} /\ d = Alias.dir
SizeOK(card, d, clusters) ==
  LET n == FolderLength(card, d)
      m == Len(clusters)
  IN /\ ~Growing(d) => n > (m - 1) * PagesPerCluster /\ n <= m * PagesPerCluster
     /\ iop = "allocate" /\ d = Alias.dir => n = m * PagesPerCluster
     /\ Growing(d) /\ iop # "grow" =>
          IF target < 0 THEN n = m * PagesPerCluster ELSE n = (m - 1) * PagesPerCluster /\ clusters[m] = target
     /\ Growing(d) /\ iop = "grow" =>
          /\ n >= (m - 1) * PagesPerCluster /\ n < m * PagesPerCluster
          /\ page[PageOf(clusters, n)] = [page[OwnPage(card)] EXCEPT !.name = Alias.name, !.live = TRUE]

EndOK(d, clusters) ==
  IF iop = "mark" /\ d = Alias.dir THEN clusters[Len(clusters)] = target
  ELSE fat[clusters[Len(clusters)]] = EndOfChain

CountOK ==
  /\ result >= 0 /\ ee \notin {"skip", "flush"}
  /\ ee \in {"after", "after_wait"} => FileIndex > Own
  /\ ee \in {"before_wait", "after_wait", "delete_wait"} => count = i - batch[1] /\ (iop = "idle" => i = batch[2] + 1)

(* What holds while nothing has failed and the card has had room. *)
SoundOK(card, ch) ==
  /\ CountOK
  /\ \A d \in FoldersOfAliases : EndOK(d, ch[d]) /\ SizeOK(card, d, ch[d])
  /\ \A d, e \in FoldersOfAliases : d # e => Disjoint(ch[d], ch[e])
  /\ \A k \in DOMAIN FileAlias : NameOK(card, ch, k)

Holds(card, ch) == CardOK(card, ch) /\ CallOK(card) /\ (Sound => SoundOK(card, ch))

IInv == \E card \in Cards : \E ch \in [FoldersOfAliases -> Seq(Clusters)] : Holds(card, ch)
-----------------------------------------------------------------------------
(* The EE and its batches. *)

LEMMA Sizes == /\ NumClusters \in Nat \ {0} /\ PagesPerCluster \in Nat \ {0} /\ AllocStart \in Nat /\ MaxFaults \in Nat
               /\ Own \in 1 .. N /\ N \in Nat /\ MaxEntries \in Nat \ {0} /\ AllocStart >= EINVAL
               /\ EINVAL = 22 /\ FileAlias \in Seq([dir : Names, name : Names])
  BY McFsAssumption, CrossLinkAssumption DEF N, EINVAL

LEMMA EInit == Init => EInv
  BY Sizes DEF Init, EInv, EEOK, BatchOK, EEPlaces, IOPPlaces

(* A step that sends names. *)
LEMMA ECall ==
  ASSUME EInv, NEW n \in 1 .. N, NEW wait \in {"before_wait", "after_wait", "delete_wait"}, Call(Batch(n), wait),
         FileIndex + n <= N + 1,
         wait = "before_wait" => FileIndex + NumFiles = Own /\ n = NumFiles,
         wait = "after_wait" => FileIndex + NumFiles = N + 1,
         wait = "delete_wait" => FileIndex + n <= N
  PROVE  EInv'
<1> DEFINE m == IF n < MaxEntries THEN n ELSE MaxEntries
<1>1. m \in 1 .. N /\ m <= n /\ m <= MaxEntries
  BY Sizes
<1>2. batch' = <<FileIndex, FileIndex + m - 1>> /\ i' = FileIndex /\ count' = 0 /\ iop' = "next" /\ ee' = wait
  BY DEF Call, Batch
<1>3. UNCHANGED <<FileIndex, NumFiles, result>>
  BY DEF Call
<1> HIDE DEF m
<1>4. batch'[1] = FileIndex /\ batch'[2] = FileIndex + m - 1
  BY <1>2
<1>5. FileIndex \in 1 .. N + 1 /\ NumFiles \in 0 .. N /\ result \in -1 .. MaxEntries
  BY DEF EInv, EEOK
<1>6. EEOK'
  BY <1>1, <1>2, <1>3, <1>4, <1>5, Sizes DEF EEOK, EEPlaces
<1>7. BatchOK'
  BY <1>1, <1>2, <1>3, <1>4, <1>5, Sizes DEF BatchOK, IOPPlaces
<1> QED
  BY <1>6, <1>7 DEF EInv

LEMMA EStepEE == EInv /\ EENext => EInv'
<1> SUFFICES ASSUME EInv, EENext PROVE EInv'
  OBVIOUS
<1> USE Sizes
<1>1. CASE BeginCreate
  BY <1>1 DEF BeginCreate, EInv, EEOK, BatchOK, EEPlaces, IOPPlaces, iopVars
<1>2. CASE SendBefore
  <2>1. ee = "before" /\ NumFiles > 0 /\ Call(Batch(NumFiles), "before_wait")
    BY <1>2 DEF SendBefore
  <2>2. NumFiles \in 1 .. N /\ FileIndex + NumFiles = Own /\ FileIndex \in 1 .. N + 1
    BY <2>1 DEF EInv, EEOK
  <2> QED
    BY <2>1, <2>2, ECall
<1>3. CASE SendAfter
  <2>1. ee = "after" /\ NumFiles > 0 /\ Call(Batch(NumFiles), "after_wait")
    BY <1>3 DEF SendAfter
  <2>2. NumFiles \in 1 .. N /\ FileIndex + NumFiles = N + 1 /\ FileIndex \in 1 .. N + 1
    BY <2>1 DEF EInv, EEOK
  <2> QED
    BY <2>1, <2>2, ECall
<1>4. CASE Receive
  <2>1. FileIndex \in 1 .. N + 1 /\ NumFiles \in 0 .. N /\ batch[1] = FileIndex /\ batch[2] \in 0 .. N /\ count \in Int /\ i \in Int
    BY <1>4 DEF Receive, EInv, EEOK, BatchOK
  <2>2. count <= batch[2] + 1 - FileIndex /\ count <= MaxEntries /\ count >= 0
    BY <1>4, <2>1, SMTT(30) DEF Receive, EInv, EEOK, BatchOK
  <2>3. ee = "before_wait" => batch[2] < Own /\ FileIndex + NumFiles = Own
    BY DEF EInv, EEOK
  <2>4. ee = "after_wait" => FileIndex + NumFiles = N + 1
    BY DEF EInv, EEOK
  <2>5. ee \in {"before_wait", "after_wait"} /\ iop = "idle" /\ UNCHANGED <<iop, batch, i, count>>
    BY <1>4 DEF Receive, iopVars
  <2>6. BatchOK'
    BY <1>4, <2>5 DEF BatchOK, EInv, Receive
  <2>7. CASE count > 0
    <3>1. result' = count /\ FileIndex' = FileIndex + count /\ NumFiles' = NumFiles - count /\ ee' = IF ee = "before_wait" THEN "before" ELSE "after"
      BY <1>4, <2>7 DEF Receive
    <3>2. EEOK'
      BY <2>1, <2>2, <2>3, <2>4, <2>5, <2>7, <3>1 DEF EEOK, EEPlaces
    <3> QED
      BY <2>6, <3>2 DEF EInv
  <2>8. CASE ~ (count > 0)
    <3>1. result' = -1 /\ FileIndex' = FileIndex /\ NumFiles' = NumFiles /\ ee' = IF ee = "before_wait" THEN "skip" ELSE "flush"
      BY <1>4, <2>8 DEF Receive
    <3>2. EEOK'
      BY <2>1, <2>3, <2>4, <2>5, <3>1 DEF EEOK, EEPlaces
    <3> QED
      BY <2>6, <3>2 DEF EInv
  <2> QED
    BY <2>7, <2>8
<1>5. CASE SkipOwn
  BY <1>5 DEF SkipOwn, EInv, EEOK, BatchOK, EEPlaces, IOPPlaces, iopVars
<1>6. CASE FlushCreated
  BY <1>6 DEF FlushCreated, EInv, EEOK, BatchOK, EEPlaces, IOPPlaces, iopVars
<1>7. CASE BeginDelete
  BY <1>7 DEF BeginDelete, EInv, EEOK, BatchOK, EEPlaces, IOPPlaces, iopVars
<1>8. CASE SendDelete
  <2>1. ee = "delete" /\ FileIndex < N /\ Call(Batch(N - FileIndex), "delete_wait")
    BY <1>8 DEF SendDelete
  <2>2. N - FileIndex \in 1 .. N /\ FileIndex \in 1 .. N + 1
    BY <2>1 DEF EInv, EEOK
  <2> QED
    BY <2>1, <2>2, ECall
<1>9. CASE ReceiveDeleted
  BY <1>9, SMTT(30) DEF ReceiveDeleted, EInv, EEOK, BatchOK, EEPlaces, IOPPlaces, iopVars
<1>10. CASE EndDelete
  BY <1>10 DEF EndDelete, EInv, EEOK, BatchOK, EEPlaces, IOPPlaces, iopVars
<1> QED
  BY <1>1, <1>2, <1>3, <1>4, <1>5, <1>6, <1>7, <1>8, <1>9, <1>10 DEF EENext

(* A step of the IOP: it stays with its name, has done with it, or ends the call. *)
LEMMA EStepIOP == EInv /\ IOPNext => EInv'
<1> SUFFICES ASSUME EInv, IOPNext PROVE EInv'
  OBVIOUS
<1> USE Sizes
<1>1. UNCHANGED eeVars /\ UNCHANGED batch
  BY DEF IOPNext, EndCall, CallFails, ReadFolder, FillFreePage, AddFATRecord, MarkNewCluster, PlaceEntry, GrowFolder,
         DeleteEntry, RereadFolder, NextName
<1>2. CASE iop' = "idle" /\ UNCHANGED <<i, count>>
  BY <1>1, <1>2 DEF EInv, EEOK, BatchOK, EEPlaces, IOPPlaces, eeVars
<1>3. CASE /\ iop # "idle" /\ i <= batch[2] /\ UNCHANGED <<i, count>>
           /\ iop' \in IOPPlaces \ {"idle", "next"} /\ (iop' = "reread" <=> ee = "delete_wait")
  BY <1>1, <1>3 DEF EInv, EEOK, BatchOK, EEPlaces, IOPPlaces, eeVars
<1>4. CASE iop # "idle" /\ i <= batch[2] /\ (NextName(TRUE) \/ NextName(FALSE))
  <2>1. iop' = "next" /\ i' = i + 1 /\ (count' = count \/ count' = count + 1)
    BY <1>4 DEF NextName
  <2>2. BatchOK
    BY DEF EInv
  <2>3. BatchOK'
    BY <1>1, <1>4, <2>1, <2>2, SMTT(30) DEF BatchOK, IOPPlaces, eeVars
  <2>4. EEOK'
    BY <1>1 DEF EInv, EEOK, eeVars
  <2> QED
    BY <2>3, <2>4 DEF EInv
<1>5. EndCall \/ CallFails => iop' = "idle" /\ UNCHANGED <<i, count>>
  BY DEF EndCall, CallFails
<1>6. ReadFolder => iop = "next" /\ i <= batch[2] /\ ~Deleting /\ (NextName(TRUE) \/ NextName(FALSE) \/ (iop' = "free_page" /\ UNCHANGED <<i, count>>))
  BY DEF ReadFolder
<1>7. FillFreePage => iop = "free_page" /\ (NextName(TRUE) \/ NextName(FALSE) \/ (iop' \in {"grow", "allocate"} /\ UNCHANGED <<i, count>>))
  BY DEF FillFreePage
<1>8. AddFATRecord => iop = "allocate" /\ iop' \in {"mark", "place"} /\ UNCHANGED <<i, count>>
  BY DEF AddFATRecord
<1>9. MarkNewCluster => iop = "mark" /\ iop' = "place" /\ UNCHANGED <<i, count>>
  BY DEF MarkNewCluster
<1>10. PlaceEntry => iop = "place" /\ (NextName(TRUE) \/ NextName(FALSE) \/ (iop' = "grow" /\ UNCHANGED <<i, count>>))
  BY DEF PlaceEntry
<1>11. GrowFolder => iop = "grow" /\ (NextName(TRUE) \/ NextName(FALSE))
  BY DEF GrowFolder
<1>12. DeleteEntry => iop = "next" /\ i <= batch[2] /\ Deleting /\ (NextName(TRUE) \/ NextName(FALSE) \/ (iop' = "reread" /\ UNCHANGED <<i, count>>))
  BY DEF DeleteEntry
<1>13. RereadFolder => iop = "reread" /\ (NextName(TRUE) \/ NextName(FALSE))
  BY DEF RereadFolder
<1>14. iop \notin {"idle", "next"} => i <= batch[2] /\ (iop = "reread" <=> ee = "delete_wait")
  BY DEF EInv, BatchOK
<1>15. iop # "idle" => (Deleting <=> ee = "delete_wait")
  BY DEF EInv, BatchOK, Deleting
<1>16. {"free_page", "grow", "allocate", "mark", "place", "reread"} = IOPPlaces \ {"idle", "next"}
  BY DEF IOPPlaces
<1> QED
  BY <1>2, <1>3, <1>4, <1>5, <1>6, <1>7, <1>8, <1>9, <1>10, <1>11, <1>12, <1>13, <1>14, <1>15, <1>16, Zenon DEF IOPNext

LEMMA EAlways == Spec => []EInv
<1>1. EInv /\ [Next]_vars => EInv'
  <2> SUFFICES ASSUME EInv, [Next]_vars PROVE EInv'
    OBVIOUS
  <2>1. CASE Next
    BY <2>1, EStepEE, EStepIOP DEF Next
  <2>2. CASE UNCHANGED vars
    BY <2>2 DEF vars, eeVars, iopVars, EInv, EEOK, BatchOK
  <2> QED
    BY <2>1, <2>2
<1> QED
  BY EInit, <1>1, PTL DEF Spec

-----------------------------------------------------------------------------
(* Records and pages. *)

LEMMA Division ==
  ASSUME NEW p \in Nat \ {0}, NEW k \in Nat
  PROVE  k \div p \in Nat /\ k % p \in 0 .. p - 1 /\ k = (k \div p) * p + (k % p)
  OBVIOUS

LEMMA Multiples == ASSUME NEW p \in Nat \ {0}, NEW a \in Int, NEW b \in Int, a < b PROVE a * p + p <= b * p
  OBVIOUS

LEMMA Quotient ==
  ASSUME NEW p \in Nat \ {0}, NEW k \in Nat, NEW q \in Nat, NEW r \in 0 .. p - 1, k = q * p + r
  PROVE  k \div p = q /\ k % p = r
<1> DEFINE a == k \div p
<1> DEFINE b == k % p
<1>1. a \in Nat /\ b \in 0 .. p - 1 /\ k = a * p + b
  BY Division
<1> HIDE DEF a, b
<1>2. a < q => a * p + p <= q * p
  BY <1>1, Multiples
<1>3. q < a => q * p + p <= a * p
  BY <1>1, Multiples
<1>4. a * p \in Int /\ q * p \in Int
  BY <1>1
<1>5. a = q
  BY <1>1, <1>2, <1>3, <1>4
<1>6. b = r
  BY <1>1, <1>5
<1> QED
  BY <1>5, <1>6 DEF a, b

(* The k-th record is in the chain when the chain has as many pages. *)
LEMMA InChain ==
  ASSUME NEW m \in Nat, NEW r \in Nat
  PROVE  (r < m * PagesPerCluster <=> r \div PagesPerCluster < m) /\ m * PagesPerCluster \in Nat
<1> DEFINE p == PagesPerCluster
<1> DEFINE a == r \div p
<1> DEFINE b == r % p
<1>0. p \in Nat \ {0}
  BY Sizes
<1> HIDE DEF p
<1>1. a \in Nat /\ b \in 0 .. p - 1 /\ r = a * p + b
  BY <1>0, Division
<1> HIDE DEF a, b
<1>2. a < m => a * p + p <= m * p
  BY <1>0, <1>1, Multiples
<1>3. m < a => m * p + p <= a * p
  BY <1>0, <1>1, Multiples
<1>4. a * p \in Int /\ m * p \in Int /\ (m = a => m * p = a * p) /\ m * p >= 0
  BY <1>0, <1>1
<1>5. r < m * p <=> a < m
  BY <1>0, <1>1, <1>2, <1>3, <1>4
<1> QED
  BY <1>4, <1>5 DEF a, p

LEMMA PageIn ==
  ASSUME NEW s \in Seq(Clusters), NEW r \in Nat, r < Len(s) * PagesPerCluster
  PROVE  /\ r \div PagesPerCluster + 1 \in 1 .. Len(s) /\ r % PagesPerCluster \in Slots
         /\ s[r \div PagesPerCluster + 1] \in Clusters /\ PageOf(s, r) \in Clusters \X Slots
<1>1. r \div PagesPerCluster \in Nat /\ r % PagesPerCluster \in 0 .. PagesPerCluster - 1
  BY Division, Sizes
<1>2. r \div PagesPerCluster < Len(s)
  BY InChain
<1> QED
  BY <1>1, <1>2 DEF PageOf, Slots

(* Chains of distinct clusters, none of them in both, have no page twice. *)
LEMMA SamePage ==
  ASSUME NEW s \in Seq(Clusters), NEW t \in Seq(Clusters), NEW q \in Nat, NEW r \in Nat,
         q < Len(s) * PagesPerCluster, r < Len(t) * PagesPerCluster, PageOf(s, q) = PageOf(t, r)
  PROVE  \E j \in 1 .. Len(s), k \in 1 .. Len(t) :
           s[j] = t[k] /\ j = q \div PagesPerCluster + 1 /\ k = r \div PagesPerCluster + 1 /\ (j = k => q = r)
<1> DEFINE p == PagesPerCluster
<1> DEFINE a == q \div p
<1> DEFINE b == r \div p
<1>1. a + 1 \in 1 .. Len(s) /\ b + 1 \in 1 .. Len(t)
  BY PageIn
<1>2. s[a + 1] = t[b + 1] /\ q % p = r % p
  BY DEF PageOf
<1>3. q = a * p + (q % p) /\ r = b * p + (r % p) /\ a \in Nat /\ b \in Nat
  BY Division, Sizes
<1>4. a + 1 = b + 1 => q = r
  BY <1>2, <1>3
<1> QED
  BY <1>1, <1>2, <1>4

LEMMA OnePage ==
  ASSUME NEW s \in Seq(Clusters), \A j, k \in 1 .. Len(s) : s[j] = s[k] => j = k,
         NEW q \in Nat, NEW r \in Nat, q < Len(s) * PagesPerCluster, r < Len(s) * PagesPerCluster, PageOf(s, q) = PageOf(s, r)
  PROVE  q = r
  BY SamePage

-----------------------------------------------------------------------------
(* Chains. *)

(* A recursive function has a value because one can be built up to every number. *)
Again(S, g, M, f) == [k \in 0 .. M |-> [s \in S |-> IF k = 0 THEN s ELSE g[f[k - 1][s]]]]

LEMMA Unfolded ==
  ASSUME NEW S, NEW g, NEW M, NEW f, f = Again(S, g, M, f)
  PROVE  \A k \in 0 .. M : \A s \in S : f[k][s] = IF k = 0 THEN s ELSE g[f[k - 1][s]]
<1> SUFFICES ASSUME NEW k \in 0 .. M, NEW s \in S PROVE f[k][s] = IF k = 0 THEN s ELSE g[f[k - 1][s]]
  OBVIOUS
<1>1. f[k] = [t \in S |-> IF k = 0 THEN t ELSE g[f[k - 1][t]]]
  BY Zenon DEF Again
<1> QED
  BY <1>1, Zenon

LEMMA Iterated ==
  ASSUME NEW S, NEW g \in [S -> S], NEW M \in Nat
  PROVE  \E G : G = Again(S, g, M, G)
<1> DEFINE Upto(m) == {G \in [0 .. m -> [S -> S]] : \A k \in 0 .. m : \A s \in S : G[k][s] = IF k = 0 THEN s ELSE g[G[k - 1][s]]}
<1> DEFINE Built == {m \in Nat : Upto(m) # {}}
<1>1. 0 \in Built
  <2> DEFINE G == [k \in 0 .. 0 |-> [s \in S |-> s]]
  <2>1. G \in Upto(0)
    OBVIOUS
  <2> QED
    BY <2>1
<1>2. ASSUME NEW m \in Nat, m \in Built PROVE m + 1 \in Built
  <2>1. PICK G \in [0 .. m -> [S -> S]] : \A k \in 0 .. m : \A s \in S : G[k][s] = IF k = 0 THEN s ELSE g[G[k - 1][s]]
    BY <1>2
  <2> DEFINE last == [s \in S |-> g[G[m][s]]]
  <2> DEFINE H == [k \in 0 .. m + 1 |-> IF k = m + 1 THEN last ELSE G[k]]
  <2>0. last \in [S -> S] /\ \A s \in S : last[s] = g[G[m][s]]
    OBVIOUS
  <2> HIDE DEF last
  <2>2. H \in [0 .. m + 1 -> [S -> S]] /\ H[m + 1] = last /\ \A k \in 0 .. m : H[k] = G[k]
    BY <2>0
  <2> HIDE DEF H
  <2>3. ASSUME NEW k \in 0 .. m + 1, NEW s \in S PROVE H[k][s] = IF k = 0 THEN s ELSE g[H[k - 1][s]]
    <3>1. CASE k = m + 1
      <4>1. k # 0 /\ k - 1 = m /\ k - 1 \in 0 .. m
        BY <3>1
      <4>2. H[k] = last /\ H[k - 1] = G[m]
        BY <2>2, <3>1, <4>1
      <4> QED
        BY <2>0, <4>1, <4>2
    <3>2. CASE k \in 0 .. m
      <4>1. H[k] = G[k] /\ (k # 0 => H[k - 1] = G[k - 1])
        BY <2>2, <3>2
      <4> QED
        BY <2>1, <3>2, <4>1
    <3> QED
      BY <3>1, <3>2
  <2>4. H \in Upto(m + 1)
    BY <2>2, <2>3
  <2> HIDE DEF Upto
  <2> QED
    BY <2>4
<1>3. M \in Built
  <2> HIDE DEF Built
  <2>1. Nat \subseteq Built
    BY <1>1, <1>2, Induct
  <2> QED
    BY <2>1
<1>4. PICK G \in [0 .. M -> [S -> S]] : \A k \in 0 .. M : \A s \in S : G[k][s] = IF k = 0 THEN s ELSE g[G[k - 1][s]]
  BY <1>3
<1>5. G = Again(S, g, M, G)
  <2>1. ASSUME NEW k \in 0 .. M PROVE G[k] = [s \in S |-> IF k = 0 THEN s ELSE g[G[k - 1][s]]]
    BY <1>4
  <2> QED
    BY <1>4, <2>1 DEF Again
<1> QED
  BY <1>5

LEMMA ChainSteps ==
  ASSUME fat \in [Clusters -> FatEntries]
  PROVE  \A k \in 0 .. NumClusters : \A s \in Clusters \cup {Nil} :
           Chain[k][s] = IF k = 0 THEN s ELSE NextCluster[Chain[k - 1][s]]
<1> DEFINE S == Clusters \cup {Nil}
<1>1. NextCluster \in [S -> S]
  BY DEF NextCluster, FatEntries
<1>2. NumClusters \in Nat
  BY Sizes
<1>3. Chain = CHOOSE h : h = Again(S, NextCluster, NumClusters, h)
  BY Zenon DEF Chain, Again
<1> HIDE DEF Chain, NextCluster, S
<1>4. \E G : G = Again(S, NextCluster, NumClusters, G)
  BY <1>1, <1>2, Iterated
<1>5. Chain = Again(S, NextCluster, NumClusters, Chain)
  BY <1>3, <1>4, Zenon
<1>6. \A k \in 0 .. NumClusters : \A s \in S : Chain[k][s] = IF k = 0 THEN s ELSE NextCluster[Chain[k - 1][s]]
  BY <1>5, Unfolded
<1> QED
  BY <1>6 DEF S

(* Distinct clusters that are linked, up to one that is not. *)
Run(s) ==
  /\ s \in Seq(Clusters) /\ Len(s) >= 1
  /\ \A j, k \in 1 .. Len(s) : s[j] = s[k] => j = k
  /\ \A j \in 1 .. Len(s) - 1 : fat[s[j]].next = s[j + 1]
  /\ fat[s[Len(s)]].next = Nil

LEMMA Longest ==
  ASSUME NEW s \in Seq(Clusters), \A j, k \in 1 .. Len(s) : s[j] = s[k] => j = k
  PROVE  Len(s) <= NumClusters
<1>1. IsFiniteSet(Clusters) /\ Cardinality(Clusters) = NumClusters
  BY Sizes, FS_Interval DEF Clusters
<1>2. IsFiniteSet(1 .. Len(s)) /\ Cardinality(1 .. Len(s)) = Len(s)
  <2>1. Len(s) \in Nat
    OBVIOUS
  <2>2. IsFiniteSet(1 .. Len(s)) /\ Cardinality(1 .. Len(s)) = IF 1 > Len(s) THEN 0 ELSE Len(s) - 1 + 1
    BY <2>1, FS_Interval
  <2> QED
    BY <2>1, <2>2
<1>3. s \in Injection(1 .. Len(s), Clusters)
  BY DEF Injection, IsInjective
<1> QED
  BY <1>1, <1>2, <1>3, FS_Injection

LEMMA ChainOf ==
  ASSUME fat \in [Clusters -> FatEntries], NEW s, Run(s)
  PROVE  /\ Len(s) \in 1 .. NumClusters
         /\ \A k \in 0 .. NumClusters : Chain[k][s[1]] = IF k < Len(s) THEN s[k + 1] ELSE Nil
<1>1. Len(s) \in 1 .. NumClusters
  BY Longest DEF Run
<1> DEFINE Right == {k \in Nat : k <= NumClusters => Chain[k][s[1]] = IF k < Len(s) THEN s[k + 1] ELSE Nil}
<1>2. s[1] \in Clusters \cup {Nil}
  BY <1>1 DEF Run
<1>3. \A k \in 0 .. NumClusters : Chain[k][s[1]] = IF k = 0 THEN s[1] ELSE NextCluster[Chain[k - 1][s[1]]]
  BY <1>2, ChainSteps
<1>4. 0 \in Right
  BY <1>1, <1>3, Sizes
<1>5. ASSUME NEW k \in Nat, k \in Right PROVE k + 1 \in Right
  <2> SUFFICES ASSUME k + 1 <= NumClusters PROVE Chain[k + 1][s[1]] = IF k + 1 < Len(s) THEN s[k + 2] ELSE Nil
    OBVIOUS
  <2>1. Chain[k + 1][s[1]] = NextCluster[Chain[k][s[1]]]
    BY <1>3, Sizes
  <2>2. Chain[k][s[1]] = IF k < Len(s) THEN s[k + 1] ELSE Nil
    BY <1>5, Sizes
  <2>3. NextCluster[Nil] = Nil /\ \A c \in Clusters : NextCluster[c] = fat[c].next
    <3>1. Nil \in Clusters \cup {Nil} /\ Nil \notin Clusters
      BY Sizes DEF Clusters, Nil
    <3> QED
      BY <3>1, Zenon DEF NextCluster
  <2> HIDE DEF NextCluster, Chain
  <2>4. CASE k >= Len(s)
    BY <1>1, <2>1, <2>2, <2>3, <2>4
  <2>5. CASE k < Len(s)
    <3>1. s[k + 1] \in Clusters /\ k + 1 \in 1 .. Len(s)
      BY <2>5 DEF Run
    <3>2. Chain[k + 1][s[1]] = fat[s[k + 1]].next
      BY <2>1, <2>2, <2>3, <2>5, <3>1
    <3> QED
      BY <1>1, <2>5, <3>1, <3>2 DEF Run
  <2> QED
    BY <1>1, <2>4, <2>5
<1>6. Nat \subseteq Right
  <2> HIDE DEF Right
  <2> QED
    BY <1>4, <1>5, Induct
<1> QED
  BY <1>1, <1>6, Sizes

-----------------------------------------------------------------------------
(* Scans. *)

PlaceIn(s, r) == [cluster |-> s[r \div PagesPerCluster + 1], slot |-> r % PagesPerCluster]

(* What a scan stops at before the end. *)
Hit(mode, name, entry) == (mode = "free" /\ ~entry.live) \/ (mode = "find" /\ entry.live /\ entry.name = name)

LEMMA Scanned ==
  ASSUME fat \in [Clusters -> FatEntries], page \in [Clusters \X Slots -> Dirents],
         NEW s, Run(s), NEW q \in Scans, q.start = s[1],
         NEW n \in Nat \ {0}, n = IF q.nRecords < 1 THEN page[<<s[1], 0>>].length ELSE q.nRecords
  PROVE  LET R == Scan[q]
             m == Len(s) * PagesPerCluster
         IN \E r \in 0 .. n :
              /\ r <= m /\ \A j \in 0 .. r - 1 : ~Hit(q.mode, q.name, page[PageOf(s, j)])
              /\ r < m => R.place = PlaceIn(s, r)
              /\ \/ r < n /\ r < m /\ R.result = "found" /\ Hit(q.mode, q.name, page[PageOf(s, r)])
                 \/ r = n /\ r < m /\ R.result = IF q.mode = "free" /\ r % PagesPerCluster # 0 THEN "unused" ELSE "ENOENT"
                 \/ r = m /\ R.result = "ENOENT"
<1> DEFINE m == Len(s) * PagesPerCluster
<1> DEFINE place(k) == [cluster |-> Chain[k \div PagesPerCluster][q.start], slot |-> k % PagesPerCluster]
<1> DEFINE nn == IF q.nRecords < 1 THEN Entry(place(0)).length ELSE q.nRecords
<1> DEFINE stops(k) == \/ k >= nn \/ place(k).cluster = Nil
                       \/ q.mode = "free" /\ ~Entry(place(k)).live
                       \/ q.mode = "find" /\ Entry(place(k)).live /\ Entry(place(k)).name = q.name
<1> DEFINE T == {j \in 0 .. nn : stops(j)}
<1> DEFINE at == CHOOSE k \in T : \A j \in 0 .. k - 1 : ~stops(j)
<1> DEFINE R == Scan[q]
<1>1. s \in Seq(Clusters) /\ Len(s) \in 1 .. NumClusters /\ Len(s) \in Nat /\ s[1] \in Clusters
  <2>1. Len(s) \in 1 .. NumClusters
    BY ChainOf
  <2>2. s \in Seq(Clusters)
    BY DEF Run
  <2> QED
    BY <2>1, <2>2
<1>0. \A k \in 0 .. NumClusters : Chain[k][q.start] = IF k < Len(s) THEN s[k + 1] ELSE Nil
  BY ChainOf
<1>17. q.mode \in {"find", "free"} /\ q.nRecords \in Nat
  BY DEF Scans
<1>2. m \in Nat /\ m > 0 /\ \A r \in Nat : r < m <=> r \div PagesPerCluster < Len(s)
  <2>1. 0 \div PagesPerCluster = 0
    BY Division, Sizes, Quotient
  <2> QED
    BY <1>1, <2>1, InChain
<1>3. \A r \in Nat : r < m => place(r) = PlaceIn(s, r) /\ Entry(place(r)) = page[PageOf(s, r)] /\ place(r).cluster # Nil
  <2> SUFFICES ASSUME NEW r \in Nat, r < m
               PROVE  place(r) = PlaceIn(s, r) /\ Entry(place(r)) = page[PageOf(s, r)] /\ place(r).cluster # Nil
    OBVIOUS
  <2>1. r \div PagesPerCluster \in Nat /\ r \div PagesPerCluster < Len(s)
    BY <1>2, Division, Sizes
  <2>2. Chain[r \div PagesPerCluster][q.start] = s[r \div PagesPerCluster + 1]
    <3> DEFINE a == r \div PagesPerCluster
    <3>0. a \in Nat /\ a < Len(s)
      BY <2>1
    <3> HIDE DEF Chain, a
    <3>1. a \in 0 .. NumClusters
      BY <1>1, <3>0, Sizes
    <3>2. Chain[a][q.start] = s[a + 1]
      BY <1>0, <3>0, <3>1
    <3> QED
      BY <3>2 DEF a
  <2>3. s[r \div PagesPerCluster + 1] \in Clusters
    BY <1>1, <2>1
  <2>4. s[r \div PagesPerCluster + 1] # Nil
    BY <2>3, Sizes DEF Clusters, Nil
  <2> QED
    BY <2>2, <2>4 DEF PlaceIn, Entry, PageOf
<1>4. place(m).cluster = Nil
  <2>1. m \div PagesPerCluster = Len(s)
    BY <1>1, Quotient, Sizes
  <2> QED
    BY <1>0, <1>1, <2>1
<1>5. R = [place  |-> place(at),
           result |-> IF place(at).cluster = Nil THEN "ENOENT"
                      ELSE IF at < nn THEN "found"
                      ELSE IF q.mode = "free" /\ at % PagesPerCluster # 0 THEN "unused" ELSE "ENOENT"]
  BY Zenon DEF Scan
<1>18. nn = n
  <2>2. Chain[0 \div PagesPerCluster][q.start] = s[1] /\ 0 % PagesPerCluster = 0
    BY <1>0, <1>1, Quotient, Sizes
  <2> QED
    BY <2>2 DEF Entry
<1> HIDE DEF nn
<1> HIDE DEF place
<1>6. \A k \in Nat : k < n /\ k < m => (stops(k) <=> Hit(q.mode, q.name, page[PageOf(s, k)]))
  BY <1>3, <1>18 DEF Hit
<1>7. stops(n) /\ stops(m)
  BY <1>2, <1>4, <1>18
<1>8. \E k \in T : \A j \in 0 .. k - 1 : ~stops(j)
  <2> HIDE DEF stops
  <2>1. n \in T /\ T \subseteq Nat
    BY <1>7, <1>18
  <2> HIDE DEF T
  <2>2. PICK k \in T : \A j \in T : k <= j
    BY <2>1, Least
  <2>3. ASSUME NEW j \in 0 .. k - 1 PROVE j \notin T
    BY <2>1, <2>2
  <2>4. k \in 0 .. nn /\ nn \in Nat
    BY <1>18 DEF T
  <2>5. ASSUME NEW j \in 0 .. k - 1 PROVE ~stops(j)
    <3>1. j \in 0 .. nn
      BY <2>4
    <3> QED
      BY <2>3, <3>1 DEF T
  <2> QED
    BY <2>2, <2>5
<1>9. at \in T /\ \A j \in 0 .. at - 1 : ~stops(j)
  <2> HIDE DEF T, stops
  <2> QED
    BY <1>8, Zenon
<1> HIDE DEF at, R
<1>10. at \in 0 .. n /\ stops(at)
  BY <1>9, <1>18
<1>11. at <= m
  <2> HIDE DEF stops
  <2> QED
    BY <1>2, <1>7, <1>9, <1>10
<1>12. \A j \in 0 .. at - 1 : ~Hit(q.mode, q.name, page[PageOf(s, j)])
  <2> HIDE DEF stops, m
  <2> QED
    BY <1>2, <1>6, <1>9, <1>10, <1>11
<1>13. R.place = place(at)
  BY <1>5
<1>14. CASE at < n /\ at < m
  <2>1. Hit(q.mode, q.name, page[PageOf(s, at)])
    <3> HIDE DEF stops, m
    <3>1. at \in Nat
      BY <1>10
    <3> QED
      BY <1>6, <1>10, <1>14, <3>1, Zenon
  <2>2. R.result = "found" /\ R.place = PlaceIn(s, at)
    BY <1>3, <1>5, <1>10, <1>14, <1>18
  <2> HIDE DEF stops, m
  <2> QED
    BY <1>10, <1>11, <1>12, <1>14, <2>1, <2>2 DEF m, R
<1>15. CASE at = n /\ at < m
  <2>1. R.place = PlaceIn(s, at) /\ place(at).cluster # Nil
    BY <1>3, <1>10, <1>13, <1>15
  <2>2. R.result = IF q.mode = "free" /\ at % PagesPerCluster # 0 THEN "unused" ELSE "ENOENT"
    BY <1>5, <1>15, <1>18, <2>1
  <2> HIDE DEF stops, m
  <2> QED
    BY <1>10, <1>11, <1>12, <1>15, <2>1, <2>2 DEF m, R
<1>16. CASE at = m
  <2>1. R.result = "ENOENT"
    BY <1>4, <1>5, <1>16
  <2> HIDE DEF stops, m
  <2> QED
    BY <1>2, <1>10, <1>11, <1>12, <1>16, <2>1 DEF m, R
<1> QED
  BY <1>2, <1>10, <1>11, <1>14, <1>15, <1>16

-----------------------------------------------------------------------------
(* What is on a card. *)

LEMMA Links ==
  \A c \in Clusters \cup {Nil} : LinkTo(c) \in FatEntries /\ LinkTo(c).used /\ LinkTo(c).next = c /\ (LinkTo(c) = EndOfChain => c = Nil)
  BY DEF LinkTo, FatEntries, EndOfChain

LEMMA Ended == EndOfChain \in FatEntries /\ EndOfChain.used /\ EndOfChain.next = Nil /\ Nil \notin Clusters /\ 0 \in Clusters
  BY Sizes DEF LinkTo, FatEntries, EndOfChain, Nil, Clusters

LEMMA ChainParts ==
  ASSUME NEW table, NEW s, IsChain(table, s)
  PROVE  /\ s \in Seq(Clusters) /\ Len(s) >= 1
         /\ \A j, k \in 1 .. Len(s) : s[j] = s[k] => j = k
         /\ \A j \in 1 .. Len(s) - 1 : table[s[j]] = LinkTo(s[j + 1])
         /\ table[s[Len(s)]] = EndOfChain
         /\ \A j \in 1 .. Len(s) : table[s[j]].used
<1>1. s \in Seq(Clusters) /\ s # <<>> /\ DOMAIN s = 1 .. Len(s)
  BY DEF IsChain
<1>2. \A j, k \in 1 .. Len(s) : s[j] = s[k] => j = k
  BY <1>1 DEF IsChain
<1>3. \A j \in 1 .. Len(s) : table[s[j]] = IF j < Len(s) THEN LinkTo(s[j + 1]) ELSE EndOfChain
  BY <1>1 DEF IsChain
<1>4. Len(s) >= 1
  BY <1>1
<1>5. \A j \in 1 .. Len(s) - 1 : table[s[j]] = LinkTo(s[j + 1]) /\ s[j + 1] \in Clusters
  BY <1>1, <1>3
<1>6. table[s[Len(s)]] = EndOfChain
  BY <1>1, <1>3, <1>4
<1>7. \A j \in 1 .. Len(s) : table[s[j]].used
  <2> SUFFICES ASSUME NEW j \in 1 .. Len(s) PROVE table[s[j]].used
    OBVIOUS
  <2>1. CASE j = Len(s)
    BY <1>6, <2>1, Ended
  <2>2. CASE j \in 1 .. Len(s) - 1
    BY <1>5, <2>2, Links
  <2> QED
    BY <2>1, <2>2
<1> QED
  BY <1>1, <1>2, <1>4, <1>5, <1>6, <1>7

LEMMA RootIs ==
  ASSUME NEW card \in Cards
  PROVE  /\ card.fat \in [Clusters -> FatEntries] /\ card.page \in [Clusters \X Slots -> Dirents]
         /\ \A c \in Clusters : ~card.fat[c].used => card.fat[c].next = Nil
         /\ IsChain(card.fat, card.root) /\ card.root \in Seq(Clusters) /\ Len(card.root) >= 1 /\ card.root[1] = 0
         /\ card.page[<<0, 0>>].length \in Nat \ {0}
         /\ card.page[<<0, 0>>].length <= Len(card.root) * PagesPerCluster
         /\ card.chain \in [FoldersOfAliases -> Seq(Clusters)]
         /\ \A d \in FoldersOfAliases : card.record[d] \in Nat /\ card.record[d] < card.page[<<0, 0>>].length /\ card.record[d] >= PagesPerCluster
<1> DEFINE n == card.page[<<0, 0>>].length
<1> DEFINE m == Len(card.root) * PagesPerCluster
<1>1. FormattedRoot(card) /\ card.chain \in [FoldersOfAliases -> Seq(Clusters)]
  BY CardsAssumption
<1>2. IsChain(card.fat, card.root) /\ card.root[1] = 0
  BY <1>1 DEF FormattedRoot
<1>3. card.root \in Seq(Clusters) /\ Len(card.root) >= 1
  BY <1>2, ChainParts
<1>4. n \in 1 .. m /\ m \in Nat
  BY <1>1, <1>3, Sizes DEF FormattedRoot
<1>5. card.record \in [FoldersOfAliases -> PagesPerCluster .. n - 1]
  BY <1>1 DEF FormattedRoot
<1>6. card.fat \in [Clusters -> FatEntries] /\ card.page \in [Clusters \X Slots -> Dirents]
      /\ \A c \in Clusters : ~card.fat[c].used => card.fat[c].next = Nil
  BY <1>1 DEF FormattedRoot
<1> HIDE DEF n, m
<1>7. \A d \in FoldersOfAliases : card.record[d] \in Nat /\ card.record[d] < n /\ card.record[d] >= PagesPerCluster
  BY <1>4, <1>5, Sizes
<1>8. n \in Nat \ {0} /\ n <= m
  BY <1>4
<1> QED
  BY <1>1, <1>2, <1>3, <1>6, <1>7, <1>8 DEF n, m

LEMMA FolderIs ==
  ASSUME NEW card \in Cards, NEW d \in FoldersOfAliases
  PROVE  /\ IsChain(card.fat, card.chain[d]) /\ card.chain[d] \in Seq(Clusters) /\ Len(card.chain[d]) >= 1
         /\ \A j \in 1 .. Len(card.root), k \in 1 .. Len(card.chain[d]) : card.root[j] # card.chain[d][k]
         /\ \A e \in FoldersOfAliases \ {d} :
              \A j \in 1 .. Len(card.chain[e]), k \in 1 .. Len(card.chain[d]) : card.chain[e][j] # card.chain[d][k]
         /\ card.page[FolderPage(card, d)].live /\ card.page[FolderPage(card, d)].name = d
         /\ card.page[FolderPage(card, d)].cluster = card.chain[d][1]
         /\ \A r \in 0 .. card.record[d] - 1 : card.page[PageOf(card.root, r)].live => card.page[PageOf(card.root, r)].name # d
         /\ card.page[FolderPage(card, d)].length > (Len(card.chain[d]) - 1) * PagesPerCluster
         /\ card.page[FolderPage(card, d)].length <= Len(card.chain[d]) * PagesPerCluster
<1>1. FormattedFolder(card, d)
  BY CardsAssumption
<1>2. IsChain(card.fat, card.chain[d]) /\ card.chain[d] \in Seq(Clusters) /\ Len(card.chain[d]) >= 1
  BY <1>1, ChainParts DEF FormattedFolder
<1>3. card.root \in Seq(Clusters) /\ card.chain \in [FoldersOfAliases -> Seq(Clusters)]
  BY RootIs
<1>4. DOMAIN card.root = 1 .. Len(card.root) /\ \A e \in FoldersOfAliases : DOMAIN card.chain[e] = 1 .. Len(card.chain[e])
  BY <1>3
<1>5. Disjoint(card.root, card.chain[d]) /\ \A e \in FoldersOfAliases \ {d} : Disjoint(card.chain[e], card.chain[d])
  BY <1>1 DEF FormattedFolder
<1>6. \A j \in 1 .. Len(card.root), k \in 1 .. Len(card.chain[d]) : card.root[j] # card.chain[d][k]
  BY <1>4, <1>5, Zenon DEF Disjoint
<1>7. \A e \in FoldersOfAliases \ {d} :
        \A j \in 1 .. Len(card.chain[e]), k \in 1 .. Len(card.chain[d]) : card.chain[e][j] # card.chain[d][k]
  <2> SUFFICES ASSUME NEW e \in FoldersOfAliases, e # d
               PROVE  \A j \in 1 .. Len(card.chain[e]), k \in 1 .. Len(card.chain[d]) : card.chain[e][j] # card.chain[d][k]
    BY Zenon
  <2> QED
    BY <1>4, <1>5, Zenon DEF Disjoint
<1> QED
  BY <1>1, <1>2, <1>6, <1>7, Zenon DEF FormattedFolder, FolderPage

(* The root and the folders can be followed, and have nothing in common but that folders may share clusters that were free. *)
LEMMA RootRun ==
  ASSUME NEW card \in Cards, RootOK(card)
  PROVE  Run(card.root) /\ \A j \in 1 .. Len(card.root) : fat[card.root[j]].used /\ fat[card.root[j]] = card.fat[card.root[j]]
<1>1. IsChain(card.fat, card.root) /\ card.root \in Seq(Clusters) /\ Len(card.root) >= 1
  BY RootIs
<1>2. \A j, k \in 1 .. Len(card.root) : card.root[j] = card.root[k] => j = k
  BY <1>1, ChainParts
<1>3. \A j \in 1 .. Len(card.root) - 1 : card.fat[card.root[j]] = LinkTo(card.root[j + 1])
  BY <1>1, ChainParts
<1>4. card.fat[card.root[Len(card.root)]] = EndOfChain /\ \A j \in 1 .. Len(card.root) : card.fat[card.root[j]].used
  BY <1>1, ChainParts
<1>5. \A j \in 1 .. Len(card.root) : fat[card.root[j]] = card.fat[card.root[j]]
  <2>1. DOMAIN card.root = 1 .. Len(card.root)
    BY <1>1
  <2> QED
    BY <2>1 DEF RootOK
<1>6. \A j \in 1 .. Len(card.root) - 1 : fat[card.root[j]].next = card.root[j + 1]
  <2> SUFFICES ASSUME NEW j \in 1 .. Len(card.root) - 1 PROVE fat[card.root[j]].next = card.root[j + 1]
    OBVIOUS
  <2>1. j \in 1 .. Len(card.root) /\ card.root[j + 1] \in Clusters
    BY <1>1
  <2> QED
    BY <1>3, <1>5, <2>1, Links
<1>7. Len(card.root) \in 1 .. Len(card.root)
  BY <1>1
<1>8. fat[card.root[Len(card.root)]].next = Nil
  BY <1>4, <1>5, <1>7, Ended
<1> QED
  BY <1>1, <1>2, <1>4, <1>5, <1>6, <1>8 DEF Run

LEMMA FolderRun ==
  ASSUME NEW card \in Cards, NEW d \in FoldersOfAliases, NEW s, ChainOK(card, d, s)
  PROVE  Run(s) /\ s[1] = card.chain[d][1] /\ s \in Seq(Clusters) /\ Len(s) >= 1 /\ Len(card.chain[d]) <= Len(s)
<1>1. s \in Seq(Clusters) /\ Len(card.chain[d]) >= 1 /\ Len(s) >= Len(card.chain[d]) /\ card.chain[d] \in Seq(Clusters)
  BY FolderIs DEF ChainOK
<1>2. \A j \in 1 .. Len(s) - 1 : fat[s[j]].next = s[j + 1]
  <2> SUFFICES ASSUME NEW j \in 1 .. Len(s) - 1 PROVE fat[s[j]].next = s[j + 1]
    OBVIOUS
  <2>1. s[j + 1] \in Clusters
    BY <1>1
  <2>2. fat[s[j]] = LinkTo(s[j + 1])
    BY DEF ChainOK
  <2> QED
    BY <2>1, <2>2, Links
<1>3. s[1] = card.chain[d][1]
  BY <1>1 DEF ChainOK
<1> QED
  BY <1>1, <1>2, <1>3 DEF ChainOK, Run

-----------------------------------------------------------------------------
(* What is found. *)

LEMMA AliasNames ==
  /\ \A d \in FoldersOfAliases : d \in Names
  /\ \A k \in 1 .. N : FileAlias[k] \in [dir : FoldersOfAliases, name : Names]
  /\ DOMAIN FileAlias = 1 .. N
<1>1. DOMAIN FileAlias = 1 .. N /\ \A k \in 1 .. N : FileAlias[k] \in [dir : Names, name : Names]
  <2> DEFINE T == [dir : Names, name : Names]
  <2>1. FileAlias \in Seq(T)
    BY Sizes
  <2> HIDE DEF T
  <2>2. DOMAIN FileAlias = 1 .. Len(FileAlias) /\ \A k \in 1 .. Len(FileAlias) : FileAlias[k] \in T
    BY <2>1
  <2> QED
    BY <2>2 DEF N, T
<1>2. \A k \in 1 .. N : FileAlias[k].dir \in FoldersOfAliases
  BY <1>1, Zenon DEF FoldersOfAliases
<1>3. \A k \in 1 .. N : FileAlias[k].dir \in Names
  BY <1>1
<1>4. ASSUME NEW d \in FoldersOfAliases PROVE d \in Names
  <2>1. PICK k \in DOMAIN FileAlias : d = FileAlias[k].dir
    BY DEF FoldersOfAliases
  <2> QED
    BY <1>1, <1>3, <2>1
<1>5. ASSUME NEW k \in 1 .. N PROVE FileAlias[k] \in [dir : FoldersOfAliases, name : Names]
  BY <1>1, <1>2
<1> QED
  BY <1>1, <1>4, <1>5

LEMMA FolderPageIs ==
  ASSUME NEW card \in Cards, NEW d \in FoldersOfAliases
  PROVE  /\ FolderPage(card, d) \in Clusters \X Slots
         /\ card.record[d] < Len(card.root) * PagesPerCluster
         /\ \E j \in 2 .. Len(card.root) : FolderPage(card, d)[1] = card.root[j]
         /\ FolderPage(card, d)[1] # 0
         /\ PlaceIn(card.root, card.record[d]).cluster = FolderPage(card, d)[1]
         /\ PlaceIn(card.root, card.record[d]).slot = FolderPage(card, d)[2]
         /\ Entry(PlaceIn(card.root, card.record[d])) = page[FolderPage(card, d)]
<1> DEFINE r == card.record[d]
<1> DEFINE m == Len(card.root) * PagesPerCluster
<1> DEFINE a == r \div PagesPerCluster
<1>1. card.root \in Seq(Clusters) /\ r \in Nat /\ card.root[1] = 0 /\ Len(card.root) >= 1
  BY RootIs
<1>2. r < m
  <2>1. card.page[<<0, 0>>].length \in Nat /\ card.page[<<0, 0>>].length <= m /\ r < card.page[<<0, 0>>].length
    BY RootIs
  <2>2. m \in Nat
    BY <1>1, InChain
  <2> HIDE DEF m, r
  <2> QED
    BY <1>1, <2>1, <2>2
<1>3. FolderPage(card, d) \in Clusters \X Slots
  BY <1>1, <1>2, PageIn DEF FolderPage
<1>4. a + 1 \in 1 .. Len(card.root) /\ a \in Nat
  BY <1>1, <1>2, PageIn, Division, Sizes
<1>5. a # 0
  <2>1. 1 * PagesPerCluster = PagesPerCluster
    BY Sizes
  <2>2. ~(r < 1 * PagesPerCluster)
    BY <1>1, <2>1, RootIs, Sizes
  <2>3. ~(r \div PagesPerCluster < 1)
    BY <1>1, <2>2, InChain
  <2> QED
    BY <1>4, <2>3
<1>6. FolderPage(card, d)[1] = card.root[a + 1] /\ FolderPage(card, d)[2] = r % PagesPerCluster
  BY DEF FolderPage, PageOf
<1> HIDE DEF a
<1>7. a + 1 \in 2 .. Len(card.root)
  BY <1>4, <1>5
<1>8. card.root[a + 1] # 0
  <2>1. \A j, k \in 1 .. Len(card.root) : card.root[j] = card.root[k] => j = k
    BY RootIs, ChainParts
  <2> QED
    BY <1>1, <1>7, <2>1
<1>9. Entry(PlaceIn(card.root, r)) = page[FolderPage(card, d)]
  BY DEF Entry, PlaceIn, FolderPage, PageOf
<1> QED
  BY <1>2, <1>3, <1>6, <1>7, <1>8, <1>9 DEF PlaceIn, a

LEMMA FolderEntryIs ==
  ASSUME NEW card \in Cards, RootOK(card), NEW d \in FoldersOfAliases
  PROVE  /\ page[FolderPage(card, d)].live /\ page[FolderPage(card, d)].name = d
         /\ page[FolderPage(card, d)].cluster = card.chain[d][1]
         /\ page[FolderPage(card, d)].length >= card.page[FolderPage(card, d)].length
         /\ \A r \in 0 .. card.record[d] - 1 : page[PageOf(card.root, r)].live => page[PageOf(card.root, r)].name # d
<1>1. card.record[d] \in 0 .. card.page[<<0, 0>>].length - 1 /\ card.page[<<0, 0>>].length \in Nat
  BY RootIs
<1>2. \A r \in 0 .. card.page[<<0, 0>>].length - 1 :
        /\ page[PageOf(card.root, r)].name = card.page[PageOf(card.root, r)].name
        /\ page[PageOf(card.root, r)].live = card.page[PageOf(card.root, r)].live
        /\ page[PageOf(card.root, r)].cluster = card.page[PageOf(card.root, r)].cluster
        /\ page[PageOf(card.root, r)].length >= card.page[PageOf(card.root, r)].length
  BY Zenon DEF RootOK
<1>3. card.page[FolderPage(card, d)].live /\ card.page[FolderPage(card, d)].name = d
      /\ card.page[FolderPage(card, d)].cluster = card.chain[d][1]
  BY FolderIs
<1>4. \A r \in 0 .. card.record[d] - 1 : card.page[PageOf(card.root, r)].live => card.page[PageOf(card.root, r)].name # d
  BY FolderIs
<1>5. \A r \in 0 .. card.record[d] - 1 : page[PageOf(card.root, r)].live => page[PageOf(card.root, r)].name # d
  <2> SUFFICES ASSUME NEW r \in 0 .. card.record[d] - 1 PROVE page[PageOf(card.root, r)].live => page[PageOf(card.root, r)].name # d
    OBVIOUS
  <2>1. r \in 0 .. card.page[<<0, 0>>].length - 1
    BY <1>1
  <2> QED
    BY <1>2, <1>4, <2>1, Zenon
<1> QED
  BY <1>1, <1>2, <1>3, <1>5, Zenon DEF FolderPage

LEMMA FolderFound ==
  ASSUME NEW card \in Cards, TypesOK, RootOK(card), NEW d \in FoldersOfAliases
  PROVE  /\ FindFolder(d).result = "found" /\ FindFolder(d).place = PlaceIn(card.root, card.record[d])
         /\ Entry(FindFolder(d).place) = page[FolderPage(card, d)] /\ FolderEntry(d) = page[FolderPage(card, d)]
         /\ FirstCluster(FindFolder(d).place) = card.chain[d][1]
<1> DEFINE q == [mode |-> "find", start |-> 0, nRecords |-> 0, name |-> d]
<1> DEFINE s == card.root
<1> DEFINE n == page[<<0, 0>>].length
<1> DEFINE m == Len(s) * PagesPerCluster
<1> DEFINE R == Scan[q]
<1> DEFINE rec == card.record[d]
<1>0. d \in Names
  BY AliasNames
<1>1. q \in Scans /\ q.mode = "find" /\ q.start = 0 /\ q.nRecords = 0 /\ q.name = d
  BY <1>0, Ended DEF Scans
<1>2. Run(s) /\ s[1] = 0
  BY RootRun, RootIs
<1>3. n = card.page[<<0, 0>>].length
  BY DEF RootOK
<1>4. n \in Nat \ {0} /\ rec \in Nat /\ rec < n /\ rec < m
  BY <1>3, RootIs, FolderPageIs
<1>5. m \in Nat
  BY InChain, RootIs
<1> HIDE DEF q
<1>6. PICK r \in 0 .. n :
        /\ r <= m /\ \A j \in 0 .. r - 1 : ~Hit("find", d, page[PageOf(s, j)])
        /\ r < m => R.place = PlaceIn(s, r)
        /\ \/ r < n /\ r < m /\ R.result = "found" /\ Hit("find", d, page[PageOf(s, r)])
           \/ r = n /\ r < m /\ R.result = "ENOENT"
           \/ r = m /\ R.result = "ENOENT"
  <2>1. fat \in [Clusters -> FatEntries] /\ page \in [Clusters \X Slots -> Dirents]
    BY DEF TypesOK
  <2>2. q.start = s[1] /\ n = IF q.nRecords < 1 THEN page[<<s[1], 0>>].length ELSE q.nRecords
    BY <1>1, <1>2
  <2> HIDE DEF n, s, m, R
  <2>3. PICK r \in 0 .. n :
        /\ r <= Len(s) * PagesPerCluster /\ \A j \in 0 .. r - 1 : ~Hit(q.mode, q.name, page[PageOf(s, j)])
        /\ r < Len(s) * PagesPerCluster => Scan[q].place = PlaceIn(s, r)
        /\ \/ r < n /\ r < Len(s) * PagesPerCluster /\ Scan[q].result = "found" /\ Hit(q.mode, q.name, page[PageOf(s, r)])
           \/ r = n /\ r < Len(s) * PagesPerCluster /\ Scan[q].result = IF q.mode = "free" /\ r % PagesPerCluster # 0 THEN "unused" ELSE "ENOENT"
           \/ r = Len(s) * PagesPerCluster /\ Scan[q].result = "ENOENT"
    BY <1>1, <1>2, <1>4, <2>1, <2>2, Scanned, Zenon
  <2>4. \A j \in 0 .. r - 1 : ~Hit("find", d, page[PageOf(s, j)])
    BY <1>1, <2>3, Zenon
  <2>5. Hit(q.mode, q.name, page[PageOf(s, r)]) => Hit("find", d, page[PageOf(s, r)])
    BY <1>1, Zenon
  <2>6. (IF q.mode = "free" /\ r % PagesPerCluster # 0 THEN "unused" ELSE "ENOENT") = "ENOENT"
    BY <1>1
  <2>7. r <= m /\ (r < m => R.place = PlaceIn(s, r))
    BY <2>3, Zenon DEF m, R
  <2>8. \/ r < n /\ r < m /\ R.result = "found" /\ Hit("find", d, page[PageOf(s, r)])
        \/ r = n /\ r < m /\ R.result = "ENOENT"
        \/ r = m /\ R.result = "ENOENT"
    BY <2>3, <2>5, <2>6, Zenon DEF m, R
  <2> QED
    BY <2>3, <2>4, <2>7, <2>8, Zenon
<1>7. /\ page[PageOf(s, rec)].live /\ page[PageOf(s, rec)].name = d
      /\ \A j \in 0 .. rec - 1 : page[PageOf(s, j)].live => page[PageOf(s, j)].name # d
  BY FolderEntryIs DEF FolderPage
<1> HIDE DEF n, s, m, R, rec
<1>8. ~(rec \in 0 .. r - 1)
  <2> SUFFICES ASSUME rec \in 0 .. r - 1 PROVE FALSE
    OBVIOUS
  <2>1. ~Hit("find", d, page[PageOf(s, rec)])
    BY <1>6, Zenon
  <2> QED
    BY <1>7, <2>1 DEF Hit
<1>9. r <= rec
  BY <1>4, <1>8
<1>10. r < n /\ r < m
  BY <1>4, <1>5, <1>9
<1>11. R.result = "found" /\ R.place = PlaceIn(s, r) /\ Hit("find", d, page[PageOf(s, r)])
  BY <1>6, <1>10
<1>12. ~(r \in 0 .. rec - 1)
  BY <1>7, <1>11 DEF Hit
<1>13. r = rec
  BY <1>4, <1>9, <1>12
<1>14. R = FindFolder(d)
  BY DEF R, FindFolder, q
<1>15. FindFolder(d).place = PlaceIn(card.root, card.record[d]) /\ FindFolder(d).result = "found"
  BY <1>11, <1>13, <1>14 DEF s, rec
<1>16. Entry(FindFolder(d).place) = page[FolderPage(card, d)]
  BY <1>15, FolderPageIs
<1>17. FirstCluster(FindFolder(d).place) = card.chain[d][1]
  <2>1. FindFolder(d).place.cluster # 0
    BY <1>15, FolderPageIs
  <2>2. page[FolderPage(card, d)].cluster = card.chain[d][1]
    BY FolderEntryIs
  <2> QED
    BY <1>16, <2>1, <2>2, Zenon DEF FirstCluster
<1> QED
  BY <1>15, <1>16, <1>17 DEF FolderEntry

LEMMA LengthIs ==
  ASSUME NEW card \in Cards, TypesOK, RootOK(card), NEW d \in FoldersOfAliases
  PROVE  FolderLength(card, d) \in Nat \ {0} /\ FolderLength(card, d) >= card.page[FolderPage(card, d)].length
<1>1. FolderPage(card, d) \in Clusters \X Slots
  BY FolderPageIs
<1>2. page[FolderPage(card, d)] \in Dirents /\ card.page[FolderPage(card, d)] \in Dirents
  BY <1>1, RootIs DEF TypesOK
<1>3. page[FolderPage(card, d)].length \in Nat /\ card.page[FolderPage(card, d)].length \in Nat
  BY <1>2 DEF Dirents
<1> DEFINE m == (Len(card.chain[d]) - 1) * PagesPerCluster
<1>4. m \in Nat
  <2>1. Len(card.chain[d]) - 1 \in Nat
    BY FolderIs
  <2> QED
    BY <2>1, InChain
<1>5. card.page[FolderPage(card, d)].length > m
  BY FolderIs
<1>6. page[FolderPage(card, d)].length >= card.page[FolderPage(card, d)].length
  BY FolderEntryIs
<1> HIDE DEF m
<1> QED
  BY <1>3, <1>4, <1>5, <1>6 DEF FolderLength

(* The record a name is at, in a folder that is followed. *)
LEMMA FileFound ==
  ASSUME NEW card \in Cards, TypesOK, RootOK(card), NEW alias \in [dir : FoldersOfAliases, name : Names],
         NEW s, ChainOK(card, alias.dir, s)
  PROVE  LET n == FolderLength(card, alias.dir)
             m == Len(s) * PagesPerCluster
             is(r) == page[PageOf(s, r)].live /\ page[PageOf(s, r)].name = alias.name
         IN /\ FindFile(alias).result \in {"found", "ENOENT"}
            /\ FindFile(alias).result = "found" =>
                 \E r \in Nat : /\ r < n /\ r < m /\ FindFile(alias).place = PlaceIn(s, r) /\ is(r)
                                /\ \A j \in 0 .. r - 1 : ~is(j)
            /\ FindFile(alias).result # "found" => \A r \in Nat : r < n /\ r < m => ~is(r)
<1> DEFINE d == alias.dir
<1> DEFINE n == FolderLength(card, d)
<1> DEFINE m == Len(s) * PagesPerCluster
<1> DEFINE q == [mode |-> "find", start |-> s[1], nRecords |-> n, name |-> alias.name]
<1> DEFINE R == Scan[q]
<1> DEFINE is(r) == page[PageOf(s, r)].live /\ page[PageOf(s, r)].name = alias.name
<1>0. d \in FoldersOfAliases /\ alias.name \in Names
  OBVIOUS
<1>1. Run(s) /\ s[1] = card.chain[d][1] /\ s \in Seq(Clusters) /\ Len(s) >= 1
  BY <1>0, FolderRun
<1>2. n \in Nat \ {0}
  BY <1>0, LengthIs
<1>3. FindFile(alias) = R
  <2>1. FindFolder(d).result = "found" /\ FirstCluster(FindFolder(d).place) = s[1] /\ Entry(FindFolder(d).place) = page[FolderPage(card, d)]
    BY <1>0, <1>1, FolderFound
  <2>2. Entry(FindFolder(d).place).length = n
    BY <2>1 DEF FolderLength
  <2> HIDE DEF n
  <2> QED
    BY <2>1, <2>2, Zenon DEF FindFile
<1>4. q \in Scans /\ q.mode = "find" /\ q.start = s[1] /\ q.nRecords = n /\ q.name = alias.name
  <2>1. s[1] \in Clusters
    BY <1>1
  <2> HIDE DEF n
  <2> QED
    BY <1>0, <1>2, <2>1 DEF Scans
<1>5. m \in Nat
  BY <1>1, InChain
<1> HIDE DEF q, n
<1>6. n = IF q.nRecords < 1 THEN page[<<s[1], 0>>].length ELSE q.nRecords
  BY <1>2, <1>4
<1>7. fat \in [Clusters -> FatEntries] /\ page \in [Clusters \X Slots -> Dirents]
  BY DEF TypesOK
<1>8. PICK r \in 0 .. n :
        /\ r <= Len(s) * PagesPerCluster /\ \A j \in 0 .. r - 1 : ~Hit(q.mode, q.name, page[PageOf(s, j)])
        /\ r < Len(s) * PagesPerCluster => Scan[q].place = PlaceIn(s, r)
        /\ \/ r < n /\ r < Len(s) * PagesPerCluster /\ Scan[q].result = "found" /\ Hit(q.mode, q.name, page[PageOf(s, r)])
           \/ r = n /\ r < Len(s) * PagesPerCluster /\ Scan[q].result = IF q.mode = "free" /\ r % PagesPerCluster # 0 THEN "unused" ELSE "ENOENT"
           \/ r = Len(s) * PagesPerCluster /\ Scan[q].result = "ENOENT"
  BY <1>1, <1>2, <1>4, <1>6, <1>7, Scanned, Zenon
<1>9. \A j : Hit(q.mode, q.name, page[PageOf(s, j)]) <=> is(j)
  BY <1>4 DEF Hit
<1>10. (IF q.mode = "free" /\ r % PagesPerCluster # 0 THEN "unused" ELSE "ENOENT") = "ENOENT"
  BY <1>4
<1> HIDE DEF is
<1>11. \A j \in 0 .. r - 1 : ~is(j)
  BY <1>8, <1>9, Zenon
<1>12. r <= m /\ (r < m => R.place = PlaceIn(s, r))
  BY <1>8, Zenon
<1>13. \/ r < n /\ r < m /\ R.result = "found" /\ is(r)
       \/ r = n /\ r < m /\ R.result = "ENOENT"
       \/ r = m /\ R.result = "ENOENT"
  BY <1>8, <1>9, <1>10, Zenon
<1> HIDE DEF m, R
<1>14. R.result \in {"found", "ENOENT"}
  BY <1>13
<1>15. R.result = "found" => r < n /\ r < m /\ R.place = PlaceIn(s, r) /\ is(r)
  BY <1>12, <1>13
<1>16. ASSUME R.result # "found", NEW j \in Nat, j < n, j < m PROVE ~is(j)
  <2>1. j \in 0 .. r - 1
    BY <1>2, <1>5, <1>13, <1>16
  <2> QED
    BY <1>11, <2>1, Zenon
<1>17. r \in Nat
  BY <1>2
<1> QED
  BY <1>3, <1>11, <1>14, <1>15, <1>16, <1>17, Zenon DEF is, m, n

(* Where a new entry goes. *)
LEMMA FreeFound ==
  ASSUME NEW card \in Cards, TypesOK, RootOK(card), NEW d \in FoldersOfAliases, NEW s, ChainOK(card, d, s)
  PROVE  LET n == FolderLength(card, d)
             m == Len(s) * PagesPerCluster
         IN /\ FreePage(d).result \in {"found", "unused", "ENOENT"}
            /\ FreePage(d).result = "found" =>
                 \E r \in Nat : r < n /\ r < m /\ FreePage(d).place = PlaceIn(s, r) /\ ~page[PageOf(s, r)].live
            /\ FreePage(d).result = "unused" => n < m /\ FreePage(d).place = PlaceIn(s, n) /\ n % PagesPerCluster # 0
            /\ FreePage(d).result = "ENOENT" => n >= m \/ n % PagesPerCluster = 0
<1> DEFINE n == FolderLength(card, d)
<1> DEFINE m == Len(s) * PagesPerCluster
<1> DEFINE q == [mode |-> "free", start |-> s[1], nRecords |-> n, name |-> d]
<1> DEFINE R == Scan[q]
<1>0. d \in Names
  BY AliasNames
<1>1. Run(s) /\ s[1] = card.chain[d][1] /\ s \in Seq(Clusters) /\ Len(s) >= 1
  BY <1>0, FolderRun
<1>2. n \in Nat \ {0}
  BY <1>0, LengthIs
<1>3. FreePage(d) = R
  <2>1. FindFolder(d).result = "found" /\ FirstCluster(FindFolder(d).place) = s[1] /\ Entry(FindFolder(d).place) = page[FolderPage(card, d)]
    BY <1>0, <1>1, FolderFound
  <2>2. Entry(FindFolder(d).place).length = n
    BY <2>1 DEF FolderLength
  <2> HIDE DEF n
  <2> QED
    BY <2>1, <2>2, Zenon DEF FreePage
<1>4. q \in Scans /\ q.mode = "free" /\ q.start = s[1] /\ q.nRecords = n /\ q.name = d
  <2>1. s[1] \in Clusters
    BY <1>1
  <2> HIDE DEF n
  <2> QED
    BY <1>0, <1>2, <2>1 DEF Scans
<1>5. m \in Nat
  BY <1>1, InChain
<1> HIDE DEF q, n
<1>6. n = IF q.nRecords < 1 THEN page[<<s[1], 0>>].length ELSE q.nRecords
  BY <1>2, <1>4
<1>7. fat \in [Clusters -> FatEntries] /\ page \in [Clusters \X Slots -> Dirents]
  BY DEF TypesOK
<1>8. PICK r \in 0 .. n :
        /\ r <= Len(s) * PagesPerCluster /\ \A j \in 0 .. r - 1 : ~Hit(q.mode, q.name, page[PageOf(s, j)])
        /\ r < Len(s) * PagesPerCluster => Scan[q].place = PlaceIn(s, r)
        /\ \/ r < n /\ r < Len(s) * PagesPerCluster /\ Scan[q].result = "found" /\ Hit(q.mode, q.name, page[PageOf(s, r)])
           \/ r = n /\ r < Len(s) * PagesPerCluster /\ Scan[q].result = IF q.mode = "free" /\ r % PagesPerCluster # 0 THEN "unused" ELSE "ENOENT"
           \/ r = Len(s) * PagesPerCluster /\ Scan[q].result = "ENOENT"
  BY <1>1, <1>2, <1>4, <1>6, <1>7, Scanned, Zenon
<1>9. Hit(q.mode, q.name, page[PageOf(s, r)]) => ~page[PageOf(s, r)].live
  BY <1>4 DEF Hit
<1>10. (IF q.mode = "free" /\ r % PagesPerCluster # 0 THEN "unused" ELSE "ENOENT") = IF r % PagesPerCluster # 0 THEN "unused" ELSE "ENOENT"
  BY <1>4
<1>12. r <= m /\ (r < m => R.place = PlaceIn(s, r))
  BY <1>8, Zenon
<1>13. \/ r < n /\ r < m /\ R.result = "found" /\ ~page[PageOf(s, r)].live
       \/ r = n /\ r < m /\ R.result = IF r % PagesPerCluster # 0 THEN "unused" ELSE "ENOENT"
       \/ r = m /\ R.result = "ENOENT"
  BY <1>8, <1>9, <1>10, Zenon
<1>17. r \in Nat /\ r <= n
  BY <1>2
<1> HIDE DEF m, R
<1>14. CASE r < n /\ r < m /\ R.result = "found" /\ ~page[PageOf(s, r)].live
  BY <1>3, <1>12, <1>14, <1>17 DEF m, n
<1>15. CASE r = n /\ r < m /\ R.result = IF r % PagesPerCluster # 0 THEN "unused" ELSE "ENOENT"
  <2>1. R.place = PlaceIn(s, n)
    BY <1>12, <1>15, Zenon
  <2> DEFINE odd == n % PagesPerCluster
  <2>2. R.result = IF odd # 0 THEN "unused" ELSE "ENOENT"
    BY <1>15
  <2>3. n < m
    BY <1>15
  <2> HIDE DEF odd
  <2>4. R.result = "unused" => odd # 0
    BY <2>2
  <2>5. R.result = "ENOENT" => odd = 0
    BY <2>2
  <2>6. R.result \in {"unused", "ENOENT"}
    BY <2>2
  <2> QED
    BY <1>3, <2>1, <2>3, <2>4, <2>5, <2>6 DEF odd, m, n
<1>16. CASE r = m /\ R.result = "ENOENT"
  <2>1. n >= m
    BY <1>5, <1>16, <1>17
  <2> QED
    BY <1>3, <1>16, <2>1 DEF m, n
<1> QED
  BY <1>13, <1>14, <1>15, <1>16

LEMMA LastIs ==
  ASSUME fat \in [Clusters -> FatEntries], NEW s, Run(s)
  PROVE  LastOf(s[1]) = IF fat[s[Len(s)]] = EndOfChain THEN s[Len(s)] ELSE Nil
<1> DEFINE L == Len(s)
<1> DEFINE C(k) == Chain[k][s[1]]
<1> DEFINE ends == {k \in 0 .. NumClusters : C(k) # Nil /\ fat[C(k)] = EndOfChain}
<1>1. L \in 1 .. NumClusters /\ \A k \in 0 .. NumClusters : C(k) = IF k < L THEN s[k + 1] ELSE Nil
  BY ChainOf
<1>2. LastOf(s[1]) = IF ends = {} THEN Nil ELSE C(CHOOSE k \in ends : \A j \in ends : k <= j)
  BY Zenon DEF LastOf
<1> HIDE DEF C
<1>3. ASSUME NEW k \in ends PROVE k = L - 1 /\ fat[s[L]] = EndOfChain
  <2>1. k \in 0 .. NumClusters /\ C(k) # Nil /\ fat[C(k)] = EndOfChain
    OBVIOUS
  <2>2. k < L /\ C(k) = s[k + 1]
    BY <1>1, <2>1
  <2>3. ASSUME k + 1 \in 1 .. L - 1 PROVE FALSE
    <3>1. fat[s[k + 1]].next = s[k + 2] /\ s[k + 2] \in Clusters
      BY <2>3 DEF Run
    <3> QED
      BY <2>1, <2>2, <3>1, Ended
  <2>4. k = L - 1
    BY <1>1, <2>1, <2>2, <2>3
  <2>5. s[k + 1] = s[L]
    BY <1>1, <2>4
  <2> QED
    BY <2>1, <2>2, <2>4, <2>5, Zenon
<1>4. ASSUME fat[s[L]] = EndOfChain PROVE L - 1 \in ends /\ C(L - 1) = s[L]
  <2>1. C(L - 1) = s[L] /\ L - 1 \in 0 .. NumClusters
    BY <1>1, Sizes
  <2>2. s[L] \in Clusters
    BY <1>1 DEF Run
  <2> QED
    BY <1>4, <2>1, <2>2, Ended
<1>5. CASE fat[s[L]] = EndOfChain
  <2>1. ends = {L - 1}
    BY <1>3, <1>4, <1>5
  <2>2. (CHOOSE k \in ends : \A j \in ends : k <= j) = L - 1
    <3>1. L - 1 <= L - 1
      BY <1>1
    <3> HIDE DEF ends
    <3> QED
      BY <2>1, <3>1
  <2> HIDE DEF ends
  <2> QED
    BY <1>2, <1>4, <1>5, <2>1, <2>2
<1>6. CASE fat[s[L]] # EndOfChain
  <2>1. ends = {}
    BY <1>3, <1>6
  <2> HIDE DEF ends
  <2> QED
    BY <1>2, <1>6, <2>1
<1> QED
  BY <1>5, <1>6

LEMMA OwnIs ==
  ASSUME NEW card \in Cards
  PROVE  /\ Own \in 1 .. N /\ Home \in FoldersOfAliases /\ card.executable \in Nat
         /\ card.executable < card.page[FolderPage(card, Home)].length
         /\ card.executable < Len(card.chain[Home]) * PagesPerCluster
         /\ card.page[OwnPage(card)].live /\ card.page[OwnPage(card)].name = FileAlias[Own].name
         /\ OwnPage(card) \in Clusters \X Slots /\ \E j \in 1 .. Len(card.chain[Home]) : OwnPage(card)[1] = card.chain[Home][j]
         /\ \A k \in 1 .. N, r \in Nat :
              LET p == PageOf(card.chain[FileAlias[k].dir], r)
              IN r < card.page[FolderPage(card, FileAlias[k].dir)].length /\ card.page[p].live /\ card.page[p].name = FileAlias[k].name
                 => k = Own /\ r = card.executable
<1> DEFINE dir(k) == FileAlias[k].dir
<1> DEFINE length(k) == card.page[FolderPage(card, dir(k))].length
<1> DEFINE file(k, r) == card.page[PageOf(card.chain[dir(k)], r)]
<1> DEFINE is(k, r) == file(k, r).live /\ file(k, r).name = FileAlias[k].name
<1>1. Own \in 1 .. N /\ DOMAIN FileAlias = 1 .. N /\ \A k \in 1 .. N : dir(k) \in FoldersOfAliases
  BY Sizes, AliasNames
<1>2. /\ card.executable \in 0 .. length(Own) - 1 /\ is(Own, card.executable)
      /\ \A k \in DOMAIN FileAlias : \A r \in 0 .. length(k) - 1 : is(k, r) => k = Own /\ r = card.executable
  <2>1. FormattedFiles(card)
    BY CardsAssumption
  <2> QED
    BY <2>1, Zenon DEF FormattedFiles, FolderPage
<1>3. \A k \in 1 .. N : length(k) \in Nat
  <2> SUFFICES ASSUME NEW k \in 1 .. N PROVE length(k) \in Nat
    OBVIOUS
  <2>1. FolderPage(card, dir(k)) \in Clusters \X Slots
    BY <1>1, FolderPageIs
  <2>2. card.page[FolderPage(card, dir(k))] \in Dirents
    BY <2>1, RootIs
  <2> QED
    BY <2>2 DEF Dirents
<1>4. card.executable \in Nat /\ card.executable < length(Own)
  <2>1. PICK l : l = length(Own)
    OBVIOUS
  <2>2. card.executable \in 0 .. l - 1 /\ l \in Nat
    BY <1>1, <1>2, <1>3, <2>1, Zenon
  <2> QED
    BY <2>1, <2>2
<1>5. Home = dir(Own) /\ Home \in FoldersOfAliases
  BY <1>1 DEF Home
<1>6. card.executable < Len(card.chain[Home]) * PagesPerCluster
  <2> DEFINE m == Len(card.chain[Home]) * PagesPerCluster
  <2>1. length(Own) <= m
    BY <1>5, FolderIs
  <2>2. m \in Nat
    BY <1>5, FolderIs, InChain
  <2> HIDE DEF m, length
  <2> QED
    BY <1>1, <1>3, <1>4, <2>1, <2>2 DEF m
<1>7. OwnPage(card) = PageOf(card.chain[dir(Own)], card.executable)
  BY DEF OwnPage, Home
<1>8. OwnPage(card) \in Clusters \X Slots /\ \E j \in 1 .. Len(card.chain[Home]) : OwnPage(card)[1] = card.chain[Home][j]
  <2>1. card.chain[Home] \in Seq(Clusters)
    BY <1>5, FolderIs
  <2>2. card.executable \div PagesPerCluster + 1 \in 1 .. Len(card.chain[Home]) /\ OwnPage(card) \in Clusters \X Slots
    BY <1>4, <1>6, <2>1, PageIn DEF OwnPage
  <2>3. OwnPage(card)[1] = card.chain[Home][card.executable \div PagesPerCluster + 1]
    BY DEF OwnPage, PageOf
  <2> QED
    BY <2>2, <2>3
<1>9. ASSUME NEW k \in 1 .. N, NEW r \in Nat, r < length(k), is(k, r) PROVE k = Own /\ r = card.executable
  <2>1. r \in 0 .. length(k) - 1
    BY <1>3, <1>9
  <2> HIDE DEF is, length
  <2> QED
    BY <1>1, <1>2, <1>9, <2>1, Zenon
<1> QED
  BY <1>1, <1>2, <1>4, <1>5, <1>6, <1>7, <1>8, <1>9, Zenon

LEMMA OldPage ==
  ASSUME NEW card \in Cards, NEW d \in FoldersOfAliases, NEW s, ChainOK(card, d, s), NEW r \in Nat,
         r < Len(card.chain[d]) * PagesPerCluster
  PROVE  PageOf(s, r) = PageOf(card.chain[d], r) /\ r < Len(s) * PagesPerCluster
<1>1. card.chain[d] \in Seq(Clusters) /\ s \in Seq(Clusters) /\ Len(card.chain[d]) <= Len(s)
  BY FolderIs, FolderRun
<1> DEFINE a == r \div PagesPerCluster
<1>2. a + 1 \in 1 .. Len(card.chain[d]) /\ a < Len(card.chain[d])
  BY <1>1, PageIn, InChain, SMTT(30)
<1>3. s[a + 1] = card.chain[d][a + 1]
  BY <1>2 DEF ChainOK
<1>4. a < Len(s)
  <2>1. a \in Nat
    BY Division, Sizes
  <2> HIDE DEF a
  <2> QED
    BY <1>1, <1>2, <2>1
<1>5. r < Len(s) * PagesPerCluster
  BY <1>1, <1>4, InChain
<1> QED
  BY <1>3, <1>5 DEF PageOf

LEMMA ExecutableFound ==
  ASSUME NEW card \in Cards, TypesOK, RootOK(card), page[OwnPage(card)] = card.page[OwnPage(card)],
         NEW s, ChainOK(card, Home, s)
  PROVE  /\ Executable \in Dirents
         /\ OwnPage(card) = PageOf(s, card.executable)
         /\ Has(s, Own, card.executable)
         /\ card.executable < FolderLength(card, Home) /\ card.executable < Len(s) * PagesPerCluster
         /\ FindFile(FileAlias[Own]).result = "found"
         /\ (\A q \in 0 .. FolderLength(card, Home) - 1 : Has(s, Own, q) => q = card.executable) => Executable = page[OwnPage(card)]
<1> DEFINE n == FolderLength(card, Home)
<1> DEFINE m == Len(s) * PagesPerCluster
<1> DEFINE is(r) == page[PageOf(s, r)].live /\ page[PageOf(s, r)].name = FileAlias[Own].name
<1>1. FileAlias[Own] \in [dir : FoldersOfAliases, name : Names] /\ Home \in FoldersOfAliases
  BY AliasNames, Sizes, OwnIs
<1>2. card.executable \in Nat /\ PageOf(s, card.executable) = OwnPage(card) /\ card.executable < m
  BY <1>1, OwnIs, OldPage, SMTT(30) DEF OwnPage
<1>3. is(card.executable)
  BY <1>2, OwnIs
<1>4. card.executable < n /\ n \in Nat \ {0}
  <2>1. n \in Nat \ {0} /\ n >= card.page[FolderPage(card, Home)].length
    BY <1>1, LengthIs
  <2>2. card.page[FolderPage(card, Home)].length \in Nat
    <3>1. card.page[FolderPage(card, Home)] \in Dirents
      BY <1>1, FolderPageIs, RootIs
    <3> QED
      BY <3>1 DEF Dirents
  <2>3. card.executable < card.page[FolderPage(card, Home)].length
    BY OwnIs
  <2> HIDE DEF n
  <2> QED
    BY <1>2, <2>1, <2>2, <2>3
<1>5. ChainOK(card, FileAlias[Own].dir, s) /\ n = FolderLength(card, FileAlias[Own].dir)
  BY DEF Home
<1> HIDE DEF n, m, is
<1>6. /\ FindFile(FileAlias[Own]).result = "found" =>
            \E r \in Nat : /\ r < n /\ r < m /\ FindFile(FileAlias[Own]).place = PlaceIn(s, r) /\ is(r)
                           /\ \A j \in 0 .. r - 1 : ~is(j)
      /\ FindFile(FileAlias[Own]).result # "found" => \A r \in Nat : r < n /\ r < m => ~is(r)
  BY <1>1, <1>5, FileFound, Zenon DEF m, is
<1>7. FindFile(FileAlias[Own]).result = "found"
  BY <1>2, <1>3, <1>4, <1>6, Zenon
<1>8. PICK r \in Nat : r < n /\ r < m /\ FindFile(FileAlias[Own]).place = PlaceIn(s, r) /\ is(r)
  BY <1>6, <1>7, Zenon
<1>9. Executable = page[PageOf(s, r)]
  BY <1>8 DEF Executable, Entry, PlaceIn, PageOf
<1>10. s \in Seq(Clusters)
  BY <1>1, FolderRun
<1>11. PageOf(s, r) \in Clusters \X Slots
  BY <1>8, <1>10, PageIn DEF m
<1>12. Executable \in Dirents
  BY <1>9, <1>11 DEF TypesOK
<1>13. \A q : Has(s, Own, q) <=> is(q)
  BY DEF Has, is
<1>14. ASSUME \A q \in 0 .. n - 1 : Has(s, Own, q) => q = card.executable PROVE Executable = page[OwnPage(card)]
  <2>1. r \in 0 .. n - 1
    BY <1>4, <1>8
  <2>2. r = card.executable
    BY <1>8, <1>13, <1>14, <2>1, Zenon
  <2> QED
    BY <1>2, <1>9, <2>2
<1> QED
  BY <1>2, <1>3, <1>4, <1>7, <1>12, <1>13, <1>14, Zenon DEF n, m

-----------------------------------------------------------------------------
(* What the invariant says of the properties. *)

LEMMA Fits ==
  ASSUME NEW card \in Cards, TypesOK, RootOK(card), NEW d \in FoldersOfAliases, NEW s, ChainOK(card, d, s), SizeOK(card, d, s)
  PROVE  FolderLength(card, d) <= Len(s) * PagesPerCluster /\ FolderLength(card, d) \in Nat \ {0}
         /\ Len(s) * PagesPerCluster \in Nat /\ (Len(s) - 1) * PagesPerCluster \in Nat
         /\ Len(s) * PagesPerCluster = (Len(s) - 1) * PagesPerCluster + PagesPerCluster
<1> DEFINE n == FolderLength(card, d)
<1> DEFINE m == Len(s) * PagesPerCluster
<1> DEFINE l == (Len(s) - 1) * PagesPerCluster
<1>1. n \in Nat \ {0}
  BY LengthIs
<1>2. Len(s) \in Nat /\ Len(s) - 1 \in Nat
  BY FolderRun
<1>3. m \in Nat /\ l \in Nat
  BY <1>2, InChain
<1>4. m = l + PagesPerCluster
  <2> DEFINE a == Len(s)
  <2>1. a \in Nat
    BY <1>2
  <2> HIDE DEF a
  <2> QED
    BY <2>1, Sizes DEF a
<1>5. ~Growing(d) => n <= m
  BY DEF SizeOK
<1>6. Growing(d) /\ iop # "grow" => n = m \/ n = l
  BY DEF SizeOK
<1>7. Growing(d) /\ iop = "grow" => n < m
  BY DEF SizeOK
<1> HIDE DEF n, m, l
<1>8. n <= m
  BY <1>1, <1>3, <1>4, <1>5, <1>6, <1>7, Sizes
<1> QED
  BY <1>1, <1>3, <1>4, <1>8 DEF n, m, l

LEMMA OwnIsOne ==
  ASSUME NEW card \in Cards, NEW ch, CardOK(card, ch), NameOK(card, ch, Own)
  PROVE  /\ \A q \in 0 .. FolderLength(card, Home) - 1 : Has(ch[Home], Own, q) => q = card.executable
         /\ Executable = page[OwnPage(card)]
<1>1. Home \in FoldersOfAliases
  BY OwnIs
<1>2. TypesOK /\ RootOK(card) /\ page[OwnPage(card)] = card.page[OwnPage(card)] /\ ChainOK(card, Home, ch[Home])
  BY <1>1, Zenon DEF CardOK
<1> DEFINE n == FolderLength(card, Home)
<1> DEFINE is(r) == Has(ch[Home], Own, r)
<1>3. \E r \in 0 .. n - 1 : \A q \in 0 .. n - 1 : is(q) => q = r
  <2>1. Done(Own)
    BY DEF Done
  <2> QED
    BY <2>1, Zenon DEF NameOK, Home
<1>4. is(card.executable) /\ card.executable < n /\ card.executable \in Nat /\ n \in Nat
  BY <1>1, <1>2, ExecutableFound, OwnIs, LengthIs
<1> HIDE DEF n, is
<1>5. card.executable \in 0 .. n - 1
  BY <1>4
<1>6. \A q \in 0 .. n - 1 : is(q) => q = card.executable
  BY <1>3, <1>4, <1>5, Zenon
<1>7. Executable = page[OwnPage(card)]
  BY <1>1, <1>2, <1>6, ExecutableFound, Zenon DEF n, is
<1> QED
  BY <1>6, <1>7 DEF n, is

LEMMA VisibleIs ==
  ASSUME NEW card \in Cards, NEW ch, CardOK(card, ch), SoundOK(card, ch), NEW k \in 1 .. N
  PROVE  /\ Done(k) => FindFile(FileAlias[k]).result = "found" /\ Entry(FindFile(FileAlias[k]).place).cluster = Executable.cluster
         /\ ~Done(k) => FindFile(FileAlias[k]).result # "found"
<1> DEFINE d == FileAlias[k].dir
<1> DEFINE s == ch[d]
<1> DEFINE n == FolderLength(card, d)
<1> DEFINE m == Len(s) * PagesPerCluster
<1> DEFINE is(r) == Has(s, k, r)
<1>1. FileAlias[k] \in [dir : FoldersOfAliases, name : Names] /\ d \in FoldersOfAliases /\ Own \in DOMAIN FileAlias /\ k \in DOMAIN FileAlias
  BY AliasNames, Sizes
<1>2. TypesOK /\ RootOK(card) /\ ChainOK(card, d, s) /\ SizeOK(card, d, s)
  BY <1>1, Zenon DEF CardOK, SoundOK
<1>3. NameOK(card, ch, k) /\ NameOK(card, ch, Own)
  BY <1>1, Zenon DEF SoundOK
<1>4. n \in Nat /\ n <= m /\ m \in Nat
  BY <1>1, <1>2, Fits
<1>5. Executable = page[OwnPage(card)]
  BY <1>3, OwnIsOne
<1> HIDE DEF n, m, is, s
<1>6. /\ FindFile(FileAlias[k]).result = "found" =>
            \E r \in Nat : r < n /\ r < m /\ FindFile(FileAlias[k]).place = PlaceIn(s, r) /\ is(r)
      /\ FindFile(FileAlias[k]).result # "found" => \A r \in Nat : r < n /\ r < m => ~is(r)
  BY <1>1, <1>2, FileFound, ZenonT(30) DEF m, is, n, Has
<1>7. CASE Done(k)
  <2>1. PICK r \in 0 .. n - 1 : /\ is(r) /\ page[PageOf(s, r)].cluster = page[OwnPage(card)].cluster
                                /\ \A q \in 0 .. n - 1 : is(q) => q = r
    BY <1>3, <1>7, Zenon DEF NameOK, n, is, s
  <2>2. r \in Nat /\ r < n /\ r < m
    BY <1>4
  <2>3. FindFile(FileAlias[k]).result = "found"
    BY <1>6, <2>1, <2>2, Zenon
  <2>4. PICK q \in Nat : q < n /\ FindFile(FileAlias[k]).place = PlaceIn(s, q) /\ is(q)
    BY <1>6, <2>3, Zenon
  <2>5. q \in 0 .. n - 1
    BY <1>4, <2>4
  <2>6. q = r
    BY <2>1, <2>4, <2>5, Zenon
  <2>7. Entry(FindFile(FileAlias[k]).place) = page[PageOf(s, r)]
    BY <2>4, <2>6 DEF Entry, PlaceIn, PageOf
  <2> QED
    BY <1>5, <1>7, <2>1, <2>3, <2>7
<1>8. CASE ~Done(k)
  <2>1. \A q \in 0 .. n - 1 : ~is(q)
    BY <1>3, <1>8, Zenon DEF NameOK, n, is, s
  <2>2. ASSUME FindFile(FileAlias[k]).result = "found" PROVE FALSE
    <3>1. PICK q \in Nat : q < n /\ is(q)
      BY <1>6, <2>2, Zenon
    <3>2. q \in 0 .. n - 1
      BY <1>4, <3>1
    <3> QED
      BY <2>1, <3>1, <3>2, Zenon
  <2> QED
    BY <1>8, <2>2
<1> QED
  BY <1>7, <1>8

LEMMA TypesFollow == ASSUME EInv, IInv PROVE TypeOK
<1>1. TypesOK
  BY Zenon DEF IInv, Holds, CardOK
<1> QED
  BY <1>1, Zenon DEF EInv, EEOK, BatchOK, TypesOK, TypeOK

LEMMA NamesFollow == ASSUME EInv, IInv PROVE AllCreated /\ AllDeleted
<1>1. PICK card \in Cards, ch \in [FoldersOfAliases -> Seq(Clusters)] : CardOK(card, ch) /\ (Sound => SoundOK(card, ch))
  BY Zenon DEF IInv, Holds
<1>2. Own \in 1 .. N /\ DOMAIN FileAlias = 1 .. N
  BY Sizes, AliasNames
<1>3. ASSUME Sound, ee = "created" PROVE AllCreated
  <2>1. \A k \in 1 .. N : Done(k)
    BY <1>3 DEF Done
  <2>2. \A k \in 1 .. N : FindFile(FileAlias[k]).result = "found" /\ Entry(FindFile(FileAlias[k]).place).cluster = Executable.cluster
    BY <1>1, <1>3, <2>1, VisibleIs, Zenon
  <2>3. Visible = DOMAIN FileAlias
    BY <1>2, <2>2 DEF Visible
  <2>4. result >= 0
    BY <1>1, <1>3 DEF SoundOK, CountOK
  <2> QED
    BY <1>2, <2>2, <2>3, <2>4, Zenon DEF AllCreated
<1>4. ASSUME Sound, ee = "deleted" PROVE AllDeleted
  <2>1. \A k \in 1 .. N : Done(k) <=> k = Own
    BY <1>4 DEF Done
  <2>2. \A k \in 1 .. N : FindFile(FileAlias[k]).result = "found" <=> k = Own
    BY <1>1, <1>4, <2>1, VisibleIs, Zenon
  <2>3. Visible = {Own}
    BY <1>2, <2>2 DEF Visible
  <2> QED
    BY <2>3 DEF AllDeleted
<1> QED
  BY <1>3, <1>4, Zenon DEF AllCreated, AllDeleted

LEMMA ChainsFollow == ASSUME EInv, IInv PROVE ChainsOK
<1>1. PICK card \in Cards, ch \in [FoldersOfAliases -> Seq(Clusters)] : CardOK(card, ch) /\ (Sound => SoundOK(card, ch))
  BY Zenon DEF IInv, Holds
<1> SUFFICES ASSUME Sound PROVE ChainsOK
  BY Zenon DEF ChainsOK
<1>2. SoundOK(card, ch) /\ TypesOK /\ RootOK(card)
  BY <1>1, Zenon DEF CardOK
<1>3. fat \in [Clusters -> FatEntries]
  BY <1>2 DEF TypesOK
<1>4. ASSUME NEW d \in FoldersOfAliases
      PROVE  /\ ch[d] \in Seq(Clusters) /\ Len(ch[d]) \in 1 .. NumClusters /\ Run(ch[d]) /\ FolderEntry(d).cluster = ch[d][1]
             /\ FolderEntry(d) = page[FolderPage(card, d)] /\ ChainOK(card, d, ch[d])
             /\ EndOK(d, ch[d]) /\ SizeOK(card, d, ch[d])
             /\ \A k \in 0 .. NumClusters : Chain[k][FolderEntry(d).cluster] = IF k < Len(ch[d]) THEN ch[d][k + 1] ELSE Nil
  <2>1. ChainOK(card, d, ch[d]) /\ EndOK(d, ch[d]) /\ SizeOK(card, d, ch[d])
    BY <1>1, <1>2, Zenon DEF CardOK, SoundOK
  <2>2. Run(ch[d]) /\ ch[d][1] = card.chain[d][1] /\ ch[d] \in Seq(Clusters)
    BY <2>1, FolderRun
  <2>3. FolderEntry(d) = page[FolderPage(card, d)] /\ page[FolderPage(card, d)].cluster = card.chain[d][1]
    BY <1>2, FolderFound, FolderEntryIs
  <2>4. /\ Len(ch[d]) \in 1 .. NumClusters
        /\ \A k \in 0 .. NumClusters : Chain[k][ch[d][1]] = IF k < Len(ch[d]) THEN ch[d][k + 1] ELSE Nil
    BY <1>3, <2>2, ChainOf
  <2>5. FolderEntry(d).cluster = ch[d][1]
    BY <2>2, <2>3
  <2> QED
    BY <2>1, <2>2, <2>3, <2>4, <2>5
<1>5. ASSUME NEW d \in FoldersOfAliases, iop # "mark" PROVE LastOf(FolderEntry(d).cluster) # Nil
  <2>1. fat[ch[d][Len(ch[d])]] = EndOfChain
    BY <1>4, <1>5 DEF EndOK
  <2>2. LastOf(ch[d][1]) = ch[d][Len(ch[d])]
    BY <1>3, <1>4, <2>1, LastIs
  <2>3. ch[d][Len(ch[d])] \in Clusters
    BY <1>4
  <2> QED
    BY <1>4, <2>2, <2>3, Ended
<1>6. ASSUME NEW d \in FoldersOfAliases, iop \notin {"mark", "place", "grow"}
      PROVE  LET n == FolderEntry(d).length
             IN \E k \in 0 .. NumClusters :
                  /\ Chain[k][FolderEntry(d).cluster] # Nil
                  /\ Chain[k + 1][FolderEntry(d).cluster] = Nil
                  /\ n > k * PagesPerCluster /\ n <= (k + 1) * PagesPerCluster
  <2> DEFINE l == Len(ch[d]) - 1
  <2> DEFINE f == FolderEntry(d)
  <2>1. ~Growing(d)
    BY <1>6 DEF Growing
  <2>2. f.length > l * PagesPerCluster /\ f.length <= Len(ch[d]) * PagesPerCluster
    BY <1>4, <2>1 DEF SizeOK, FolderLength
  <2>3. l \in 0 .. NumClusters /\ l + 1 \in 0 .. NumClusters /\ l < Len(ch[d]) /\ ~(l + 1 < Len(ch[d])) /\ l + 1 = Len(ch[d])
    BY <1>4, Sizes
  <2>4. Chain[l + 1][f.cluster] = Nil /\ Chain[l][f.cluster] = ch[d][l + 1]
    <3> HIDE DEF l
    <3> QED
      BY <1>4, <2>3
  <2>5. ch[d][l + 1] \in Clusters
    BY <1>4, <2>3
  <2> HIDE DEF l, f
  <2>6. Chain[l][f.cluster] # Nil
    BY <2>4, <2>5, Ended
  <2>7. f.length > l * PagesPerCluster /\ f.length <= (l + 1) * PagesPerCluster
    BY <2>2, <2>3 DEF l
  <2> QED
    BY <2>3, <2>4, <2>6, <2>7, Zenon DEF f
<1>7. ASSUME NEW d \in FoldersOfAliases, NEW c \in ClustersOf(d) PROVE \E j \in 1 .. Len(ch[d]) : c = ch[d][j]
  <2>1. PICK k \in 0 .. NumClusters : c = Chain[k][FolderEntry(d).cluster] /\ c # Nil
    BY <1>7 DEF ClustersOf
  <2>2. k < Len(ch[d]) /\ c = ch[d][k + 1]
    BY <1>4, <2>1
  <2>3. k + 1 \in 1 .. Len(ch[d])
    BY <1>4, <2>2
  <2> QED
    BY <2>2, <2>3
<1>8. ASSUME NEW d \in FoldersOfAliases, NEW e \in FoldersOfAliases \ {d} PROVE ClustersOf(d) \cap ClustersOf(e) = {}
  <2>1. Disjoint(ch[d], ch[e])
    BY <1>2 DEF SoundOK
  <2>2. DOMAIN ch[d] = 1 .. Len(ch[d]) /\ DOMAIN ch[e] = 1 .. Len(ch[e])
    BY <1>4
  <2>3. \A j \in 1 .. Len(ch[d]), k \in 1 .. Len(ch[e]) : ch[d][j] # ch[e][k]
    BY <2>1, <2>2, Zenon DEF Disjoint
  <2>4. ASSUME NEW c \in ClustersOf(d), c \in ClustersOf(e) PROVE FALSE
    <3>1. PICK j \in 1 .. Len(ch[d]) : c = ch[d][j]
      BY <1>7, Zenon
    <3>2. PICK k \in 1 .. Len(ch[e]) : c = ch[e][k]
      BY <1>7, <2>4, Zenon
    <3> QED
      BY <2>3, <3>1, <3>2, Zenon
  <2> QED
    BY <2>4
<1> QED
  BY <1>5, <1>6, <1>8, Zenon DEF ChainsOK

-----------------------------------------------------------------------------
(* Steps that leave the card alone. *)

LEMMA Grows ==
  ASSUME faults \in Nat, faults' \in {faults, faults + 1}, outside \subseteq outside', Sound'
  PROVE  Sound /\ faults' = faults /\ outside' = outside
  BY DEF Sound

(* Pages off the root's clusters may change, and clusters of no folder. *)
LEMMA CardKept ==
  ASSUME NEW card \in Cards, NEW ch, CardOK(card, ch), TypesOK', fat' = fat,
         \A q \in Clusters \X Slots : (\E j \in 1 .. Len(card.root) : q[1] = card.root[j]) => page'[q] = page[q],
         page'[OwnPage(card)] = page[OwnPage(card)]
  PROVE  CardOK(card, ch)' /\ \A d \in FoldersOfAliases : page'[FolderPage(card, d)] = page[FolderPage(card, d)]
<1> DEFINE n == card.page[<<0, 0>>].length
<1>0. TypesOK /\ RootOK(card) /\ FreeOK(card) /\ page[OwnPage(card)] = card.page[OwnPage(card)]
      /\ \A d \in FoldersOfAliases : ChainOK(card, d, ch[d])
  BY Zenon DEF CardOK
<1>1. n \in Nat /\ n <= Len(card.root) * PagesPerCluster /\ card.root \in Seq(Clusters) /\ Len(card.root) >= 1 /\ card.root[1] = 0
  BY RootIs
<1>2. Len(card.root) * PagesPerCluster \in Nat
  BY <1>1, InChain
<1>3. \A r \in 0 .. n - 1 : page'[PageOf(card.root, r)] = page[PageOf(card.root, r)]
  <2> SUFFICES ASSUME NEW r \in 0 .. n - 1 PROVE page'[PageOf(card.root, r)] = page[PageOf(card.root, r)]
    OBVIOUS
  <2> DEFINE m == Len(card.root) * PagesPerCluster
  <2>1. r \in Nat /\ r < m
    <3> HIDE DEF m, n
    <3> QED
      BY <1>1, <1>2 DEF m
  <2>2. r \div PagesPerCluster + 1 \in 1 .. Len(card.root) /\ PageOf(card.root, r) \in Clusters \X Slots
    BY <1>1, <2>1, PageIn
  <2>3. PageOf(card.root, r)[1] = card.root[r \div PagesPerCluster + 1]
    BY DEF PageOf
  <2> QED
    BY <2>2, <2>3
<1>4. page'[<<0, 0>>] = page[<<0, 0>>]
  <2>1. <<0, 0>> \in Clusters \X Slots /\ <<0, 0>>[1] = card.root[1] /\ 1 \in 1 .. Len(card.root)
    BY <1>1, Sizes, Ended DEF Slots
  <2> QED
    BY <2>1
<1>5. \A d \in FoldersOfAliases : page'[FolderPage(card, d)] = page[FolderPage(card, d)]
  BY FolderPageIs
<1> HIDE DEF n
<1>6. RootOK(card)'
  <2>1. \A r \in 0 .. n - 1 :
        /\ page[PageOf(card.root, r)].name = card.page[PageOf(card.root, r)].name
        /\ page[PageOf(card.root, r)].live = card.page[PageOf(card.root, r)].live
        /\ page[PageOf(card.root, r)].cluster = card.page[PageOf(card.root, r)].cluster
        /\ page[PageOf(card.root, r)].length >= card.page[PageOf(card.root, r)].length
    BY <1>0, Zenon DEF RootOK, n
  <2>2. \A r \in 0 .. n - 1 :
        /\ page'[PageOf(card.root, r)].name = card.page[PageOf(card.root, r)].name
        /\ page'[PageOf(card.root, r)].live = card.page[PageOf(card.root, r)].live
        /\ page'[PageOf(card.root, r)].cluster = card.page[PageOf(card.root, r)].cluster
        /\ page'[PageOf(card.root, r)].length >= card.page[PageOf(card.root, r)].length
    BY <1>3, <2>1, Zenon
  <2>3. page'[<<0, 0>>] = card.page[<<0, 0>>] /\ \A j \in DOMAIN card.root : fat'[card.root[j]] = card.fat[card.root[j]]
    BY <1>0, <1>4, Zenon DEF RootOK
  <2> QED
    BY <2>2, <2>3, Zenon DEF RootOK, n
<1>7. FreeOK(card)' /\ \A d \in FoldersOfAliases : ChainOK(card, d, ch[d])'
  BY <1>0, Zenon DEF FreeOK, ChainOK, Spare
<1> QED
  BY <1>0, <1>5, <1>6, <1>7, Zenon DEF CardOK

LEMMA NameKept ==
  ASSUME NEW card, NEW ch, NEW nch, NEW k \in 1 .. N, NameOK(card, ch, k), Done(k)' <=> Done(k),
         FolderLength(card, FileAlias[k].dir)' = FolderLength(card, FileAlias[k].dir),
         page'[OwnPage(card)] = page[OwnPage(card)],
         \A r \in 0 .. FolderLength(card, FileAlias[k].dir) - 1 :
           /\ Has(nch[FileAlias[k].dir], k, r)' <=> Has(ch[FileAlias[k].dir], k, r)
           /\ Has(ch[FileAlias[k].dir], k, r) =>
                page'[PageOf(nch[FileAlias[k].dir], r)].cluster = page[PageOf(ch[FileAlias[k].dir], r)].cluster
  PROVE  NameOK(card, nch, k)'
<1> DEFINE d == FileAlias[k].dir
<1> DEFINE n == FolderLength(card, d)
<1> DEFINE is(r) == Has(ch[d], k, r)
<1> DEFINE isp(r) == Has(nch[d], k, r)'
<1> DEFINE c == page[OwnPage(card)].cluster
<1>1. \A r \in 0 .. n - 1 : (isp(r) <=> is(r)) /\ (is(r) => page'[PageOf(nch[d], r)].cluster = page[PageOf(ch[d], r)].cluster)
  OBVIOUS
<1>2. IF Done(k) THEN \E r \in 0 .. n - 1 : /\ is(r) /\ page[PageOf(ch[d], r)].cluster = c
                                            /\ \A q \in 0 .. n - 1 : is(q) => q = r
      ELSE \A q \in 0 .. n - 1 : ~is(q)
  BY Zenon DEF NameOK
<1>3. page'[OwnPage(card)].cluster = c /\ FolderLength(card, d)' = n
  OBVIOUS
<1> HIDE DEF n, is, isp, c, d
<1>4. IF Done(k)' THEN \E r \in 0 .. n - 1 : /\ isp(r) /\ page'[PageOf(nch[d], r)].cluster = c
                                             /\ \A q \in 0 .. n - 1 : isp(q) => q = r
      ELSE \A q \in 0 .. n - 1 : ~isp(q)
  BY <1>1, <1>2, Zenon
<1> QED
  BY <1>3, <1>4, Zenon DEF NameOK, OwnPage, isp, d, c

-----------------------------------------------------------------------------
(* The initial states. *)

LEMMA IFirst ==
  ASSUME Init
  PROVE  \E card \in Cards : /\ fat = card.fat /\ page = card.page /\ card.chain \in [FoldersOfAliases -> Seq(Clusters)]
                            /\ Holds(card, card.chain)
<1>1. PICK card \in Cards : fat = card.fat /\ page = card.page
  BY DEF Init
<1> DEFINE ch == card.chain
<1>2. card.fat \in [Clusters -> FatEntries] /\ card.page \in [Clusters \X Slots -> Dirents]
      /\ (\A c \in Clusters : ~card.fat[c].used => card.fat[c].next = Nil)
      /\ ch \in [FoldersOfAliases -> Seq(Clusters)] /\ card.page[<<0, 0>>].length \in Nat \ {0}
  BY RootIs
<1>3. TypesOK
  <2>1. <<0, 0>> \in Clusters \X Slots /\ FirstPage(0).cluster \in Clusters /\ FirstPage(0).slot \in Slots /\ 0 \in Clusters
    BY Sizes DEF Slots, Clusters, FirstPage
  <2>2. folder.entry \in Dirents /\ folder.place.cluster \in Clusters /\ folder.place.slot \in Slots /\ target = 0
    BY <1>1, <1>2, <2>1 DEF Init
  <2> QED
    BY <1>1, <1>2, <2>1, <2>2, Sizes DEF TypesOK, Init
<1>4. RootOK(card)
  <2>1. \A r \in 0 .. card.page[<<0, 0>>].length - 1 : page[PageOf(card.root, r)].length >= card.page[PageOf(card.root, r)].length
    <3> SUFFICES ASSUME NEW r \in 0 .. card.page[<<0, 0>>].length - 1
                 PROVE page[PageOf(card.root, r)].length >= card.page[PageOf(card.root, r)].length
      OBVIOUS
    <3> DEFINE n == card.page[<<0, 0>>].length
    <3> DEFINE m == Len(card.root) * PagesPerCluster
    <3>1. card.root \in Seq(Clusters) /\ n <= m /\ n \in Nat /\ Len(card.root) \in Nat
      BY RootIs
    <3>2. m \in Nat
      BY <3>1, InChain
    <3>3. r \in Nat /\ r < m
      <4> HIDE DEF n, m
      <4> QED
        BY <3>1, <3>2 DEF n
    <3>4. PageOf(card.root, r) \in Clusters \X Slots
      BY <3>1, <3>3, PageIn
    <3>5. card.page[PageOf(card.root, r)].length \in Nat
      BY <1>2, <3>4 DEF Dirents
    <3> QED
      BY <1>1, <3>5
  <2> QED
    BY <1>1, <2>1, Zenon DEF RootOK
<1>5. FreeOK(card)
  BY <1>1, <1>2 DEF FreeOK, Spare
<1>6. ASSUME NEW d \in FoldersOfAliases PROVE ChainOK(card, d, ch[d]) /\ fat[ch[d][Len(ch[d])]] = EndOfChain
  <2>1. IsChain(card.fat, ch[d])
    BY FolderIs
  <2>2. /\ ch[d] \in Seq(Clusters) /\ Len(ch[d]) >= 1
        /\ \A j, k \in 1 .. Len(ch[d]) : ch[d][j] = ch[d][k] => j = k
        /\ \A j \in 1 .. Len(ch[d]) - 1 : fat[ch[d][j]] = LinkTo(ch[d][j + 1])
        /\ fat[ch[d][Len(ch[d])]] = EndOfChain
    BY <1>1, <2>1, ChainParts
  <2>3. fat[ch[d][Len(ch[d])]].next = Nil
    BY <2>2, Ended
  <2>4. \A j \in Len(ch[d]) + 1 .. Len(ch[d]) : ch[d][j] \in Spare(card)
    BY <2>2
  <2> QED
    BY <2>2, <2>3, <2>4 DEF ChainOK
<1>7. CardOK(card, ch)
  BY <1>1, <1>3, <1>4, <1>5, <1>6, Zenon DEF CardOK
<1>8. iop = "idle" /\ ee = "ready" /\ result = 0
  BY DEF Init
<1>9. CallOK(card)
  BY <1>8 DEF CallOK
<1>10. CountOK
  BY <1>8 DEF CountOK
<1>11. ASSUME NEW d \in FoldersOfAliases PROVE EndOK(d, ch[d]) /\ SizeOK(card, d, ch[d])
  <2>1. EndOK(d, ch[d])
    BY <1>6, <1>8 DEF EndOK
  <2>2. FolderLength(card, d) > (Len(ch[d]) - 1) * PagesPerCluster /\ FolderLength(card, d) <= Len(ch[d]) * PagesPerCluster
    BY <1>1, FolderIs DEF FolderLength
  <2> QED
    BY <1>8, <2>1, <2>2, Zenon DEF SizeOK, Growing
<1>12. ASSUME NEW d \in FoldersOfAliases, NEW e \in FoldersOfAliases, d # e PROVE Disjoint(ch[d], ch[e])
  <2>1. \A j \in 1 .. Len(ch[d]), k \in 1 .. Len(ch[e]) : ch[d][j] # ch[e][k]
    BY <1>12, FolderIs
  <2>2. ch[d] \in Seq(Clusters) /\ ch[e] \in Seq(Clusters)
    BY <1>2
  <2>3. DOMAIN ch[d] = 1 .. Len(ch[d]) /\ DOMAIN ch[e] = 1 .. Len(ch[e])
    BY <2>2
  <2> QED
    BY <2>1, <2>3, Zenon DEF Disjoint
<1>13. ASSUME NEW k \in 1 .. N PROVE NameOK(card, ch, k)
  <2> DEFINE d == FileAlias[k].dir
  <2> DEFINE n == FolderLength(card, d)
  <2> DEFINE is(r) == Has(ch[d], k, r)
  <2>1. Done(k) <=> k = Own
    BY <1>8 DEF Done
  <2>2. d \in FoldersOfAliases /\ n \in Nat
    BY <1>3, <1>4, AliasNames, LengthIs
  <2>3. \A r \in Nat : r < n /\ is(r) => k = Own /\ r = card.executable
    <3>1. \A r \in Nat : is(r) <=> card.page[PageOf(card.chain[d], r)].live /\ card.page[PageOf(card.chain[d], r)].name = FileAlias[k].name
      BY <1>1 DEF Has
    <3>2. n = card.page[FolderPage(card, FileAlias[k].dir)].length
      BY <1>1 DEF FolderLength
    <3> HIDE DEF n, is
    <3> QED
      BY <3>1, <3>2, OwnIs, Zenon
  <2>4. CASE k = Own
    <3>1. d = Home
      BY <2>4 DEF Home
    <3>2. ChainOK(card, Home, ch[Home]) /\ page[OwnPage(card)] = card.page[OwnPage(card)] /\ Home \in FoldersOfAliases
      BY <1>1, <1>6, OwnIs
    <3>3. OwnPage(card) = PageOf(ch[d], card.executable) /\ is(card.executable) /\ card.executable < n
      BY <1>3, <1>4, <2>4, <3>1, <3>2, ExecutableFound
    <3>4. card.executable \in 0 .. n - 1 /\ \A q \in 0 .. n - 1 : q \in Nat /\ q < n
      <4>1. card.executable \in Nat
        BY OwnIs
      <4> HIDE DEF n
      <4> QED
        BY <2>2, <3>3, <4>1
    <3> HIDE DEF n, is, d
    <3> QED
      BY <2>1, <2>3, <2>4, <3>3, <3>4, Zenon DEF NameOK, n, is, d
  <2>5. CASE k # Own
    <3>1. \A q \in 0 .. n - 1 : q \in Nat /\ q < n
      <4> HIDE DEF n
      <4> QED
        BY <2>2
    <3> HIDE DEF n, is, d
    <3> QED
      BY <2>1, <2>3, <2>5, <3>1, Zenon DEF NameOK, n, is, d
  <2> QED
    BY <2>4, <2>5
<1>14. SoundOK(card, ch)
  <2>1. DOMAIN FileAlias = 1 .. N
    BY AliasNames
  <2> QED
    BY <1>10, <1>11, <1>12, <1>13, <2>1, Zenon DEF SoundOK
<1>15. Holds(card, ch)
  BY <1>7, <1>9, <1>14, Zenon DEF Holds
<1> QED
  BY <1>1, <1>2, <1>15, Zenon

LEMMA IInit == ASSUME Init PROVE IInv
<1>1. PICK card \in Cards : card.chain \in [FoldersOfAliases -> Seq(Clusters)] /\ Holds(card, card.chain)
  BY IFirst, Zenon
<1> QED
  BY <1>1, Zenon DEF IInv

-----------------------------------------------------------------------------
(* Steps that write nothing and enter none of the places where a folder grows. *)

LEMMA Quiet ==
  ASSUME NEW card \in Cards, NEW ch, Holds(card, ch), UNCHANGED <<fat, page>>, outside \subseteq outside', TypesOK', CallOK(card)',
         faults' \in {faults, faults + 1},
         iop \notin {"mark", "place", "grow"}, iop' \notin {"mark", "place", "grow"},
         Sound' => /\ CountOK'
                   /\ \A k \in 1 .. N : Done(k)' <=> Done(k)
                   /\ iop' = "allocate" => FolderLength(card, Alias'.dir) = Len(ch[Alias'.dir]) * PagesPerCluster
  PROVE  Holds(card, ch)'
<1>1. CardOK(card, ch) /\ (Sound => SoundOK(card, ch)) /\ fat' = fat /\ page' = page
  BY Zenon DEF Holds
<1>2. CardOK(card, ch)'
  BY <1>1, CardKept
<1>3. ASSUME Sound' PROVE SoundOK(card, ch)'
  <2>0. faults \in Nat
    BY <1>1, Sizes DEF CardOK, TypesOK
  <2>1. Sound /\ SoundOK(card, ch)
    BY <1>1, <1>3, <2>0, Grows
  <2>2. ASSUME NEW d \in FoldersOfAliases PROVE EndOK(d, ch[d])' /\ SizeOK(card, d, ch[d])'
    <3>1. EndOK(d, ch[d]) /\ SizeOK(card, d, ch[d])
      BY <2>1, Zenon DEF SoundOK
    <3>2. ~Growing(d) /\ ~Growing(d)' /\ iop # "mark" /\ iop' # "mark"
      BY DEF Growing
    <3>3. FolderLength(card, d)' = FolderLength(card, d)
      BY <1>1 DEF FolderLength, FolderPage
    <3>4. EndOK(d, ch[d])'
      BY <1>1, <3>1, <3>2, Zenon DEF EndOK
    <3>5. /\ FolderLength(card, d) > (Len(ch[d]) - 1) * PagesPerCluster
          /\ FolderLength(card, d) <= Len(ch[d]) * PagesPerCluster
      BY <3>1, <3>2, Zenon DEF SizeOK
    <3>6. iop' = "allocate" => FolderLength(card, Alias'.dir) = Len(ch[Alias'.dir]) * PagesPerCluster
      BY <1>3
    <3> QED
      BY <3>2, <3>3, <3>4, <3>5, <3>6, Zenon DEF SizeOK
  <2>3. \A d, e \in FoldersOfAliases : d # e => Disjoint(ch[d], ch[e])
    BY <2>1, Zenon DEF SoundOK
  <2>4. ASSUME NEW k \in 1 .. N PROVE NameOK(card, ch, k)'
    <3> DEFINE d == FileAlias[k].dir
    <3>1. NameOK(card, ch, k)
      BY <2>1, AliasNames DEF SoundOK
    <3>2. FolderLength(card, d)' = FolderLength(card, d) /\ page'[OwnPage(card)] = page[OwnPage(card)]
      BY <1>1 DEF FolderLength, FolderPage
    <3>3. \A r \in 0 .. FolderLength(card, d) - 1 :
           /\ Has(ch[d], k, r)' <=> Has(ch[d], k, r)
           /\ Has(ch[d], k, r) => page'[PageOf(ch[d], r)].cluster = page[PageOf(ch[d], r)].cluster
      BY <1>1 DEF Has, PageOf
    <3>4. Done(k)' <=> Done(k)
      BY <1>3
    <3> QED
      BY <3>1, <3>2, <3>3, <3>4, NameKept
  <2> QED
    BY <1>3, <2>2, <2>3, <2>4, AliasNames, Zenon DEF SoundOK, Disjoint
<1> QED
  BY <1>2, <1>3, Zenon DEF Holds

LEMMA StepEE ==
  ASSUME NEW card \in Cards, NEW ch, Holds(card, ch), EInv, EENext
  PROVE  Holds(card, ch)'
<1> USE Sizes
<1>0. CardOK(card, ch) /\ (Sound => SoundOK(card, ch)) /\ TypesOK /\ faults \in Nat /\ faults \in 0 .. MaxFaults
  BY DEF Holds, CardOK, TypesOK
<1>1. /\ UNCHANGED <<fat, page, outside, folder, target>> /\ faults' \in {faults, faults + 1} /\ faults' \in 0 .. MaxFaults
      /\ iop = "idle" /\ iop' \in {"idle", "next"}
  <2>1. iop = "idle"
    BY DEF EENext, BeginCreate, SendBefore, SendAfter, Receive, SkipOwn, FlushCreated, BeginDelete, SendDelete, ReceiveDeleted,
       EndDelete, EInv, BatchOK
  <2>2. UNCHANGED <<fat, page, outside, folder, target>> /\ (NoFault \/ Fault)
    BY Zenon DEF EENext, BeginCreate, SendBefore, SendAfter, Receive, SkipOwn, FlushCreated, BeginDelete, SendDelete, ReceiveDeleted,
       EndDelete, Call, fsVars, iopVars, NoFault
  <2>3. iop' \in {"idle", "next"}
    BY <2>1, Zenon DEF EENext, BeginCreate, SendBefore, SendAfter, Receive, SkipOwn, FlushCreated, BeginDelete, SendDelete, ReceiveDeleted,
       EndDelete, Call, iopVars
  <2> QED
    BY <1>0, <2>1, <2>2, <2>3 DEF NoFault, Fault
<1>2. TypesOK' /\ CallOK(card)'
  BY <1>0, <1>1 DEF TypesOK, CallOK
<1>3. Sound => CountOK
  BY <1>0 DEF SoundOK
<1>4. ASSUME Sound' PROVE CountOK' /\ \A k \in 1 .. N : Done(k)' <=> Done(k)
  <2>0. CountOK /\ faults' = faults /\ \A k \in 1 .. N : Listed(k)' = Listed(k)
    BY <1>0, <1>1, <1>3, <1>4, Grows DEF Listed
  <2>1. \A k \in 1 .. N : k # Own => Listed(k) \in 1 .. N - 1
    BY DEF Listed
  <2>2. CASE BeginCreate
    BY <2>0, <2>2 DEF BeginCreate, CountOK, Done
  <2>3. CASE SendBefore \/ SendAfter
    BY <1>1, <2>0, <2>3 DEF SendBefore, SendAfter, Call, Batch, EInv, EEOK, CountOK, Done
  <2>4. CASE Receive
    <3>1. /\ ee \in {"before_wait", "after_wait"} /\ iop = "idle" /\ UNCHANGED iopVars
          /\ result >= 0 /\ count = i - batch[1] /\ i = batch[2] + 1 /\ batch[1] = FileIndex /\ batch[1] <= batch[2]
          /\ batch[1] \in 1 .. N /\ batch[2] \in 0 .. N /\ i \in 1 .. N + 1 /\ FileIndex \in 1 .. N + 1
          /\ (ee = "after_wait" => FileIndex > Own)
      BY <2>0, <2>4 DEF Receive, EInv, EEOK, BatchOK, CountOK
    <3>2. count > 0 /\ FileIndex + count = i
      <4>1. PICK first, last : first = batch[1] /\ last = batch[2]
        OBVIOUS
      <4>2. count = i - first /\ i = last + 1 /\ first = FileIndex /\ first <= last /\ first \in Nat /\ last \in Nat
        BY <3>1, <4>1
      <4> QED
        BY <4>2
    <3>3. result' = count /\ FileIndex' = i /\ ee' = (IF ee = "before_wait" THEN "before" ELSE "after") /\ i > FileIndex
      BY <2>4, <3>1, <3>2 DEF Receive
    <3>4. CountOK'
      BY <3>1, <3>2, <3>3, SMTT(30) DEF CountOK
    <3>5. \A k \in 1 .. N : Done(k)' <=> Done(k)
      BY <3>1, <3>3 DEF Done
    <3> QED
      BY <3>4, <3>5
  <2>5. CASE SkipOwn
    BY <2>0, <2>5 DEF SkipOwn, EInv, EEOK, CountOK, Done
  <2>6. CASE FlushCreated
    BY <1>0, <2>0, <2>6 DEF FlushCreated, EInv, EEOK, CountOK, Done, Fault
  <2>7. CASE BeginDelete
    BY <2>0, <2>1, <2>7 DEF BeginDelete, CountOK, Done
  <2>8. CASE SendDelete
    BY <2>0, <2>1, <2>8 DEF SendDelete, Call, Batch, EInv, EEOK, CountOK, Done
  <2>9. CASE ReceiveDeleted
    <3>1. /\ ee = "delete_wait" /\ iop = "idle" /\ UNCHANGED iopVars /\ UNCHANGED result
          /\ result >= 0 /\ count = i - batch[1] /\ i = batch[2] + 1 /\ batch[1] = FileIndex /\ batch[1] <= batch[2]
          /\ batch[1] \in 1 .. N /\ batch[2] \in 0 .. N /\ i \in 1 .. N + 1 /\ FileIndex \in 1 .. N + 1
      BY <2>0, <2>9 DEF ReceiveDeleted, EInv, EEOK, BatchOK, CountOK
    <3>2. count > 0 /\ FileIndex + count = i
      <4>1. PICK first, last : first = batch[1] /\ last = batch[2]
        OBVIOUS
      <4>2. count = i - first /\ i = last + 1 /\ first = FileIndex /\ first <= last /\ first \in Nat /\ last \in Nat
        BY <3>1, <4>1
      <4> QED
        BY <4>2
    <3>3. FileIndex' = i /\ ee' = "delete"
      BY <2>9, <3>2 DEF ReceiveDeleted
    <3>4. CountOK'
      BY <3>1, <3>3 DEF CountOK
    <3>5. ASSUME NEW k \in 1 .. N PROVE Done(k)' <=> Done(k)
      <4>1. Listed(k)' = Listed(k) /\ (k # Own => Listed(k) \in 1 .. N - 1)
        BY <2>0, <2>1
      <4> DEFINE l == Listed(k)
      <4>2. Done(k) <=> k = Own \/ l > i \/ l = i
        BY <3>1 DEF Done
      <4>3. Done(k)' <=> k = Own \/ l >= i
        BY <3>3, <4>1, Zenon DEF Done
      <4> HIDE DEF l
      <4> QED
        BY <3>1, <4>1, <4>2, <4>3, SMTT(30) DEF l
    <3> QED
      BY <3>4, <3>5
  <2>10. CASE EndDelete
    BY <2>0, <2>1, <2>10 DEF EndDelete, EInv, EEOK, CountOK, Done
  <2> QED
    BY <2>2, <2>3, <2>4, <2>5, <2>6, <2>7, <2>8, <2>9, <2>10 DEF EENext
<1> QED
  BY <1>1, <1>2, <1>4, Quiet

-----------------------------------------------------------------------------
(* The name that the IOP is at. *)

LEMMA AliasIs ==
  ASSUME EInv, iop # "idle", i <= batch[2]
  PROVE  /\ i \in 1 .. N /\ ee \in {"before_wait", "after_wait", "delete_wait"} /\ (Deleting <=> ee = "delete_wait")
         /\ \E k \in 1 .. N : Alias = FileAlias[k] /\ (IF Deleting THEN k # Own /\ Listed(k) = i ELSE k = i)
<1> USE Sizes
<1>1. i \in 1 .. N /\ ee \in {"before_wait", "after_wait", "delete_wait"} /\ (Deleting <=> ee = "delete_wait")
  BY DEF EInv, EEOK, BatchOK, Deleting
<1>2. CASE Deleting
  <2>1. i \in 1 .. N - 1
    BY <1>1, <1>2 DEF EInv, EEOK, BatchOK
  <2>2. Alias = IF i < Own THEN FileAlias[i] ELSE FileAlias[i + 1]
    BY <1>2, <2>1 DEF Alias, Uninstall
  <2> DEFINE k == IF i < Own THEN i ELSE i + 1
  <2>3. k \in 1 .. N /\ k # Own /\ Listed(k) = i
    BY <2>1 DEF Listed
  <2>4. Alias = FileAlias[k]
    BY <2>2
  <2> HIDE DEF k
  <2> QED
    BY <1>1, <1>2, <2>3, <2>4
<1>3. CASE ~Deleting
  BY <1>1, <1>3 DEF Alias
<1> QED
  BY <1>2, <1>3

LEMMA AliasStays == ASSUME UNCHANGED <<ee, i>> PROVE Alias' = Alias /\ (Deleting' <=> Deleting)
  BY DEF Alias, Deleting

(* While nothing has failed, a name that is being created has no entry yet. *)
LEMMA NewName ==
  ASSUME EInv, CountOK, iop # "idle", i <= batch[2], ~Deleting
  PROVE  i # Own /\ ~Done(i) /\ \A k \in 1 .. N : Done(k) <=> k = Own \/ k < i
<1> USE Sizes
<1>1. i \in 1 .. N /\ ee \in {"before_wait", "after_wait"}
  BY AliasIs
<1>2. i # Own
  BY <1>1 DEF EInv, EEOK, BatchOK, CountOK
<1> QED
  BY <1>1, <1>2 DEF Done

(* What is true of every step of the IOP. *)
LEMMA IOPKeeps ==
  ASSUME EInv, IOPNext
  PROVE  UNCHANGED eeVars /\ UNCHANGED batch /\ iop # "idle"
  BY DEF IOPNext, EndCall, CallFails, ReadFolder, FillFreePage, AddFATRecord, MarkNewCluster, PlaceEntry, GrowFolder,
         DeleteEntry, RereadFolder, NextName

(* The next name, when the one before is done. *)
LEMMA CountNext ==
  ASSUME EInv, CountOK, UNCHANGED eeVars, UNCHANGED batch, NextName(TRUE), iop # "idle"
  PROVE  CountOK'
<1>1. iop' = "next" /\ i' = i + 1 /\ count' = count + 1 /\ batch' = batch /\ UNCHANGED <<ee, result, FileIndex>>
  BY DEF NextName, eeVars
<1>2. i \in Int /\ batch[1] \in Int /\ count \in Int /\ ee \in {"before_wait", "after_wait", "delete_wait"}
  BY Sizes DEF EInv, BatchOK
<1>3. count = i - batch[1]
  BY <1>2 DEF CountOK
<1>4. count' = i' - batch'[1]
  BY <1>1, <1>2, <1>3
<1> QED
  BY <1>1, <1>4 DEF CountOK

LEMMA CountStays ==
  ASSUME CountOK, UNCHANGED eeVars, UNCHANGED <<batch, i, count>>, iop' # "idle"
  PROVE  CountOK'
  BY DEF CountOK, eeVars

LEMMA StepEndCall ==
  ASSUME NEW card \in Cards, NEW ch, Holds(card, ch), EInv, EndCall
  PROVE  Holds(card, ch)'
<1> USE Sizes
<1>0. TypesOK /\ (Sound => SoundOK(card, ch))
  BY DEF Holds, CardOK
<1>1. UNCHANGED <<fat, page, outside, faults, folder, target>> /\ iop = "next" /\ iop' = "idle"
      /\ UNCHANGED eeVars /\ UNCHANGED <<batch, i, count>>
  BY DEF EndCall, fsVars
<1>2. TypesOK' /\ CallOK(card)'
  BY <1>0, <1>1 DEF TypesOK, CallOK
<1>3. i = batch[2] + 1
  BY DEF EndCall, EInv, BatchOK
<1>4. ASSUME Sound' PROVE CountOK' /\ \A k \in 1 .. N : Done(k)' <=> Done(k)
  <2>1. CountOK
    BY <1>0, <1>1, <1>4 DEF Sound, SoundOK
  <2>2. CountOK'
    BY <1>1, <1>3, <2>1 DEF CountOK, eeVars
  <2>3. \A k \in 1 .. N : Done(k)' <=> Done(k)
    BY <1>1 DEF Done, Listed, eeVars
  <2> QED
    BY <2>2, <2>3
<1> QED
  BY <1>1, <1>2, <1>4, Quiet

LEMMA StepCallFails ==
  ASSUME NEW card \in Cards, NEW ch, Holds(card, ch), CallFails
  PROVE  Holds(card, ch)'
<1> USE Sizes
<1>0. TypesOK
  BY DEF Holds, CardOK
<1>1. UNCHANGED <<fat, page, outside, folder, target>> /\ iop = "next" /\ iop' = "idle" /\ faults' = faults + 1
      /\ faults \in Nat /\ faults' \in 0 .. MaxFaults
  BY <1>0 DEF CallFails, TypesOK, Fault
<1>2. TypesOK' /\ CallOK(card)' /\ ~Sound'
  BY <1>0, <1>1 DEF TypesOK, CallOK, Sound
<1> QED
  BY <1>1, <1>2, Quiet

LEMMA StepRereadFolder ==
  ASSUME NEW card \in Cards, NEW ch, Holds(card, ch), EInv, RereadFolder
  PROVE  Holds(card, ch)'
<1> USE Sizes
<1>0. TypesOK /\ (Sound => SoundOK(card, ch))
  BY DEF Holds, CardOK
<1>1. UNCHANGED <<fat, page, outside, folder, target>> /\ iop = "reread" /\ iop' = "next" /\ i' = i + 1
      /\ UNCHANGED eeVars /\ UNCHANGED batch /\ faults \in Nat /\ faults' \in 0 .. MaxFaults /\ faults' \in {faults, faults + 1}
      /\ (faults' = faults => NextName(TRUE))
  BY <1>0 DEF RereadFolder, NextName, TypesOK, Fault, NoFault
<1>2. TypesOK' /\ CallOK(card)'
  BY <1>0, <1>1 DEF TypesOK, CallOK
<1>3. ee = "delete_wait" /\ i \in 1 .. N
  BY <1>1 DEF EInv, BatchOK
<1>4. ASSUME Sound' PROVE CountOK' /\ \A k \in 1 .. N : Done(k)' <=> Done(k)
  <2>1. CountOK /\ NextName(TRUE)
    BY <1>0, <1>1, <1>4, Grows DEF SoundOK
  <2>2. CountOK'
    BY <1>1, <2>1, CountNext
  <2>3. ASSUME NEW k \in 1 .. N PROVE Done(k)' <=> Done(k)
    <3> DEFINE l == Listed(k)
    <3>1. l \in Int /\ l' = l
      BY DEF Listed
    <3>2. Done(k) <=> k = Own \/ l > i
      BY <1>1, <1>3 DEF Done
    <3>3. ee' = "delete_wait"
      BY <1>1, <1>3 DEF eeVars
    <3>4. Done(k)' <=> k = Own \/ l > i + 1 \/ l = i + 1
      BY <1>1, <3>1, <3>3 DEF Done
    <3> HIDE DEF l
    <3> QED
      BY <1>3, <3>1, <3>2, <3>4
  <2> QED
    BY <2>2, <2>3
<1> QED
  BY <1>1, <1>2, <1>4, Quiet

LEMMA StepReadFolder ==
  ASSUME NEW card \in Cards, NEW ch, Holds(card, ch), EInv, ReadFolder
  PROVE  Holds(card, ch)'
<1> USE Sizes
<1>0. TypesOK /\ RootOK(card) /\ (Sound => SoundOK(card, ch)) /\ faults \in Nat /\ faults \in 0 .. MaxFaults
  BY DEF Holds, CardOK, TypesOK
<1> DEFINE found == FindFolder(Alias.dir)
<1>1. UNCHANGED <<fat, page, outside, target>> /\ iop = "next" /\ i <= batch[2] /\ ~Deleting
      /\ UNCHANGED eeVars /\ UNCHANGED batch
  BY DEF ReadFolder
<1>2. Alias.dir \in FoldersOfAliases
  BY <1>1, AliasIs, AliasNames
<1>3. /\ found.result = "found" /\ Entry(found.place) = page[FolderPage(card, Alias.dir)]
      /\ <<found.place.cluster, found.place.slot>> = FolderPage(card, Alias.dir)
      /\ FolderPage(card, Alias.dir) \in Clusters \X Slots
  <2>1. found.result = "found" /\ found.place = PlaceIn(card.root, card.record[Alias.dir])
        /\ Entry(found.place) = page[FolderPage(card, Alias.dir)]
    BY <1>0, <1>2, FolderFound
  <2>2. FolderPage(card, Alias.dir) = <<found.place.cluster, found.place.slot>>
    <3>1. found.place.cluster = FolderPage(card, Alias.dir)[1] /\ found.place.slot = FolderPage(card, Alias.dir)[2]
          /\ FolderPage(card, Alias.dir) \in Clusters \X Slots
      BY <1>2, <2>1, FolderPageIs
    <3> HIDE DEF found
    <3> QED
      BY <3>1
  <2> QED
    BY <1>2, <2>1, <2>2, FolderPageIs
<1>4. \/ NoFault /\ folder' = [entry |-> Entry(found.place), place |-> found.place] /\ iop' = "free_page" /\ UNCHANGED <<i, count>>
      \/ Fault /\ NextName(FALSE) /\ UNCHANGED folder
  BY <1>3 DEF ReadFolder
<1> HIDE DEF found
<1>5. CASE NoFault /\ folder' = [entry |-> Entry(found.place), place |-> found.place] /\ iop' = "free_page" /\ UNCHANGED <<i, count>>
  <2>1. UNCHANGED <<ee, i>> /\ faults' = faults
    BY <1>1, <1>5 DEF eeVars, NoFault
  <2>2. Alias' = Alias
    BY <2>1, AliasStays
  <2>3. page[FolderPage(card, Alias.dir)] \in Dirents /\ folder'.entry = page[FolderPage(card, Alias.dir)]
        /\ <<folder'.place.cluster, folder'.place.slot>> = FolderPage(card, Alias.dir)
        /\ folder'.place.cluster \in Clusters /\ folder'.place.slot \in Slots
    BY <1>0, <1>3, <1>5 DEF TypesOK
  <2>4. TypesOK'
    BY <1>0, <1>1, <2>1, <2>3 DEF TypesOK
  <2>5. CallOK(card)'
    <3>1. iop' = "free_page" /\ page' = page
      BY <1>1, <1>5
    <3>2. iop' # "mark" /\ iop' # "place"
      BY <3>1
    <3> QED
      BY <2>2, <2>3, <3>1, <3>2, Zenon DEF CallOK, FolderPage, PageOf
  <2>6. ASSUME Sound' PROVE CountOK' /\ \A k \in 1 .. N : Done(k)' <=> Done(k)
    <3>1. CountOK
      BY <1>0, <1>1, <2>1, <2>6 DEF Sound, SoundOK
    <3>2. CountOK'
      BY <1>1, <1>5, <3>1, CountStays
    <3>3. \A k \in 1 .. N : Done(k)' <=> Done(k)
      BY <1>1, <1>5 DEF Done, Listed, eeVars
    <3> QED
      BY <3>2, <3>3
  <2>7. outside' = outside
    BY <1>1
  <2> QED
    BY <1>1, <1>5, <2>1, <2>4, <2>5, <2>6, Quiet
<1>6. CASE Fault /\ NextName(FALSE) /\ UNCHANGED folder
  <2>1. faults' = faults + 1 /\ faults' \in 0 .. MaxFaults /\ iop' = "next" /\ UNCHANGED folder
    BY <1>0, <1>6 DEF Fault, NextName
  <2>2. TypesOK' /\ CallOK(card)' /\ ~Sound'
    BY <1>0, <1>1, <2>1 DEF TypesOK, CallOK, Sound
  <2> QED
    BY <1>1, <2>1, <2>2, Quiet
<1> QED
  BY <1>4, <1>5, <1>6

-----------------------------------------------------------------------------
(* Where an entry is written. *)

LEMMA OffRoot ==
  ASSUME NEW card \in Cards, NEW d \in FoldersOfAliases, NEW s, ChainOK(card, d, s), NEW j \in 1 .. Len(s), NEW l \in 1 .. Len(card.root)
  PROVE  s[j] \in Clusters /\ s[j] # card.root[l]
<1>1. s \in Seq(Clusters) /\ Len(card.chain[d]) \in Nat /\ Len(s) \in Nat
  BY FolderIs, FolderRun
<1>2. CASE j \in 1 .. Len(card.chain[d])
  BY <1>1, <1>2, FolderIs DEF ChainOK
<1>3. CASE j \in Len(card.chain[d]) + 1 .. Len(s)
  <2>1. s[j] \in Spare(card)
    BY <1>3 DEF ChainOK
  <2>2. card.fat[card.root[l]].used
    BY RootIs, ChainParts
  <2> QED
    BY <2>1, <2>2 DEF Spare
<1> QED
  BY <1>1, <1>2, <1>3

LEMMA OffOwn ==
  ASSUME NEW card \in Cards, NEW d \in FoldersOfAliases, NEW s, ChainOK(card, d, s), d # Home,
         NEW j \in 1 .. Len(s), NEW l \in 1 .. Len(card.chain[Home])
  PROVE  s[j] # card.chain[Home][l]
<1>1. s \in Seq(Clusters) /\ Len(card.chain[d]) \in Nat /\ Len(s) \in Nat /\ Home \in FoldersOfAliases
  BY FolderIs, FolderRun, OwnIs
<1>2. CASE j \in 1 .. Len(card.chain[d])
  <2>1. s[j] = card.chain[d][j]
    BY <1>2 DEF ChainOK
  <2>2. card.chain[d][j] # card.chain[Home][l]
    BY <1>1, <1>2, FolderIs
  <2> QED
    BY <2>1, <2>2
<1>3. CASE j \in Len(card.chain[d]) + 1 .. Len(s)
  <2>1. s[j] \in Spare(card)
    BY <1>3 DEF ChainOK
  <2>2. card.fat[card.chain[Home][l]].used
    <3>1. IsChain(card.fat, card.chain[Home])
      BY <1>1, FolderIs
    <3> QED
      BY <3>1, ChainParts
  <2> QED
    BY <2>1, <2>2 DEF Spare
<1> QED
  BY <1>1, <1>2, <1>3

LEMMA NotOwn ==
  ASSUME NEW card \in Cards, NEW d \in FoldersOfAliases, NEW s, ChainOK(card, d, s), NEW w \in Nat, w < Len(s) * PagesPerCluster,
         PageOf(s, w) = OwnPage(card)
  PROVE  d = Home /\ w = card.executable
<1>1. s \in Seq(Clusters) /\ Home \in FoldersOfAliases /\ card.executable \in Nat
      /\ card.executable < Len(card.chain[Home]) * PagesPerCluster
  BY FolderRun, OwnIs
<1>2. card.chain[Home] \in Seq(Clusters)
  BY <1>1, FolderIs
<1>3. PageOf(s, w) = PageOf(card.chain[Home], card.executable)
  BY DEF OwnPage
<1>4. d = Home
  <2> DEFINE t == card.chain[Home]
  <2> DEFINE x == card.executable
  <2>1. t \in Seq(Clusters) /\ x \in Nat /\ x < Len(t) * PagesPerCluster /\ PageOf(s, w) = PageOf(t, x)
    BY <1>1, <1>2, <1>3
  <2> HIDE DEF t, x
  <2>2. PICK j \in 1 .. Len(s), k \in 1 .. Len(t) : s[j] = t[k]
    <3>1. \E j \in 1 .. Len(s), k \in 1 .. Len(t) :
            s[j] = t[k] /\ j = w \div PagesPerCluster + 1 /\ k = x \div PagesPerCluster + 1 /\ (j = k => w = x)
      BY <1>1, <2>1, SamePage
    <3> QED
      BY <3>1, Zenon
  <2> QED
    BY <2>2, OffOwn DEF t
<1>5. PageOf(s, card.executable) = PageOf(s, w) /\ card.executable < Len(s) * PagesPerCluster
  BY <1>1, <1>3, <1>4, OldPage
<1>6. \A j, k \in 1 .. Len(s) : s[j] = s[k] => j = k
  BY DEF ChainOK
<1>7. w = card.executable
  BY <1>1, <1>5, <1>6, OnePage
<1> QED
  BY <1>4, <1>7

LEMMA Elsewhere ==
  ASSUME NEW card \in Cards, NEW ch, \A d \in FoldersOfAliases : ChainOK(card, d, ch[d]),
         \A d, e \in FoldersOfAliases : d # e => Disjoint(ch[d], ch[e]),
         NEW d \in FoldersOfAliases, NEW e \in FoldersOfAliases,
         NEW w \in Nat, w < Len(ch[d]) * PagesPerCluster, NEW r \in Nat, r < Len(ch[e]) * PagesPerCluster,
         d # e \/ r # w
  PROVE  PageOf(ch[e], r) # PageOf(ch[d], w) /\ PageOf(ch[e], r) \in Clusters \X Slots
<1>1. ch[d] \in Seq(Clusters) /\ ch[e] \in Seq(Clusters) /\ DOMAIN ch[d] = 1 .. Len(ch[d]) /\ DOMAIN ch[e] = 1 .. Len(ch[e])
  BY FolderRun
<1>2. PageOf(ch[e], r) \in Clusters \X Slots
  BY <1>1, PageIn
<1>3. ASSUME PageOf(ch[d], w) = PageOf(ch[e], r) PROVE FALSE
  <2>1. PICK j \in 1 .. Len(ch[d]), k \in 1 .. Len(ch[e]) : ch[d][j] = ch[e][k] /\ (j = k => w = r)
    BY <1>1, <1>3, SamePage, SMTT(30)
  <2>2. d = e
    <3>1. ASSUME Disjoint(ch[d], ch[e]) PROVE FALSE
      BY <1>1, <2>1, <3>1 DEF Disjoint
    <3> QED
      BY <3>1
  <2>3. ChainOK(card, d, ch[d])
    OBVIOUS
  <2>4. \A x, y \in 1 .. Len(ch[d]) : ch[d][x] = ch[d][y] => x = y
    BY <2>3, Zenon DEF ChainOK
  <2> QED
    BY <2>1, <2>2, <2>4
<1> QED
  BY <1>2, <1>3

Wrote(s, w, e) == page' = [page EXCEPT ![PageOf(s, w)] = e]

LEMMA Written ==
  ASSUME page \in [Clusters \X Slots -> Dirents], NEW s \in Seq(Clusters), NEW w \in Nat, w < Len(s) * PagesPerCluster,
         NEW e \in Dirents, UpdateDirEntInformation(PlaceIn(s, w), e)
  PROVE  /\ Wrote(s, w, e) /\ page' \in [Clusters \X Slots -> Dirents] /\ outside' = outside
<1>1. PageOf(s, w) \in Clusters \X Slots /\ s[w \div PagesPerCluster + 1] \in Clusters
  BY PageIn
<1>2. PlaceIn(s, w).cluster = s[w \div PagesPerCluster + 1] /\ PageOf(s, w) = <<PlaceIn(s, w).cluster, PlaceIn(s, w).slot>>
  BY DEF PlaceIn, PageOf
<1>3. PlaceIn(s, w).cluster >= 0
  BY <1>1, <1>2, Sizes DEF Clusters
<1>4. page' = [page EXCEPT ![PageOf(s, w)] = e] /\ outside' = outside
  BY <1>2, <1>3, Zenon DEF UpdateDirEntInformation
<1> QED
  BY <1>1, <1>4 DEF Wrote

(* A write to a page that is neither the root's nor the executable's entry. *)
LEMMA WriteKept ==
  ASSUME NEW card \in Cards, NEW ch, CardOK(card, ch), TypesOK', fat' = fat, NEW p \in Clusters \X Slots, NEW e,
         page' = [page EXCEPT ![p] = e], p # OwnPage(card), \A l \in 1 .. Len(card.root) : p[1] # card.root[l]
  PROVE  CardOK(card, ch)' /\ (\A d \in FoldersOfAliases : page'[FolderPage(card, d)] = page[FolderPage(card, d)])
         /\ page'[OwnPage(card)] = page[OwnPage(card)]
<1>1. page \in [Clusters \X Slots -> Dirents]
  BY DEF CardOK, TypesOK
<1>2. \A q \in Clusters \X Slots : q # p => page'[q] = page[q]
  BY <1>1
<1>3. page'[OwnPage(card)] = page[OwnPage(card)]
  BY <1>2, OwnIs
<1>4. \A q \in Clusters \X Slots : (\E j \in 1 .. Len(card.root) : q[1] = card.root[j]) => page'[q] = page[q]
  BY <1>2
<1> QED
  BY <1>3, <1>4, CardKept

(* A write to a record of a folder. *)
LEMMA RecordKept ==
  ASSUME NEW card \in Cards, NEW ch, CardOK(card, ch), TypesOK', fat' = fat, NEW d \in FoldersOfAliases,
         NEW w \in Nat, w < Len(ch[d]) * PagesPerCluster, d # Home \/ w # card.executable, NEW e,
         Wrote(ch[d], w, e)
  PROVE  CardOK(card, ch)' /\ (\A f \in FoldersOfAliases : page'[FolderPage(card, f)] = page[FolderPage(card, f)])
         /\ page'[OwnPage(card)] = page[OwnPage(card)]
<1>1. ChainOK(card, d, ch[d]) /\ ch[d] \in Seq(Clusters)
  BY FolderRun DEF CardOK
<1>2. PageOf(ch[d], w) \in Clusters \X Slots /\ w \div PagesPerCluster + 1 \in 1 .. Len(ch[d])
  BY <1>1, PageIn
<1>3. PageOf(ch[d], w) # OwnPage(card)
  BY <1>1, NotOwn
<1>4. PageOf(ch[d], w)[1] = ch[d][w \div PagesPerCluster + 1]
  BY DEF PageOf
<1>5. \A l \in 1 .. Len(card.root) : PageOf(ch[d], w)[1] # card.root[l]
  BY <1>1, <1>2, <1>4, OffRoot
<1> QED
  BY <1>2, <1>3, <1>5, WriteKept DEF Wrote

LEMMA CallKept ==
  ASSUME NEW card, CallOK(card), iop \in {"free_page", "allocate", "mark", "place"}, UNCHANGED <<ee, i, folder>>,
         page'[FolderPage(card, Alias.dir)] = page[FolderPage(card, Alias.dir)],
         iop' = "mark" => target' \in Clusters /\ ~fat'[target'].used,
         iop' = "place" => target' \in {-EINVAL, -1} \cup Spare(card)
  PROVE  CallOK(card)' /\ Alias' = Alias
<1>1. Alias' = Alias
  BY AliasStays
<1>2. /\ folder'.entry = page'[FolderPage(card, Alias'.dir)]
      /\ <<folder'.place.cluster, folder'.place.slot>> = FolderPage(card, Alias'.dir)
  BY <1>1 DEF CallOK
<1> QED
  BY <1>1, <1>2, Zenon DEF CallOK, FolderPage, PageOf, Spare

LEMMA CallEnds == ASSUME NEW card, iop' \in {"idle", "next", "reread"} PROVE CallOK(card)'
  BY DEF CallOK

LEMMA Failed == ASSUME NEW card, NEW ch, CardOK(card, ch)', CallOK(card)', ~Sound' PROVE Holds(card, ch)'
  BY Zenon DEF Holds

-----------------------------------------------------------------------------
(* CreateNewVirtualDirent: a free page is filled. *)

(* Tell two names of a folder apart. *)
LEMMA Apart ==
  ASSUME NEW j \in 1 .. N, NEW k \in 1 .. N, FileAlias[j].dir = FileAlias[k].dir, FileAlias[j].name = FileAlias[k].name
  PROVE  j = k
<1>1. FileAlias[j] = FileAlias[k] /\ DOMAIN FileAlias = 1 .. N
  BY AliasNames
<1> QED
  BY <1>1, CrossLinkAssumption

LEMMA Creating ==
  ASSUME NEW card \in Cards, NEW ch, Holds(card, ch), EInv, iop \in {"free_page", "allocate", "mark", "place", "grow"}
  PROVE  /\ CardOK(card, ch) /\ TypesOK /\ RootOK(card) /\ ChainOK(card, Alias.dir, ch[Alias.dir]) /\ CallOK(card)
         /\ faults \in Nat /\ faults \in 0 .. MaxFaults
         /\ i <= batch[2] /\ ~Deleting /\ i \in 1 .. N /\ Alias = FileAlias[i] /\ ee \in {"before_wait", "after_wait"}
         /\ Alias.dir \in FoldersOfAliases /\ NewDirEnt \in Dirents
         /\ folder.entry = page[FolderPage(card, Alias.dir)]
         /\ <<folder.place.cluster, folder.place.slot>> = FolderPage(card, Alias.dir)
         /\ Sound => /\ SoundOK(card, ch) /\ i # Own /\ ~Done(i)
                     /\ NewDirEnt = [page[OwnPage(card)] EXCEPT !.name = Alias.name, !.live = TRUE]
<1>1. CardOK(card, ch) /\ CallOK(card) /\ (Sound => SoundOK(card, ch)) /\ TypesOK /\ RootOK(card)
      /\ page[OwnPage(card)] = card.page[OwnPage(card)] /\ \A d \in FoldersOfAliases : ChainOK(card, d, ch[d])
  BY Zenon DEF Holds, CardOK
<1>2. i <= batch[2] /\ iop # "idle" /\ ee # "delete_wait"
  BY DEF EInv, BatchOK
<1>3. i \in 1 .. N /\ ~Deleting /\ Alias = FileAlias[i] /\ ee \in {"before_wait", "after_wait"}
  BY <1>2, AliasIs
<1>4. Alias \in [dir : FoldersOfAliases, name : Names] /\ Alias.dir \in FoldersOfAliases
  BY <1>3, AliasNames
<1>5. Executable \in Dirents /\ Home \in FoldersOfAliases
  BY <1>1, ExecutableFound, OwnIs
<1>6. NewDirEnt \in Dirents
  BY <1>4, <1>5 DEF NewDirEnt, Dirents
<1>7. ASSUME Sound
      PROVE  /\ i # Own /\ ~Done(i)
             /\ NewDirEnt = [page[OwnPage(card)] EXCEPT !.name = Alias.name, !.live = TRUE]
  <2>1. CountOK /\ NameOK(card, ch, Own)
    BY <1>1, <1>7, AliasNames, Sizes DEF SoundOK
  <2>2. Executable = page[OwnPage(card)]
    BY <1>1, <2>1, OwnIsOne
  <2> QED
    BY <1>2, <1>3, <2>1, <2>2, NewName, Zenon DEF NewDirEnt
<1>8. faults \in Nat /\ faults \in 0 .. MaxFaults
  BY <1>1, Sizes DEF TypesOK
<1>9. folder.entry = page[FolderPage(card, Alias.dir)] /\ <<folder.place.cluster, folder.place.slot>> = FolderPage(card, Alias.dir)
  BY <1>1, Zenon DEF CallOK
<1> QED
  BY <1>1, <1>2, <1>3, <1>4, <1>6, <1>7, <1>8, <1>9, Zenon

(* The folders as they are while nothing has failed. *)
LEMMA SoundParts ==
  ASSUME NEW card \in Cards, NEW ch, CardOK(card, ch), SoundOK(card, ch)
  PROVE  /\ CountOK /\ \A d \in FoldersOfAliases : ChainOK(card, d, ch[d]) /\ EndOK(d, ch[d]) /\ SizeOK(card, d, ch[d])
         /\ \A d, e \in FoldersOfAliases : d # e => Disjoint(ch[d], ch[e])
         /\ \A k \in 1 .. N : NameOK(card, ch, k)
         /\ \A d \in FoldersOfAliases :
              /\ FolderLength(card, d) \in Nat \ {0} /\ FolderLength(card, d) <= Len(ch[d]) * PagesPerCluster
              /\ \A r \in 0 .. FolderLength(card, d) - 1 : r \in Nat /\ r < FolderLength(card, d) /\ r < Len(ch[d]) * PagesPerCluster
<1>1. /\ CountOK /\ \A d \in FoldersOfAliases : ChainOK(card, d, ch[d]) /\ EndOK(d, ch[d]) /\ SizeOK(card, d, ch[d])
      /\ \A d, e \in FoldersOfAliases : d # e => Disjoint(ch[d], ch[e])
      /\ TypesOK /\ RootOK(card)
  BY Zenon DEF SoundOK, CardOK
<1>2. \A k \in 1 .. N : NameOK(card, ch, k)
  BY AliasNames DEF SoundOK
<1>3. ASSUME NEW d \in FoldersOfAliases
      PROVE  /\ FolderLength(card, d) \in Nat \ {0} /\ FolderLength(card, d) <= Len(ch[d]) * PagesPerCluster
             /\ \A r \in 0 .. FolderLength(card, d) - 1 : r \in Nat /\ r < FolderLength(card, d) /\ r < Len(ch[d]) * PagesPerCluster
  <2> DEFINE n == FolderLength(card, d)
  <2> DEFINE m == Len(ch[d]) * PagesPerCluster
  <2>1. n \in Nat \ {0} /\ n <= m /\ m \in Nat
    BY <1>1, Fits
  <2> HIDE DEF n, m
  <2>2. \A r \in 0 .. n - 1 : r \in Nat /\ r < n /\ r < m
    BY <2>1
  <2> QED
    BY <2>1, <2>2 DEF n, m
<1> QED
  BY <1>1, <1>2, <1>3, Zenon

(* A write to one record of a folder leaves the others. *)
LEMMA OtherRecords ==
  ASSUME NEW card \in Cards, NEW ch, CardOK(card, ch), SoundOK(card, ch),
         NEW d \in FoldersOfAliases, NEW w \in Nat, w < Len(ch[d]) * PagesPerCluster, NEW e, Wrote(ch[d], w, e),
         NEW k \in 1 .. N, NEW r \in 0 .. FolderLength(card, FileAlias[k].dir) - 1, FileAlias[k].dir # d \/ r # w
  PROVE  /\ page'[PageOf(ch[FileAlias[k].dir], r)] = page[PageOf(ch[FileAlias[k].dir], r)]
         /\ Has(ch[FileAlias[k].dir], k, r)' <=> Has(ch[FileAlias[k].dir], k, r)
<1> DEFINE f == FileAlias[k].dir
<1>1. f \in FoldersOfAliases
  BY AliasNames
<1>2. r \in Nat /\ r < Len(ch[f]) * PagesPerCluster
  BY <1>1, SoundParts
<1>3. (\A x \in FoldersOfAliases : ChainOK(card, x, ch[x])) /\ (\A x, y \in FoldersOfAliases : x # y => Disjoint(ch[x], ch[y]))
  BY SoundParts, Zenon
<1>4. PageOf(ch[f], r) # PageOf(ch[d], w) /\ PageOf(ch[f], r) \in Clusters \X Slots
  BY <1>1, <1>2, <1>3, Elsewhere
<1>5. page \in [Clusters \X Slots -> Dirents]
  BY DEF CardOK, TypesOK
<1>6. page'[PageOf(ch[f], r)] = page[PageOf(ch[f], r)]
  BY <1>4, <1>5 DEF Wrote
<1> QED
  BY <1>6, Zenon DEF Has, PageOf

LEMMA ThisRecord ==
  ASSUME NEW card \in Cards, NEW ch, CardOK(card, ch),
         NEW d \in FoldersOfAliases, NEW w \in Nat, w < Len(ch[d]) * PagesPerCluster, NEW e, Wrote(ch[d], w, e)
  PROVE  page'[PageOf(ch[d], w)] = e
<1>1. PageOf(ch[d], w) \in Clusters \X Slots
  BY FolderRun, PageIn DEF CardOK
<1> QED
  BY <1>1 DEF CardOK, TypesOK, Wrote

(* A write behind the records of a folder is not seen by the names. *)
LEMMA NamesBehind ==
  ASSUME NEW card \in Cards, NEW ch, CardOK(card, ch), SoundOK(card, ch),
         NEW d \in FoldersOfAliases, NEW w \in Nat, w < Len(ch[d]) * PagesPerCluster, w >= FolderLength(card, d),
         NEW e, Wrote(ch[d], w, e), page'[OwnPage(card)] = page[OwnPage(card)],
         \A f \in FoldersOfAliases : page'[FolderPage(card, f)] = page[FolderPage(card, f)],
         NEW k \in 1 .. N, Done(k)' <=> Done(k)
  PROVE  NameOK(card, ch, k)'
<1> DEFINE f == FileAlias[k].dir
<1>1. f \in FoldersOfAliases /\ NameOK(card, ch, k)
  BY AliasNames, SoundParts
<1>2. FolderLength(card, f)' = FolderLength(card, f)
  BY <1>1 DEF FolderLength, FolderPage
<1>3. ASSUME NEW r \in 0 .. FolderLength(card, f) - 1
      PROVE  /\ page'[PageOf(ch[f], r)] = page[PageOf(ch[f], r)]
             /\ Has(ch[f], k, r)' <=> Has(ch[f], k, r)
  <2>1. r < FolderLength(card, f) /\ FolderLength(card, f) \in Nat /\ r \in Nat
    BY <1>1, SoundParts
  <2>2. f # d \/ r # w
    BY <2>1
  <2> QED
    BY <2>2, OtherRecords
<1>4. \A r \in 0 .. FolderLength(card, f) - 1 :
        /\ Has(ch[f], k, r)' <=> Has(ch[f], k, r)
        /\ Has(ch[f], k, r) => page'[PageOf(ch[f], r)].cluster = page[PageOf(ch[f], r)].cluster
  BY <1>3, Zenon
<1> QED
  BY <1>1, <1>2, <1>4, NameKept

(* A folder is as large as its records need, or one record is being added. *)
LEMMA SizeKept ==
  ASSUME NEW card, NEW d, NEW s, SizeOK(card, d, s), ~Growing(d), ~Growing(d)', FolderLength(card, d)' = FolderLength(card, d),
         iop' # "allocate" \/ d # Alias'.dir
  PROVE  SizeOK(card, d, s)'
  BY Zenon DEF SizeOK

LEMMA SizeGrowing ==
  ASSUME NEW card, NEW d, NEW s, NEW n, FolderLength(card, d)' = n, Growing(d)', iop' = "grow",
         n >= (Len(s) - 1) * PagesPerCluster, n < Len(s) * PagesPerCluster,
         page'[PageOf(s, n)] = [page'[OwnPage(card)] EXCEPT !.name = Alias'.name, !.live = TRUE]
  PROVE  SizeOK(card, d, s)'
<1>1. PageOf(s, FolderLength(card, d))' = PageOf(s, n) /\ OwnPage(card)' = OwnPage(card)
  BY Zenon DEF PageOf, OwnPage
<1>2. iop' # "allocate"
  OBVIOUS
<1> QED
  BY <1>1, <1>2, Zenon DEF SizeOK

LEMMA FillFound ==
  ASSUME NEW card \in Cards, NEW ch, Holds(card, ch), EInv, iop = "free_page",
         FreePage(Alias.dir).result = "found", NoFault, UpdateDirEntInformation(FreePage(Alias.dir).place, NewDirEnt),
         NextName(TRUE), UNCHANGED <<fat, eeVars, batch, folder, target>>
  PROVE  Holds(card, ch)'
<1>d. PICK D \in FoldersOfAliases, E \in Dirents : D = Alias.dir /\ E = NewDirEnt
  BY Creating
<1> DEFINE s == ch[D]
<1>1. /\ CardOK(card, ch) /\ TypesOK /\ RootOK(card) /\ ChainOK(card, D, s)
      /\ i <= batch[2] /\ ~Deleting /\ i \in 1 .. N /\ Alias = FileAlias[i] /\ ee \in {"before_wait", "after_wait"}
      /\ D = Alias.dir /\ E = NewDirEnt
      /\ Sound => /\ SoundOK(card, ch) /\ i # Own /\ ~Done(i)
                  /\ NewDirEnt = [page[OwnPage(card)] EXCEPT !.name = Alias.name, !.live = TRUE]
  BY <1>d, Creating, Zenon
<1>2. PICK w \in Nat : /\ w < FolderLength(card, D) /\ w < Len(s) * PagesPerCluster /\ FreePage(D).place = PlaceIn(s, w)
                       /\ ~page[PageOf(s, w)].live
  BY <1>1, FreeFound
<1> HIDE DEF s
<1>3. s \in Seq(Clusters) /\ page \in [Clusters \X Slots -> Dirents]
  BY <1>1, FolderRun DEF TypesOK
<1>4. Wrote(s, w, E) /\ page' \in [Clusters \X Slots -> Dirents] /\ outside' = outside
  BY <1>1, <1>2, <1>3, Written
<1>5. D # Home \/ w # card.executable
  <2>1. ASSUME D = Home, w = card.executable PROVE FALSE
    <3>1. PageOf(s, w) = OwnPage(card)
      BY <1>1, <2>1, OwnIs, OldPage DEF OwnPage
    <3>2. page[OwnPage(card)].live
      BY <1>1, OwnIs DEF CardOK
    <3> QED
      BY <1>2, <3>1, <3>2
  <2> QED
    BY <2>1
<1>6. iop' = "next" /\ i' = i + 1 /\ ee' = ee /\ faults' = faults
  BY DEF NextName, eeVars, NoFault
<1>7. TypesOK'
  BY <1>1, <1>4, <1>6 DEF TypesOK
<1>8. CardOK(card, ch)' /\ (\A f \in FoldersOfAliases : page'[FolderPage(card, f)] = page[FolderPage(card, f)])
      /\ page'[OwnPage(card)] = page[OwnPage(card)]
  <2>1. Wrote(ch[D], w, E) /\ w < Len(ch[D]) * PagesPerCluster
    BY <1>2, <1>4 DEF s
  <2> QED
    BY <1>1, <1>5, <1>7, <2>1, RecordKept
<1>9. CallOK(card)'
  BY <1>6, CallEnds
<1>10. ASSUME Sound' PROVE SoundOK(card, ch)'
  <2>1. SoundOK(card, ch) /\ i # Own /\ ~Done(i) /\ E = [page[OwnPage(card)] EXCEPT !.name = Alias.name, !.live = TRUE]
    BY <1>1, <1>4, <1>6, <1>10 DEF Sound
  <2>2. CountOK'
    BY <2>1, CountNext, SoundParts, <1>1
  <2>3. ASSUME NEW d \in FoldersOfAliases PROVE EndOK(d, ch[d])' /\ SizeOK(card, d, ch[d])'
    <3>1. EndOK(d, ch[d]) /\ SizeOK(card, d, ch[d])
      BY <1>1, <2>1, SoundParts
    <3>2. ~Growing(d) /\ ~Growing(d)' /\ iop # "mark" /\ iop' # "mark" /\ iop' # "allocate"
      BY <1>6 DEF Growing
    <3>3. FolderLength(card, d)' = FolderLength(card, d)
      BY <1>8 DEF FolderLength, FolderPage
    <3> QED
      BY <3>1, <3>2, <3>3, Zenon DEF EndOK, SizeOK
  <2>4. page'[PageOf(s, w)] = E /\ \A k \in 1 .. N : Has(s, k, w)' <=> E.live /\ E.name = FileAlias[k].name
    <3>1. w < Len(ch[D]) * PagesPerCluster /\ Wrote(ch[D], w, E)
      BY <1>2, <1>4 DEF s
    <3> QED
      <4>1. CardOK(card, ch) /\ D \in FoldersOfAliases /\ w \in Nat /\ w < Len(ch[D]) * PagesPerCluster /\ Wrote(ch[D], w, E)
        BY <1>1, <3>1
      <4>2. page'[PageOf(ch[D], w)] = E
        BY <4>1, ThisRecord, ZenonT(30)
      <4>3. \A k \in 1 .. N : Has(ch[D], k, w)' <=> E.live /\ E.name = FileAlias[k].name
        BY <4>2, Zenon DEF Has, PageOf
      <4> QED
        BY <4>2, <4>3 DEF s
  <2>5. E.live /\ E.name = FileAlias[i].name /\ E.cluster = page[OwnPage(card)].cluster
    <3>1. page[OwnPage(card)] \in Dirents
      BY <1>3, OwnIs
    <3> QED
      BY <1>1, <2>1, <3>1 DEF Dirents
  <2>6. ASSUME NEW k \in 1 .. N, NEW r \in 0 .. FolderLength(card, FileAlias[k].dir) - 1, FileAlias[k].dir # D \/ r # w
        PROVE  /\ page'[PageOf(ch[FileAlias[k].dir], r)] = page[PageOf(ch[FileAlias[k].dir], r)]
               /\ Has(ch[FileAlias[k].dir], k, r)' <=> Has(ch[FileAlias[k].dir], k, r)
    <3>1. w < Len(ch[D]) * PagesPerCluster /\ Wrote(ch[D], w, E)
      BY <1>2, <1>4 DEF s
    <3> QED
      <4>1. CardOK(card, ch) /\ SoundOK(card, ch) /\ D \in FoldersOfAliases /\ w \in Nat /\ w < Len(ch[D]) * PagesPerCluster /\ Wrote(ch[D], w, E)
        BY <1>1, <2>1, <3>1
      <4>2. page'[PageOf(ch[FileAlias[k].dir], r)] = page[PageOf(ch[FileAlias[k].dir], r)]
        BY <2>6, <4>1, OtherRecords
      <4>3. Has(ch[FileAlias[k].dir], k, r)' <=> Has(ch[FileAlias[k].dir], k, r)
        BY <2>6, <4>1, OtherRecords, Zenon
      <4> QED
        BY <4>2, <4>3
  <2>7. ASSUME NEW k \in 1 .. N PROVE NameOK(card, ch, k)'
    <3> DEFINE f == FileAlias[k].dir
    <3> DEFINE n == FolderLength(card, f)
    <3>1. f \in FoldersOfAliases /\ NameOK(card, ch, k) /\ n' = n /\ n \in Nat
      BY <1>1, <1>8, <2>1, AliasNames, SoundParts DEF FolderLength, FolderPage
    <3>2. CASE k # i
      <4>1. Done(k)' <=> Done(k)
        BY <1>1, <1>6, <3>2 DEF Done
      <4>2. ASSUME NEW r \in 0 .. n - 1
            PROVE  /\ Has(ch[f], k, r)' <=> Has(ch[f], k, r)
                   /\ Has(ch[f], k, r) => page'[PageOf(ch[f], r)].cluster = page[PageOf(ch[f], r)].cluster
        <5>1. CASE f # D \/ r # w
          BY <2>6, <5>1
        <5>2. CASE f = D /\ r = w
          <6>1. ~Has(ch[f], k, r)
            BY <1>2, <5>2 DEF Has, s
          <6>2. FileAlias[k].name # FileAlias[i].name
            BY <1>1, <3>2, <5>2, Apart
          <6>3. ~Has(ch[f], k, r)'
            BY <2>4, <2>5, <5>2, <6>2, Zenon DEF s
          <6> QED
            BY <6>1, <6>3
        <5> QED
          BY <5>1, <5>2
      <4> QED
        BY <1>8, <3>1, <4>1, <4>2, NameKept
    <3>3. CASE k = i
      <4>1. Done(k)' /\ ~Done(k) /\ f = D
        BY <1>1, <1>6, <2>1, <3>3 DEF Done
      <4>2. \A q \in 0 .. n - 1 : ~Has(ch[f], k, q)
        BY <3>1, <4>1, Zenon DEF NameOK
      <4>3. w \in 0 .. n - 1
        BY <1>2, <3>1, <4>1
      <4>4. Has(ch[f], k, w)' /\ page'[PageOf(ch[f], w)].cluster = page'[OwnPage(card)].cluster
        BY <1>8, <2>4, <2>5, <3>3, <4>1, Zenon DEF s
      <4>5. \A q \in 0 .. n - 1 : Has(ch[f], k, q)' => q = w
        BY <2>6, <4>2
      <4> HIDE DEF n, f
      <4> QED
        BY <3>1, <4>1, <4>3, <4>4, <4>5, Zenon DEF NameOK, OwnPage, PageOf, n, f
    <3> QED
      BY <3>2, <3>3
  <2>8. \A d, e \in FoldersOfAliases : d # e => Disjoint(ch[d], ch[e])
    BY <1>1, <2>1, SoundParts
  <2> QED
    BY <2>2, <2>3, <2>7, <2>8, AliasNames, Zenon DEF SoundOK, Disjoint
<1> QED
  BY <1>8, <1>9, <1>10, Zenon DEF Holds

LEMMA FillUnused ==
  ASSUME NEW card \in Cards, NEW ch, Holds(card, ch), EInv, iop = "free_page",
         FreePage(Alias.dir).result = "unused", NoFault, UpdateDirEntInformation(FreePage(Alias.dir).place, NewDirEnt),
         iop' = "grow", UNCHANGED <<i, count>>, UNCHANGED <<fat, eeVars, batch, folder, target>>
  PROVE  Holds(card, ch)'
<1>d. PICK D \in FoldersOfAliases, E \in Dirents : D = Alias.dir /\ E = NewDirEnt
  BY Creating
<1> DEFINE s == ch[D]
<1>l. PICK w : w = FolderLength(card, D)
  OBVIOUS
<1>1. /\ CardOK(card, ch) /\ TypesOK /\ RootOK(card) /\ ChainOK(card, D, s) /\ CallOK(card)
      /\ i <= batch[2] /\ ~Deleting /\ i \in 1 .. N /\ Alias = FileAlias[i] /\ ee \in {"before_wait", "after_wait"}
      /\ D = Alias.dir /\ E = NewDirEnt
      /\ Sound => /\ SoundOK(card, ch) /\ i # Own /\ ~Done(i)
                  /\ NewDirEnt = [page[OwnPage(card)] EXCEPT !.name = Alias.name, !.live = TRUE]
  BY <1>d, Creating, Zenon
<1>2. w \in Nat /\ w < Len(s) * PagesPerCluster /\ FreePage(D).place = PlaceIn(s, w)
  BY <1>1, <1>l, FreeFound, LengthIs
<1>5. D # Home \/ w # card.executable
  <2>1. ASSUME D = Home PROVE card.executable < w
    BY <1>1, <1>l, <2>1, ExecutableFound DEF CardOK
  <2>2. card.executable \in Nat
    BY OwnIs
  <2> QED
    BY <1>2, <2>1, <2>2
<1> HIDE DEF s
<1>3. s \in Seq(Clusters) /\ page \in [Clusters \X Slots -> Dirents]
  BY <1>1, FolderRun DEF TypesOK
<1>4. Wrote(s, w, E) /\ page' \in [Clusters \X Slots -> Dirents] /\ outside' = outside
  BY <1>1, <1>2, <1>3, Written
<1>6. i' = i /\ ee' = ee /\ faults' = faults
  BY DEF eeVars, NoFault
<1>7. TypesOK'
  BY <1>1, <1>4, <1>6 DEF TypesOK
<1>8. Wrote(ch[D], w, E) /\ w < Len(ch[D]) * PagesPerCluster
  BY <1>2, <1>4 DEF s
<1>9. CardOK(card, ch)' /\ (\A f \in FoldersOfAliases : page'[FolderPage(card, f)] = page[FolderPage(card, f)])
      /\ page'[OwnPage(card)] = page[OwnPage(card)]
  BY <1>1, <1>2, <1>5, <1>7, <1>8, RecordKept
<1>10. CallOK(card)' /\ Alias' = Alias
  BY <1>1, <1>6, <1>9, CallKept
<1>11. ASSUME Sound' PROVE SoundOK(card, ch)'
  <2>1. SoundOK(card, ch) /\ i # Own /\ ~Done(i) /\ E = [page[OwnPage(card)] EXCEPT !.name = Alias.name, !.live = TRUE]
    BY <1>1, <1>4, <1>6, <1>11 DEF Sound
  <2>2. CountOK'
    BY <1>1, <2>1, CountStays, SoundParts
  <2>3. ASSUME NEW d \in FoldersOfAliases PROVE EndOK(d, ch[d])' /\ SizeOK(card, d, ch[d])'
    <3>1. EndOK(d, ch[d]) /\ SizeOK(card, d, ch[d]) /\ ChainOK(card, d, ch[d])
      BY <1>1, <2>1, SoundParts
    <3>2. ~Growing(d) /\ (Growing(d)' <=> d = D) /\ iop # "mark" /\ iop' # "mark" /\ iop' # "allocate" /\ iop' = "grow"
      BY <1>1, <1>10 DEF Growing
    <3>3. FolderLength(card, d)' = FolderLength(card, d)
      BY <1>9 DEF FolderLength, FolderPage
    <3>4. EndOK(d, ch[d])'
      BY <3>1, <3>2, Zenon DEF EndOK
    <3>5. /\ FolderLength(card, d) > (Len(ch[d]) - 1) * PagesPerCluster /\ FolderLength(card, d) <= Len(ch[d]) * PagesPerCluster
      BY <3>1, <3>2, Zenon DEF SizeOK
    <3>6. CASE d # D
      <4>1. ~Growing(d)' /\ ~Growing(d) /\ iop' # "allocate"
        BY <3>2, <3>6, Zenon
      <4> QED
        BY <3>1, <3>3, <3>4, <4>1, SizeKept, Zenon
    <3>7. CASE d = D
      <4>1. page'[PageOf(ch[D], w)] = E
        <5>1. CardOK(card, ch) /\ w \in Nat /\ w < Len(ch[D]) * PagesPerCluster /\ Wrote(ch[D], w, E)
          BY <1>1, <1>2, <1>8
        <5> QED
          BY <5>1, ThisRecord, ZenonT(30)
      <4>2. page'[PageOf(ch[d], FolderLength(card, d))] = [page'[OwnPage(card)] EXCEPT !.name = Alias'.name, !.live = TRUE]
        BY <1>9, <1>10, <2>1, <3>7, <4>1, <1>l, Zenon
      <4>3. FolderLength(card, d) >= (Len(ch[d]) - 1) * PagesPerCluster /\ FolderLength(card, d) < Len(ch[d]) * PagesPerCluster
        <5> DEFINE l == (Len(ch[d]) - 1) * PagesPerCluster
        <5>1. l \in Nat
          BY <1>1, <2>1, <3>1, <3>7, Fits
        <5>2. w > l
          BY <1>l, <3>5, <3>7
        <5> HIDE DEF l
        <5>3. w >= l
          BY <1>2, <5>1, <5>2
        <5> QED
          BY <1>8, <1>l, <3>7, <5>3 DEF l
      <4> QED
        <5>1. Growing(d)' /\ iop' = "grow" /\ FolderLength(card, d)' = w /\ FolderLength(card, d) = w
          BY <1>l, <3>2, <3>3, <3>7, Zenon
        <5>2. /\ w >= (Len(ch[d]) - 1) * PagesPerCluster /\ w < Len(ch[d]) * PagesPerCluster
              /\ page'[PageOf(ch[d], w)] = [page'[OwnPage(card)] EXCEPT !.name = Alias'.name, !.live = TRUE]
          BY <4>2, <4>3, <5>1, Zenon
        <5> QED
          BY <3>4, <5>1, <5>2, SizeGrowing, Zenon
    <3> QED
      BY <3>4, <3>6, <3>7
  <2>4. ASSUME NEW k \in 1 .. N PROVE NameOK(card, ch, k)'
    <3>1. Done(k)' <=> Done(k)
      BY <1>1, <1>6 DEF Done
    <3>2. w >= FolderLength(card, D)
      BY <1>l, <1>2
    <3> QED
      BY <1>1, <1>2, <1>8, <1>9, <2>1, <3>1, <3>2, NamesBehind
  <2>5. \A d, e \in FoldersOfAliases : d # e => Disjoint(ch[d], ch[e])
    BY <1>1, <2>1, SoundParts
  <2> QED
    BY <2>2, <2>3, <2>4, <2>5, AliasNames, Zenon DEF SoundOK, Disjoint
<1> QED
  BY <1>9, <1>10, <1>11, Zenon DEF Holds

LEMMA FreeRecord ==
  ASSUME NEW card \in Cards, NEW ch, CardOK(card, ch), NEW D \in FoldersOfAliases, FreePage(D).result \in {"found", "unused"}
  PROVE  \E w \in Nat : w < Len(ch[D]) * PagesPerCluster /\ FreePage(D).place = PlaceIn(ch[D], w) /\ (D # Home \/ w # card.executable)
<1> DEFINE n == FolderLength(card, D)
<1> DEFINE m == Len(ch[D]) * PagesPerCluster
<1>1. TypesOK /\ RootOK(card) /\ page[OwnPage(card)] = card.page[OwnPage(card)] /\ ChainOK(card, D, ch[D])
  BY Zenon DEF CardOK
<1>2. n \in Nat
  BY <1>1, LengthIs
<1>3. CASE FreePage(D).result = "found"
  <2>1. PICK w \in Nat : w < m /\ FreePage(D).place = PlaceIn(ch[D], w) /\ ~page[PageOf(ch[D], w)].live
    BY <1>1, <1>3, FreeFound
  <2>2. ASSUME D = Home, w = card.executable PROVE FALSE
    <3>1. PageOf(ch[D], w) = OwnPage(card)
      BY <1>1, <2>2, OwnIs, OldPage DEF OwnPage
    <3>2. page[OwnPage(card)].live
      BY <1>1, OwnIs
    <3> QED
      BY <2>1, <3>1, <3>2
  <2> QED
    BY <2>1, <2>2
<1>4. CASE FreePage(D).result = "unused"
  <2>1. n < m /\ FreePage(D).place = PlaceIn(ch[D], n)
    BY <1>1, <1>4, FreeFound
  <2>2. ASSUME D = Home PROVE card.executable < n /\ card.executable \in Nat
    BY <1>1, <2>2, ExecutableFound, OwnIs
  <2> HIDE DEF n, m
  <2>3. D # Home \/ n # card.executable
    BY <1>2, <2>2
  <2> QED
    BY <1>2, <2>1, <2>3 DEF m
<1> QED
  BY <1>3, <1>4

LEMMA FullIs ==
  ASSUME NEW l \in Nat, NEW n \in Nat, l >= 1, n > (l - 1) * PagesPerCluster, n <= l * PagesPerCluster,
         n >= l * PagesPerCluster \/ n % PagesPerCluster = 0
  PROVE  n = l * PagesPerCluster
<1> DEFINE p == PagesPerCluster
<1> DEFINE q == n \div p
<1>1. p \in Nat \ {0} /\ q \in Nat /\ n % p \in Nat /\ n = q * p + (n % p)
  BY Sizes, Division
<1> DEFINE x == n % p
<1>2. x \in Nat /\ n = q * p + x /\ (n >= l * p \/ x = 0)
  BY <1>1
<1> HIDE DEF p, q, x
<1>3. l * p \in Nat /\ (l - 1) * p \in Nat /\ q * p \in Nat
  BY <1>1
<1>4. CASE x = 0
  <2>1. n = q * p /\ q * p > (l - 1) * p
    BY <1>2, <1>3, <1>4 DEF p
  <2>2. q > l - 1
    <3>1. q < l - 1 => q * p + p <= (l - 1) * p
      BY <1>1, Multiples
    <3>2. q # l - 1
      BY <2>1, <1>3
    <3> QED
      BY <1>1, <1>3, <2>1, <3>1, <3>2
  <2>3. l < q => l * p + p <= q * p
    BY <1>1, Multiples
  <2>4. q = l
    BY <1>1, <1>3, <2>1, <2>2, <2>3 DEF p
  <2> QED
    BY <2>1, <2>4 DEF p
<1>5. CASE n >= l * p
  BY <1>3, <1>5 DEF p
<1> QED
  BY <1>2, <1>4, <1>5

LEMMA FillNone ==
  ASSUME NEW card \in Cards, NEW ch, Holds(card, ch), EInv, iop = "free_page",
         IF FreePage(Alias.dir).result = "ENOENT" THEN NoFault /\ UNCHANGED <<page, outside>>
         ELSE UpdateDirEntFails(FreePage(Alias.dir).place, NewDirEnt),
         iop' = "allocate", UNCHANGED <<i, count>>, UNCHANGED <<fat, eeVars, batch, folder, target>>
  PROVE  Holds(card, ch)'
<1>d. PICK D \in FoldersOfAliases, E \in Dirents : D = Alias.dir /\ E = NewDirEnt
  BY Creating
<1>1. /\ CardOK(card, ch) /\ TypesOK /\ RootOK(card) /\ ChainOK(card, D, ch[D]) /\ CallOK(card)
      /\ faults \in Nat /\ faults \in 0 .. MaxFaults /\ ee \in {"before_wait", "after_wait"}
      /\ Sound => SoundOK(card, ch)
  BY <1>d, Creating, Zenon
<1>2. i' = i /\ ee' = ee /\ UNCHANGED eeVars /\ UNCHANGED <<batch, i, count>>
  BY DEF eeVars
<1>3. CASE FreePage(D).result = "ENOENT" /\ NoFault /\ UNCHANGED <<page, outside>>
  <2>1. TypesOK' /\ faults' = faults
    BY <1>1, <1>3 DEF TypesOK, NoFault
  <2>2. CallOK(card)' /\ Alias' = Alias
    BY <1>1, <1>2, <1>3, CallKept
  <2>3. ASSUME Sound' PROVE CountOK' /\ (\A k \in 1 .. N : Done(k)' <=> Done(k))
    <3>1. CountOK
      BY <1>1, <1>3, <2>1, <2>3, SoundParts DEF Sound
    <3>2. CountOK'
      BY <1>2, <3>1, CountStays
    <3> QED
      BY <1>1, <1>2, <3>2 DEF Done
  <2>4. ASSUME Sound' PROVE FolderLength(card, D) = Len(ch[D]) * PagesPerCluster
    <3>1. SoundOK(card, ch)
      BY <1>1, <1>3, <2>1, <2>4 DEF Sound
    <3>2. SizeOK(card, D, ch[D]) /\ ~Growing(D) /\ Len(ch[D]) \in Nat /\ Len(ch[D]) >= 1 /\ FolderLength(card, D) \in Nat
      BY <1>1, <3>1, SoundParts, FolderRun DEF Growing
    <3>3. FolderLength(card, D) > (Len(ch[D]) - 1) * PagesPerCluster /\ FolderLength(card, D) <= Len(ch[D]) * PagesPerCluster
      BY <3>2, Zenon DEF SizeOK
    <3>4. FolderLength(card, D) >= Len(ch[D]) * PagesPerCluster \/ FolderLength(card, D) % PagesPerCluster = 0
      BY <1>1, <1>3, FreeFound
    <3> QED
      BY <3>2, <3>3, <3>4, FullIs
  <2>5. ASSUME Sound' PROVE FolderLength(card, Alias'.dir) = Len(ch[Alias'.dir]) * PagesPerCluster
    BY <1>d, <2>2, <2>4, <2>5, Zenon
  <2> QED
    BY <1>3, <2>1, <2>2, <2>3, <2>5, Quiet
<1>4. CASE Fault /\ UNCHANGED <<page, outside>>
  <2>1. faults' = faults + 1 /\ faults' \in 0 .. MaxFaults /\ ~Sound'
    BY <1>1, <1>4, Sizes DEF Fault, Sound
  <2>2. TypesOK'
    BY <1>1, <1>4, <2>1 DEF TypesOK
  <2>3. CallOK(card)'
    BY <1>1, <1>2, <1>4, CallKept
  <2> QED
    BY <1>4, <2>1, <2>2, <2>3, Quiet
<1>5. CASE FreePage(D).result # "ENOENT" /\ Fault /\ UpdateDirEntInformation(FreePage(D).place, E)
  <2>1. faults' = faults + 1 /\ faults' \in 0 .. MaxFaults /\ ~Sound'
    BY <1>1, <1>5, Sizes DEF Fault, Sound
  <2>2. FreePage(D).result \in {"found", "unused"}
    BY <1>1, <1>5, FreeFound
  <2>3. PICK w \in Nat : w < Len(ch[D]) * PagesPerCluster /\ FreePage(D).place = PlaceIn(ch[D], w) /\ (D # Home \/ w # card.executable)
    BY <1>1, <2>2, FreeRecord
  <2>4. ch[D] \in Seq(Clusters) /\ page \in [Clusters \X Slots -> Dirents]
    BY <1>1, FolderRun DEF TypesOK
  <2>5. Wrote(ch[D], w, E) /\ page' \in [Clusters \X Slots -> Dirents] /\ outside' = outside
    BY <1>5, <2>3, <2>4, Written
  <2>6. TypesOK'
    BY <1>1, <2>1, <2>5 DEF TypesOK
  <2>7. CardOK(card, ch)' /\ page'[FolderPage(card, D)] = page[FolderPage(card, D)]
    BY <1>1, <2>3, <2>5, <2>6, RecordKept
  <2>8. CallOK(card)'
    BY <1>1, <1>d, <1>2, <2>7, CallKept
  <2> QED
    BY <2>1, <2>7, <2>8, Failed
<1> QED
  BY <1>d, <1>3, <1>4, <1>5 DEF UpdateDirEntFails

LEMMA StepFillFreePage ==
  ASSUME NEW card \in Cards, NEW ch, Holds(card, ch), EInv, FillFreePage
  PROVE  Holds(card, ch)'
<1>1. iop = "free_page" /\ UNCHANGED <<fat, eeVars, batch, folder, target>>
  BY DEF FillFreePage
<1>2. \/ /\ FreePage(Alias.dir).result = "found" /\ NoFault
         /\ UpdateDirEntInformation(FreePage(Alias.dir).place, NewDirEnt) /\ NextName(TRUE)
      \/ /\ FreePage(Alias.dir).result = "unused" /\ NoFault
         /\ UpdateDirEntInformation(FreePage(Alias.dir).place, NewDirEnt) /\ iop' = "grow" /\ UNCHANGED <<i, count>>
      \/ /\ IF FreePage(Alias.dir).result = "ENOENT" THEN NoFault /\ UNCHANGED <<page, outside>>
            ELSE UpdateDirEntFails(FreePage(Alias.dir).place, NewDirEnt)
         /\ iop' = "allocate" /\ UNCHANGED <<i, count>>
  BY Zenon DEF FillFreePage
<1> QED
  BY <1>1, <1>2, FillFound, FillUnused, FillNone, Zenon

-----------------------------------------------------------------------------
(* AddFATRecord. *)

(* The chain of the folder whose end is c is linked to n. *)
Link(s, c, n) == IF s[Len(s)] = c THEN Append(s, n) ELSE s

Linked(ch, c, n) == [d \in FoldersOfAliases |-> Link(ch[d], c, n)]

LEMMA LinkOne ==
  ASSUME NEW card \in Cards, NEW d \in FoldersOfAliases, NEW s, ChainOK(card, d, s), fat \in [Clusters -> FatEntries], FreeOK(card),
         NEW c \in Clusters, fat[c] = EndOfChain, NEW n \in Clusters, ~fat[n].used, fat' = [fat EXCEPT ![c] = LinkTo(n)]
  PROVE  /\ ChainOK(card, d, Link(s, c, n))' /\ Link(s, c, n) \in Seq(Clusters)
         /\ \A r \in Nat : r < Len(s) * PagesPerCluster => PageOf(Link(s, c, n), r) = PageOf(s, r)
<1> DEFINE t == Link(s, c, n)
<1> DEFINE m == Len(s)
<1> DEFINE l == Len(card.chain[d])
<1>1. s \in Seq(Clusters) /\ m \in Nat /\ m >= 1 /\ l \in Nat /\ l >= 1 /\ l <= m
  BY FolderRun, FolderIs
<1>2. /\ \A j, k \in 1 .. m : s[j] = s[k] => j = k
      /\ \A j \in 1 .. l : s[j] = card.chain[d][j]
      /\ \A j \in l + 1 .. m : s[j] \in Spare(card)
      /\ \A j \in 1 .. m - 1 : fat[s[j]] = LinkTo(s[j + 1])
      /\ fat[s[m]].next = Nil
  BY Zenon DEF ChainOK
<1>3. fat'[c] = LinkTo(n) /\ (\A x \in Clusters : x # c => fat'[x] = fat[x])
  OBVIOUS
<1>4. n # c /\ n \in Spare(card) /\ fat'[n].next = Nil
  BY <1>3, Ended DEF FreeOK
<1>5. ASSUME NEW j \in 1 .. m - 1 PROVE s[j] \in Clusters /\ s[j + 1] \in Clusters /\ s[j] # c /\ s[j] # n
  <2>1. s[j] \in Clusters /\ s[j + 1] \in Clusters
    BY <1>1
  <2>2. fat[s[j]] = LinkTo(s[j + 1])
    BY <1>2
  <2>3. fat[s[j]].used /\ fat[s[j]] # EndOfChain
    BY <2>1, <2>2, Links, Ended
  <2> QED
    BY <2>1, <2>3
<1>6. \A j \in 1 .. m - 1 : fat'[s[j]] = LinkTo(s[j + 1])
  BY <1>2, <1>3, <1>5
<1>7. CASE s[m] = c
  <2>1. t = Append(s, n)
    BY <1>7 DEF Link
  <2>2. t \in Seq(Clusters) /\ Len(t) = m + 1 /\ t[m + 1] = n /\ \A j \in 1 .. m : t[j] = s[j]
    BY <1>1, <2>1
  <2> HIDE DEF t, l
  <2>3. \A j \in 1 .. m : s[j] # n
    BY <1>1, <1>4, <1>5, <1>7
  <2>4. \A j, k \in 1 .. m + 1 : t[j] = t[k] => j = k
    BY <1>1, <1>2, <2>2, <2>3
  <2>5. \A j \in 1 .. l : t[j] = card.chain[d][j]
    BY <1>1, <1>2, <2>2
  <2>6. \A j \in l + 1 .. m + 1 : t[j] \in Spare(card)
    BY <1>1, <1>2, <1>4, <2>2
  <2>7. ASSUME NEW j \in 1 .. m PROVE fat'[t[j]] = LinkTo(t[j + 1])
    <3>1. CASE j = m
      BY <1>1, <1>3, <1>7, <2>2, <3>1
    <3>2. CASE j # m
      <4>1. j \in 1 .. m - 1 /\ j + 1 \in 1 .. m
        BY <1>1, <3>2
      <4> QED
        BY <1>6, <2>2, <4>1
    <3> QED
      BY <3>1, <3>2
  <2>8. fat'[t[m + 1]].next = Nil
    BY <1>4, <2>2
  <2>9. l <= m + 1 /\ m + 1 - 1 = m
    BY <1>1
  <2>10. ChainOK(card, d, t)'
    <3>1. /\ \A j, k \in 1 .. Len(t) : t[j] = t[k] => j = k
          /\ \A j \in l + 1 .. Len(t) : t[j] \in Spare(card)
          /\ fat'[t[Len(t)]].next = Nil /\ l <= Len(t)
      BY <2>2, <2>4, <2>6, <2>8, <2>9
    <3>2. Len(t) - 1 = m
      BY <1>1, <2>2
    <3>3. \A j \in 1 .. Len(t) - 1 : fat'[t[j]] = LinkTo(t[j + 1])
      BY <2>7, <3>2, Zenon
    <3> QED
      BY <2>2, <2>5, <3>1, <3>3, Zenon DEF ChainOK, l, Spare
  <2>11. ASSUME NEW r \in Nat, r < m * PagesPerCluster PROVE PageOf(t, r) = PageOf(s, r)
    <3>1. r \div PagesPerCluster + 1 \in 1 .. m
      BY <1>1, <2>11, PageIn
    <3>2. t[r \div PagesPerCluster + 1] = s[r \div PagesPerCluster + 1]
      BY <2>2, <3>1, Zenon
    <3> QED
      BY <3>2, Zenon DEF PageOf
  <2> QED
    BY <2>2, <2>10, <2>11 DEF t
<1>8. CASE s[m] # c
  <2>1. t = s
    BY <1>8 DEF Link
  <2>2. fat'[s[m]] = fat[s[m]]
    BY <1>1, <1>3, <1>8
  <2> HIDE DEF t
  <2>3. fat'[s[m]].next = Nil
    BY <1>2, <2>2
  <2> HIDE DEF m
  <2>4. ChainOK(card, d, s)'
    BY <1>1, <1>2, <1>6, <2>3, Zenon DEF ChainOK, Spare, m, l
  <2>5. \A r \in Nat : r < m * PagesPerCluster => PageOf(t, r) = PageOf(s, r)
    BY <2>1
  <2>6. ChainOK(card, d, t)'
    BY <2>1, <2>4, Zenon DEF Link, t
  <2> QED
    BY <1>1, <2>1, <2>5, <2>6 DEF t, m
<1> QED
  BY <1>7, <1>8

FatWrote(c, v) == fat' = [fat EXCEPT ![c] = v]

LEMMA LinkAll ==
  ASSUME NEW card \in Cards, NEW ch, CardOK(card, ch), TypesOK', page' = page,
         NEW c \in Clusters, fat[c] = EndOfChain, NEW n \in Clusters, ~fat[n].used, FatWrote(c, LinkTo(n)),
         \A l \in 1 .. Len(card.root) : c # card.root[l],
         NEW nch, nch = Linked(ch, c, n)
  PROVE  /\ CardOK(card, nch)' /\ nch \in [FoldersOfAliases -> Seq(Clusters)]
         /\ \A d \in FoldersOfAliases : \A r \in Nat : r < Len(ch[d]) * PagesPerCluster => PageOf(nch[d], r) = PageOf(ch[d], r)
<1>1. TypesOK /\ RootOK(card) /\ FreeOK(card) /\ page[OwnPage(card)] = card.page[OwnPage(card)]
      /\ fat \in [Clusters -> FatEntries] /\ \A d \in FoldersOfAliases : ChainOK(card, d, ch[d])
  BY DEF CardOK, TypesOK
<1>2. fat'[c] = LinkTo(n) /\ (\A x \in Clusters : x # c => fat'[x] = fat[x])
  BY <1>1 DEF FatWrote
<1>3. ASSUME NEW d \in FoldersOfAliases
      PROVE  /\ ChainOK(card, d, nch[d])' /\ nch[d] \in Seq(Clusters)
             /\ \A r \in Nat : r < Len(ch[d]) * PagesPerCluster => PageOf(nch[d], r) = PageOf(ch[d], r)
  <2>1. nch[d] = Link(ch[d], c, n)
    BY DEF Linked
  <2>2. /\ ChainOK(card, d, Link(ch[d], c, n))' /\ Link(ch[d], c, n) \in Seq(Clusters)
        /\ \A r \in Nat : r < Len(ch[d]) * PagesPerCluster => PageOf(Link(ch[d], c, n), r) = PageOf(ch[d], r)
    BY <1>1, LinkOne, ZenonT(30) DEF FatWrote
  <2>3. PICK s : s = Link(ch[d], c, n)
    OBVIOUS
  <2>4. ChainOK(card, d, s)'
    BY <2>2, <2>3, Zenon DEF Link
  <2> QED
    BY <2>1, <2>2, <2>3, <2>4, Zenon
<1>4. FreeOK(card)'
  BY <1>1, <1>2, Links DEF FreeOK, Spare
<1>5. RootOK(card)'
  <2>1. \A j \in DOMAIN card.root : fat'[card.root[j]] = card.fat[card.root[j]]
    <3>1. card.root \in Seq(Clusters) /\ DOMAIN card.root = 1 .. Len(card.root)
      BY RootIs
    <3>2. \A j \in 1 .. Len(card.root) : fat[card.root[j]] = card.fat[card.root[j]]
      BY <1>1, RootRun
    <3> QED
      BY <1>2, <3>1, <3>2
  <2> QED
    BY <1>1, <2>1, Zenon DEF RootOK, PageOf
<1>7. nch \in [FoldersOfAliases -> Seq(Clusters)]
  BY <1>3 DEF Linked
<1>6. CardOK(card, nch)'
  BY <1>1, <1>3, <1>4, <1>5, Zenon DEF CardOK, OwnPage, PageOf
<1> QED
  BY <1>3, <1>6, <1>7

LEMMA FirstFreeIs == ASSUME FreeClusters # {} PROVE FirstFree \in Clusters /\ ~fat[FirstFree].used
<1>1. FreeClusters \in SUBSET Nat
  BY Sizes DEF FreeClusters, Clusters
<1>2. \E x \in FreeClusters : \A y \in FreeClusters : x <= y
  BY <1>1, Least
<1>3. FirstFree \in FreeClusters
  BY <1>2, Zenon DEF FirstFree
<1> QED
  BY <1>3 DEF FreeClusters

LEMMA FolderEnd ==
  ASSUME NEW card \in Cards, NEW ch, Holds(card, ch), EInv, iop = "allocate", NEW D \in FoldersOfAliases, D = Alias.dir
  PROVE  /\ LastOf(folder.entry.cluster) = IF fat[ch[D][Len(ch[D])]] = EndOfChain THEN ch[D][Len(ch[D])] ELSE Nil
         /\ Len(ch[D]) >= 1 /\ ch[D][Len(ch[D])] \in Clusters
<1>1. TypesOK /\ RootOK(card) /\ ChainOK(card, D, ch[D]) /\ folder.entry = page[FolderPage(card, D)]
  BY Creating
<1>2. folder.entry.cluster = ch[D][1] /\ Run(ch[D]) /\ ch[D] \in Seq(Clusters) /\ Len(ch[D]) >= 1
  BY <1>1, FolderEntryIs, FolderRun
<1>3. fat \in [Clusters -> FatEntries]
  BY <1>1 DEF TypesOK
<1> QED
  BY <1>2, <1>3, LastIs

(* Names do not see what changes in the FAT. *)
LEMMA NamesSame ==
  ASSUME NEW card \in Cards, NEW ch, NEW nch, CardOK(card, ch), SoundOK(card, ch), page' = page,
         \A d \in FoldersOfAliases : \A r \in Nat : r < Len(ch[d]) * PagesPerCluster => PageOf(nch[d], r) = PageOf(ch[d], r),
         NEW k \in 1 .. N, Done(k)' <=> Done(k)
  PROVE  NameOK(card, nch, k)'
<1> DEFINE f == FileAlias[k].dir
<1>1. f \in FoldersOfAliases /\ NameOK(card, ch, k)
  BY AliasNames, SoundParts
<1>2. FolderLength(card, f)' = FolderLength(card, f)
  BY Zenon DEF FolderLength, FolderPage, PageOf
<1>3. ASSUME NEW r \in 0 .. FolderLength(card, f) - 1
      PROVE  /\ page'[PageOf(nch[f], r)] = page[PageOf(ch[f], r)]
             /\ Has(nch[f], k, r)' <=> Has(ch[f], k, r)
  <2>1. r \in Nat /\ r < Len(ch[f]) * PagesPerCluster
    BY <1>1, SoundParts
  <2>2. PageOf(nch[f], r) = PageOf(ch[f], r)
    BY <1>1, <2>1
  <2>3. page'[PageOf(nch[f], r)] = page[PageOf(ch[f], r)]
    BY <2>2
  <2> QED
    BY <2>3, Zenon DEF Has, PageOf
<1>4. \A r \in 0 .. FolderLength(card, f) - 1 :
        /\ Has(nch[f], k, r)' <=> Has(ch[f], k, r)
        /\ Has(ch[f], k, r) => page'[PageOf(nch[f], r)].cluster = page[PageOf(ch[f], r)].cluster
  BY <1>3, Zenon
<1> QED
  BY <1>1, <1>2, <1>4, NameKept

(* No cluster, or no end of the chain. *)
LEMMA AddNothing ==
  ASSUME NEW card \in Cards, NEW ch, Holds(card, ch), EInv, iop = "allocate", FreeClusters = {} \/ LastOf(folder.entry.cluster) = Nil,
         target' = -EINVAL, iop' = "place", fat' = fat, NoFault, UNCHANGED <<page, outside, eeVars, batch, i, count, folder>>
  PROVE  Holds(card, ch)'
<1>d. PICK D \in FoldersOfAliases : D = Alias.dir
  BY Creating
<1>1. /\ CardOK(card, ch) /\ TypesOK /\ CallOK(card) /\ ee \in {"before_wait", "after_wait"}
      /\ Sound => SoundOK(card, ch)
  BY Creating, Zenon
<1>2. i' = i /\ ee' = ee /\ faults' = faults /\ UNCHANGED eeVars /\ UNCHANGED <<batch, i, count>> /\ outside' = outside
  BY DEF eeVars, NoFault
<1>3. TypesOK'
  BY <1>1, <1>2 DEF TypesOK
<1>4. CardOK(card, ch)'
  BY <1>1, <1>3, CardKept
<1>5. CallOK(card)' /\ Alias' = Alias
  BY <1>1, <1>2, CallKept
<1>6. ASSUME Sound' PROVE SoundOK(card, ch)'
  <2>1. SoundOK(card, ch)
    BY <1>1, <1>2, <1>6 DEF Sound
  <2>2. CountOK'
    BY <1>1, <1>2, <2>1, CountStays, SoundParts
  <2>3. ASSUME NEW d \in FoldersOfAliases PROVE EndOK(d, ch[d])' /\ SizeOK(card, d, ch[d])'
    <3>1. EndOK(d, ch[d]) /\ SizeOK(card, d, ch[d])
      BY <1>1, <2>1, SoundParts
    <3>2. ~Growing(d) /\ (Growing(d)' <=> d = D)
      BY <1>d, <1>5 DEF Growing
    <3>3. FolderLength(card, d)' = FolderLength(card, d)
      BY Zenon DEF FolderLength, FolderPage, PageOf
    <3>4. EndOK(d, ch[d])'
      BY <3>1, Zenon DEF EndOK
    <3>5. CASE d # D
      <4>1. ~Growing(d)' /\ iop' # "allocate"
        BY <3>2, <3>5, Zenon
      <4> QED
        BY <3>1, <3>2, <3>3, <3>4, <4>1, SizeKept, Zenon
    <3>6. CASE d = D
      <4>1. FolderLength(card, d) = Len(ch[d]) * PagesPerCluster
        BY <1>d, <3>1, <3>6, Zenon DEF SizeOK
      <4>2. target' < 0
        BY DEF EINVAL
      <4>3. Growing(d)' /\ iop' # "allocate" /\ iop' # "grow"
        BY <3>2, <3>6, Zenon
      <4> QED
        BY <3>3, <3>4, <4>1, <4>2, <4>3, Zenon DEF SizeOK
    <3> QED
      BY <3>5, <3>6
  <2>4. ASSUME NEW k \in 1 .. N PROVE NameOK(card, ch, k)'
    <3>1. Done(k)' <=> Done(k)
      BY <1>1, <1>2 DEF Done
    <3> QED
      BY <1>1, <2>1, <3>1, NamesSame
  <2>5. \A d, e \in FoldersOfAliases : d # e => Disjoint(ch[d], ch[e])
    BY <1>1, <2>1, SoundParts
  <2> QED
    BY <2>2, <2>3, <2>4, <2>5, AliasNames, Zenon DEF SoundOK, Disjoint
<1> QED
  BY <1>4, <1>5, <1>6, Zenon DEF Holds

LEMMA AddLink ==
  ASSUME NEW card \in Cards, NEW ch, Holds(card, ch), EInv, iop = "allocate", NEW c, c = LastOf(folder.entry.cluster), c # Nil,
         NEW n \in Clusters, ~fat[n].used, fat' = [fat EXCEPT ![c] = LinkTo(n)],
         UNCHANGED <<page, outside, eeVars, batch, i, count, folder>>,
         \/ target' = n /\ iop' = "mark" /\ NoFault
         \/ target' = -1 /\ iop' = "place" /\ Fault
  PROVE  \E nch \in [FoldersOfAliases -> Seq(Clusters)] : nch = Linked(ch, c, n) /\ Holds(card, nch)'
<1>d. PICK D \in FoldersOfAliases : D = Alias.dir
  BY Creating
<1>1. /\ CardOK(card, ch) /\ TypesOK /\ CallOK(card) /\ ee \in {"before_wait", "after_wait"} /\ ChainOK(card, D, ch[D])
      /\ faults \in Nat /\ faults \in 0 .. MaxFaults
      /\ Sound => SoundOK(card, ch)
  BY <1>d, Creating, Zenon
<1>2. i' = i /\ ee' = ee /\ UNCHANGED eeVars /\ UNCHANGED <<batch, i, count>> /\ outside' = outside
  BY DEF eeVars
<1> DEFINE L == Len(ch[D])
<1>3. c = ch[D][L] /\ fat[c] = EndOfChain /\ L >= 1 /\ c \in Clusters
  BY <1>d, FolderEnd
<1>4. \A l \in 1 .. Len(card.root) : c # card.root[l]
  BY <1>1, <1>3, OffRoot, FolderRun
<1>5. fat' \in [Clusters -> FatEntries] /\ fat'[c] = LinkTo(n) /\ (\A x \in Clusters : x # c => fat'[x] = fat[x])
  BY <1>1, <1>3, Links DEF TypesOK
<1>6. TypesOK'
  BY <1>1, <1>2, <1>5, Sizes DEF TypesOK, NoFault, Fault
<1>7. PICK nch : nch = Linked(ch, c, n)
  OBVIOUS
<1>8. /\ CardOK(card, nch)' /\ nch \in [FoldersOfAliases -> Seq(Clusters)]
      /\ \A d \in FoldersOfAliases : \A r \in Nat : r < Len(ch[d]) * PagesPerCluster => PageOf(nch[d], r) = PageOf(ch[d], r)
  <2>1. CardOK(card, ch) /\ page' = page /\ FatWrote(c, LinkTo(n))
    BY <1>1 DEF FatWrote
  <2> QED
    BY <1>3, <1>4, <1>6, <1>7, <2>1, LinkAll
<1>9. CallOK(card)' /\ Alias' = Alias
  <2>1. n # c
    BY <1>3, Ended
  <2>2. ~fat'[n].used
    BY <1>5, <2>1
  <2> QED
    BY <1>1, <1>2, <2>2, CallKept
<1>10. ASSUME Sound' PROVE SoundOK(card, nch)'
  <2>1. SoundOK(card, ch) /\ target' = n /\ iop' = "mark"
    <3>1. faults' \in {faults, faults + 1}
      BY DEF NoFault, Fault
    <3>2. faults \in Nat /\ outside' = outside
      BY <1>1, <1>2
    <3>3. faults' = 0 /\ faults = 0 /\ outside = {}
      BY <1>10, <3>1, <3>2 DEF Sound
    <3>4. ~Fault
      BY <3>3 DEF Fault
    <3> QED
      BY <1>1, <3>3, <3>4, Zenon DEF Sound
  <2>2. CountOK'
    BY <1>1, <1>2, <2>1, CountStays, SoundParts
  <2>3. ASSUME NEW d \in FoldersOfAliases
        PROVE  /\ ch[d] \in Seq(Clusters) /\ Len(ch[d]) \in Nat /\ Len(ch[d]) >= 1 /\ SizeOK(card, d, ch[d]) /\ ChainOK(card, d, ch[d])
               /\ fat[ch[d][Len(ch[d])]] = EndOfChain /\ \A j \in 1 .. Len(ch[d]) : ch[d][j] \in Clusters /\ fat[ch[d][j]].used
    <3>1. EndOK(d, ch[d]) /\ SizeOK(card, d, ch[d]) /\ ChainOK(card, d, ch[d])
      BY <1>1, <2>1, SoundParts
    <3>2. fat[ch[d][Len(ch[d])]] = EndOfChain
      BY <3>1, Zenon DEF EndOK
    <3>3. ch[d] \in Seq(Clusters) /\ Len(ch[d]) \in Nat /\ Len(ch[d]) >= 1
      BY <3>1, FolderRun
    <3>4. ASSUME NEW j \in 1 .. Len(ch[d]) PROVE ch[d][j] \in Clusters /\ fat[ch[d][j]].used
      <4>1. ch[d][j] \in Clusters
        BY <3>3
      <4>2. CASE j = Len(ch[d])
        BY <3>2, <4>1, <4>2, Ended
      <4>3. CASE j # Len(ch[d])
        <5>1. j \in 1 .. Len(ch[d]) - 1 /\ ch[d][j + 1] \in Clusters
          BY <3>3, <4>3
        <5>2. fat[ch[d][j]] = LinkTo(ch[d][j + 1])
          BY <3>1, <5>1, Zenon DEF ChainOK
        <5> QED
          BY <4>1, <5>1, <5>2, Links
      <4> QED
        BY <4>2, <4>3
    <3> QED
      BY <3>1, <3>2, <3>3, <3>4
  <2>4. \A d, e \in FoldersOfAliases : d # e => Disjoint(ch[d], ch[e])
    BY <1>1, <2>1, SoundParts
  <2>5. nch[D] = Append(ch[D], n) /\ \A d \in FoldersOfAliases : d # D => nch[d] = ch[d]
    <3>1. nch[D] = Append(ch[D], n)
      BY <1>3, <1>7 DEF Link, Linked
    <3>2. ASSUME NEW d \in FoldersOfAliases, d # D PROVE nch[d] = ch[d]
      <4>1. Disjoint(ch[d], ch[D]) /\ Len(ch[d]) \in DOMAIN ch[d] /\ L \in DOMAIN ch[D]
        BY <2>3, <2>4, <3>2
      <4>2. ch[d][Len(ch[d])] # c
        BY <1>3, <4>1 DEF Disjoint
      <4> QED
        BY <1>7, <4>2 DEF Link, Linked
    <3> QED
      BY <3>1, <3>2
  <2>6. \A d, e \in FoldersOfAliases : d # e => Disjoint(nch[d], nch[e])
    <3>1. ASSUME NEW d \in FoldersOfAliases, d # D PROVE \A j \in 1 .. Len(ch[d]) : ch[d][j] # n
      BY <2>3
    <3>2. \A j \in 1 .. L + 1 : nch[D][j] = IF j = L + 1 THEN n ELSE ch[D][j]
      BY <2>3, <2>5
    <3>3. \A d \in FoldersOfAliases : DOMAIN ch[d] = 1 .. Len(ch[d]) /\ DOMAIN nch[D] = 1 .. L + 1
      BY <2>3, <2>5
    <3>4. ASSUME NEW d \in FoldersOfAliases, d # D PROVE Disjoint(nch[d], nch[D]) /\ Disjoint(nch[D], nch[d])
      <4>1. nch[d] = ch[d] /\ \A j \in 1 .. Len(ch[d]), k \in 1 .. L : ch[d][j] # ch[D][k]
        BY <2>4, <2>5, <3>3, <3>4 DEF Disjoint
      <4>2. L \in Nat
        BY <2>3
      <4> HIDE DEF L
      <4>3. \A j \in 1 .. Len(ch[d]), k \in 1 .. L + 1 : ch[d][j] # nch[D][k]
        BY <3>1, <3>2, <3>4, <4>1, <4>2
      <4> QED
        BY <3>3, <4>1, <4>3 DEF Disjoint
    <3> QED
      BY <2>4, <2>5, <3>4, Zenon
  <2>7. ASSUME NEW d \in FoldersOfAliases PROVE EndOK(d, nch[d])' /\ SizeOK(card, d, nch[d])'
    <3>1. ~Growing(d) /\ (Growing(d)' <=> d = D)
      BY <1>d, <1>9, <2>1 DEF Growing
    <3>2. FolderLength(card, d)' = FolderLength(card, d)
      BY Zenon DEF FolderLength, FolderPage, PageOf
    <3>3. CASE d # D
      <4>1. nch[d] = ch[d]
        BY <2>5, <3>3
      <4>2. ~Growing(d)' /\ iop' # "allocate"
        BY <2>1, <3>1, <3>3, Zenon
      <4>3. SizeOK(card, d, ch[d])
        BY <2>3
      <4>4. SizeOK(card, d, nch[d])'
        BY <3>1, <3>2, <4>1, <4>2, <4>3, SizeKept
      <4>5. ch[d][Len(ch[d])] \in Clusters /\ ch[d][Len(ch[d])] # c
        <5>1. Disjoint(ch[d], ch[D]) /\ Len(ch[d]) \in DOMAIN ch[d] /\ L \in DOMAIN ch[D]
          BY <2>3, <2>4, <3>3
        <5> QED
          BY <1>3, <2>3, <5>1 DEF Disjoint
      <4>6. fat'[nch[d][Len(nch[d])]] = EndOfChain
        BY <1>5, <2>3, <4>1, <4>5
      <4>7. d # Alias'.dir
        BY <1>d, <1>9, <3>3
      <4> QED
        BY <4>4, <4>6, <4>7, Zenon DEF EndOK
    <3>4. CASE d = D
      <4>1. FolderLength(card, D) = L * PagesPerCluster
        <5>1. SizeOK(card, D, ch[D])
          BY <2>3
        <5> QED
          BY <1>d, <5>1, Zenon DEF SizeOK
      <4>2. nch[d] = Append(ch[D], n) /\ L \in Nat /\ ch[D] \in Seq(Clusters)
        BY <2>3, <2>5, <3>4
      <4>3. Len(nch[d]) - 1 = L /\ nch[d][Len(nch[d])] = n
        BY <4>2
      <4>4. d = Alias'.dir /\ Growing(d)' /\ iop' # "allocate" /\ iop' # "grow"
        BY <1>d, <1>9, <2>1, <3>1, <3>4
      <4>5. EndOK(d, nch[d])'
        BY <2>1, <4>3, <4>4, Zenon DEF EndOK
      <4>6. ~(target' < 0)
        BY <2>1, Sizes DEF Clusters
      <4>7. FolderLength(card, d)' = (Len(nch[d]) - 1) * PagesPerCluster /\ nch[d][Len(nch[d])] = target'
        BY <2>1, <3>2, <3>4, <4>1, <4>3, Zenon
      <4> QED
        BY <4>4, <4>5, <4>6, <4>7, Zenon DEF SizeOK
    <3> QED
      BY <3>3, <3>4
  <2>8. ASSUME NEW k \in 1 .. N PROVE NameOK(card, nch, k)'
    <3>1. Done(k)' <=> Done(k)
      BY <1>1, <1>2, <2>1 DEF Done
    <3> QED
      BY <1>1, <1>8, <2>1, <3>1, NamesSame
  <2> QED
    BY <2>2, <2>6, <2>7, <2>8, AliasNames, Zenon DEF SoundOK, Disjoint
<1>11. Holds(card, nch)'
  BY <1>8, <1>9, <1>10, Zenon DEF Holds
<1> QED
  BY <1>7, <1>8, <1>11, Zenon

LEMMA StepAddFATRecord ==
  ASSUME NEW card \in Cards, NEW ch \in [FoldersOfAliases -> Seq(Clusters)], Holds(card, ch), EInv, AddFATRecord
  PROVE  \E nch \in [FoldersOfAliases -> Seq(Clusters)] : Holds(card, nch)'
<1>e. PICK D \in FoldersOfAliases : D = Alias.dir
  <2>1. iop = "allocate"
    BY DEF AddFATRecord
  <2> QED
    BY <2>1, Creating
<1>d. PICK c, n : c = LastOf(folder.entry.cluster) /\ n = FirstFree
  BY Zenon
<1>1. iop = "allocate" /\ UNCHANGED <<page, outside, eeVars, batch, i, count, folder>>
  BY DEF AddFATRecord
<1>2. \/ (FreeClusters = {} \/ c = Nil) /\ target' = -EINVAL /\ iop' = "place" /\ UNCHANGED fat /\ NoFault
      \/ /\ FreeClusters # {} /\ c # Nil
         /\ \/ UpdateFatTableIndexData(c, LinkTo(n)) /\ NoFault /\ target' = n /\ iop' = "mark"
            \/ UpdateFatFails(c, LinkTo(n)) /\ target' = -1 /\ iop' = "place"
  BY <1>d, Zenon DEF AddFATRecord
<1>3. CASE (FreeClusters = {} \/ c = Nil) /\ target' = -EINVAL /\ iop' = "place" /\ UNCHANGED fat /\ NoFault
  <2>1. Holds(card, ch)'
    BY <1>e, <1>d, <1>1, <1>3, AddNothing
  <2> QED
    BY <2>1
<1>4. CASE /\ FreeClusters # {} /\ c # Nil /\ fat' = [fat EXCEPT ![c] = LinkTo(n)]
           /\ \/ target' = n /\ iop' = "mark" /\ NoFault
              \/ target' = -1 /\ iop' = "place" /\ Fault
  <2>1. n \in Clusters /\ ~fat[n].used
    BY <1>d, <1>4, FirstFreeIs
  <2> QED
    BY <1>e, <1>d, <1>1, <1>4, <2>1, AddLink
<1>5. CASE fat' = fat /\ target' = -1 /\ iop' = "place" /\ Fault
  <2>1. CardOK(card, ch) /\ TypesOK /\ CallOK(card) /\ faults \in Nat /\ faults \in 0 .. MaxFaults
    BY <1>1, Creating
  <2>2. i' = i /\ ee' = ee /\ page' = page /\ folder' = folder /\ outside' = outside
    BY <1>1 DEF eeVars
  <2>3. faults' = faults + 1 /\ faults' \in 0 .. MaxFaults
    BY <1>5, <2>1, Sizes DEF Fault
  <2>4. TypesOK'
    BY <1>5, <2>1, <2>2, <2>3 DEF TypesOK
  <2>5. CardOK(card, ch)'
    BY <1>5, <2>1, <2>2, <2>4, CardKept
  <2>6. CallOK(card)'
    BY <1>1, <1>5, <2>1, <2>2, CallKept
  <2>7. ~Sound'
    BY <2>1, <2>3 DEF Sound
  <2>8. Holds(card, ch)'
    BY <2>5, <2>6, <2>7, Failed
  <2> QED
    BY <2>8
<1> QED
  BY <1>2, <1>3, <1>4, <1>5 DEF UpdateFatTableIndexData, UpdateFatFails

LEMMA MarkKeeps ==
  ASSUME NEW card \in Cards, NEW ch, CardOK(card, ch), TypesOK', page' = page,
         NEW t \in Clusters, ~fat[t].used, FatWrote(t, EndOfChain)
  PROVE  CardOK(card, ch)'
<1>1. TypesOK /\ RootOK(card) /\ FreeOK(card) /\ page[OwnPage(card)] = card.page[OwnPage(card)]
      /\ fat \in [Clusters -> FatEntries] /\ \A d \in FoldersOfAliases : ChainOK(card, d, ch[d])
  BY DEF CardOK, TypesOK
<1>2. fat'[t] = EndOfChain /\ (\A x \in Clusters : x # t => fat'[x] = fat[x])
  BY <1>1 DEF FatWrote
<1>3. FreeOK(card)'
  BY <1>1, <1>2, Ended DEF FreeOK, Spare
<1>4. RootOK(card)'
  <2>1. \A j \in DOMAIN card.root : fat'[card.root[j]] = card.fat[card.root[j]]
    <3>1. card.root \in Seq(Clusters) /\ DOMAIN card.root = 1 .. Len(card.root)
      BY RootIs
    <3>2. \A j \in 1 .. Len(card.root) : fat[card.root[j]] = card.fat[card.root[j]] /\ fat[card.root[j]].used
      BY <1>1, RootRun
    <3> QED
      BY <1>2, <3>1, <3>2
  <2> QED
    BY <1>1, <2>1, Zenon DEF RootOK, PageOf
<1>5. ASSUME NEW d \in FoldersOfAliases PROVE ChainOK(card, d, ch[d])'
  <2> DEFINE s == ch[d]
  <2> DEFINE m == Len(s)
  <2>1. s \in Seq(Clusters) /\ m \in Nat /\ m >= 1
    BY <1>1, FolderRun
  <2>2. \A j \in 1 .. m - 1 : fat[s[j]] = LinkTo(s[j + 1])
    BY <1>1, Zenon DEF ChainOK
  <2>3. fat[s[m]].next = Nil
    BY <1>1, Zenon DEF ChainOK
  <2>4. ASSUME NEW j \in 1 .. m - 1 PROVE fat'[s[j]] = LinkTo(s[j + 1])
    <3>1. s[j] \in Clusters /\ s[j + 1] \in Clusters
      BY <2>1
    <3>2. fat[s[j]].used
      BY <2>2, <3>1, Links
    <3> QED
      BY <1>2, <2>2, <3>1, <3>2
  <2>5. fat'[s[m]].next = Nil
    <3>1. s[m] \in Clusters
      BY <2>1
    <3> QED
      BY <1>2, <2>3, <3>1, Ended
  <2> QED
    BY <1>1, <2>4, <2>5, Zenon DEF ChainOK, Spare
<1> QED
  BY <1>1, <1>3, <1>4, <1>5, Zenon DEF CardOK, OwnPage, PageOf

LEMMA StepMarkNewCluster ==
  ASSUME NEW card \in Cards, NEW ch, Holds(card, ch), EInv, MarkNewCluster
  PROVE  Holds(card, ch)'
<1>0. iop = "mark" /\ iop' = "place" /\ UNCHANGED <<page, outside, eeVars, batch, i, count, folder>>
  BY DEF MarkNewCluster
<1>d. PICK D \in FoldersOfAliases : D = Alias.dir
  BY <1>0, Creating
<1>t. PICK t : t = target
  BY Zenon
<1>1. /\ CardOK(card, ch) /\ TypesOK /\ CallOK(card) /\ ee \in {"before_wait", "after_wait"} /\ ChainOK(card, D, ch[D])
      /\ faults \in Nat /\ faults \in 0 .. MaxFaults
      /\ Sound => SoundOK(card, ch)
  BY <1>0, <1>d, <1>t, Creating, Zenon
<1>2. i' = i /\ ee' = ee /\ UNCHANGED eeVars /\ UNCHANGED <<batch, i, count>> /\ outside' = outside /\ page' = page
  BY <1>0 DEF eeVars
<1>3. t \in Clusters /\ ~fat[t].used /\ t \in Spare(card)
  BY <1>0, <1>1, <1>d, <1>t DEF CallOK, CardOK, FreeOK
<1>4. \/ FatWrote(t, EndOfChain) /\ NoFault /\ target' = t
      \/ FatWrote(t, EndOfChain) /\ Fault /\ target' = -1
      \/ fat' = fat /\ Fault /\ target' = -1
  BY <1>d, <1>t DEF MarkNewCluster, FatWrote, UpdateFatFails, UpdateFatTableIndexData
<1>5. TypesOK'
  <2>1. fat' \in [Clusters -> FatEntries]
    BY <1>1, <1>3, <1>4, Ended DEF TypesOK, FatWrote
  <2>2. faults' \in 0 .. MaxFaults /\ target' \in {-EINVAL, -1} \cup Clusters
    BY <1>1, <1>3, <1>4, Sizes DEF NoFault, Fault
  <2> QED
    BY <1>0, <1>1, <2>1, <2>2 DEF TypesOK
<1>6. CardOK(card, ch)'
  <2>1. CASE FatWrote(t, EndOfChain)
    BY <1>1, <1>2, <1>3, <1>5, <2>1, MarkKeeps
  <2>2. CASE fat' = fat
    BY <1>1, <1>2, <1>5, <2>2, CardKept
  <2> QED
    BY <1>4, <2>1, <2>2
<1>7. CallOK(card)' /\ Alias' = Alias
  <2>1. target' \in {-EINVAL, -1} \cup Spare(card)
    BY <1>3, <1>4
  <2> QED
    BY <1>0, <1>1, <1>2, <2>1, CallKept
<1>8. ASSUME Sound' PROVE SoundOK(card, ch)'
  <2>1. faults' \in {faults, faults + 1}
    BY <1>4 DEF NoFault, Fault
  <2>2. faults' = 0 /\ faults = 0 /\ outside = {}
    BY <1>1, <1>2, <1>8, <2>1 DEF Sound
  <2>3. ~Fault
    BY <2>2 DEF Fault
  <2>4. SoundOK(card, ch) /\ FatWrote(t, EndOfChain) /\ target' = t
    BY <1>1, <1>4, <2>2, <2>3, Zenon DEF Sound
  <2>5. CountOK'
    BY <1>0, <1>1, <1>2, <2>4, CountStays, SoundParts
  <2>6. \A d, e \in FoldersOfAliases : d # e => Disjoint(ch[d], ch[e])
    BY <1>1, <2>4, SoundParts
  <2>7. fat'[t] = EndOfChain /\ \A x \in Clusters : x # t => fat'[x] = fat[x]
    BY <1>1, <1>3, <2>4 DEF TypesOK, FatWrote
  <2>8. ASSUME NEW d \in FoldersOfAliases
        PROVE  /\ EndOK(d, ch[d]) /\ SizeOK(card, d, ch[d]) /\ ch[d] \in Seq(Clusters) /\ Len(ch[d]) >= 1
               /\ DOMAIN ch[d] = 1 .. Len(ch[d]) /\ Len(ch[d]) \in DOMAIN ch[d] /\ ch[d][Len(ch[d])] \in Clusters
    <3>1. EndOK(d, ch[d]) /\ SizeOK(card, d, ch[d]) /\ ChainOK(card, d, ch[d])
      BY <1>1, <2>4, SoundParts
    <3>2. ch[d] \in Seq(Clusters) /\ Len(ch[d]) >= 1
      BY <3>1, FolderRun
    <3> QED
      BY <3>1, <3>2
  <2>9. ch[D][Len(ch[D])] = t
    <3>1. EndOK(D, ch[D])
      BY <2>8
    <3> QED
      BY <1>0, <1>d, <1>t, <3>1, Zenon DEF EndOK
  <2>10. ASSUME NEW d \in FoldersOfAliases PROVE EndOK(d, ch[d])' /\ SizeOK(card, d, ch[d])'
    <3>1. EndOK(d, ch[d]) /\ SizeOK(card, d, ch[d])
      BY <2>8
    <3>2. Growing(d) <=> d = D
      BY <1>0, <1>d, <1>t DEF Growing
    <3>3. Growing(d)' <=> d = D
      BY <1>0, <1>d, <1>t, <1>7 DEF Growing
    <3>4. FolderLength(card, d)' = FolderLength(card, d)
      BY <1>2, Zenon DEF FolderLength, FolderPage, PageOf
    <3>5. fat'[ch[d][Len(ch[d])]] = EndOfChain
      <4>1. CASE d = D
        BY <2>7, <2>9, <4>1
      <4>2. CASE d # D
        <5>1. Disjoint(ch[d], ch[D])
          BY <2>6, <4>2
        <5>2. ch[d][Len(ch[d])] # t
          BY <2>8, <2>9, <5>1 DEF Disjoint
        <5>3. fat[ch[d][Len(ch[d])]] = EndOfChain
          BY <1>d, <1>t, <3>1, <4>2, Zenon DEF EndOK
        <5> QED
          BY <2>7, <2>8, <5>2, <5>3
      <4> QED
        BY <4>1, <4>2
    <3>6. EndOK(d, ch[d])'
      <4>1. iop' # "mark"
        BY <1>0
      <4> QED
        BY <3>5, <4>1, Zenon DEF EndOK
    <3>7. CASE d # D
      <4>1. ~Growing(d)' /\ ~Growing(d) /\ iop' # "allocate"
        BY <1>0, <3>2, <3>3, <3>7, Zenon
      <4> QED
        BY <3>1, <3>4, <3>6, <4>1, SizeKept, Zenon
    <3>8. CASE d = D
      <4>1. Growing(d) /\ Growing(d)' /\ iop # "grow" /\ iop' # "grow" /\ iop' # "allocate"
        BY <1>0, <3>2, <3>3, <3>8
      <4>2. IF target < 0 THEN FolderLength(card, d) = Len(ch[d]) * PagesPerCluster
            ELSE FolderLength(card, d) = (Len(ch[d]) - 1) * PagesPerCluster /\ ch[d][Len(ch[d])] = target
        BY <3>1, <4>1, Zenon DEF SizeOK
      <4>3. target' = target
        BY <1>d, <1>t, <2>4
      <4> QED
        BY <3>4, <3>6, <4>1, <4>2, <4>3, Zenon DEF SizeOK
    <3> QED
      BY <3>7, <3>8
  <2>11. ASSUME NEW k \in 1 .. N PROVE NameOK(card, ch, k)'
    <3>1. Done(k)' <=> Done(k)
      BY <1>1, <1>2 DEF Done
    <3> QED
      BY <1>1, <1>2, <2>4, <3>1, NamesSame
  <2> QED
    BY <2>5, <2>6, <2>10, <2>11, AliasNames, Zenon DEF SoundOK, Disjoint
<1> QED
  BY <1>6, <1>7, <1>8, Zenon DEF Holds

-----------------------------------------------------------------------------
(* CreateNewVirtualDirent: the entry on the new cluster. *)

LEMMA SpareIs ==
  ASSUME NEW card \in Cards, NEW t \in Spare(card)
  PROVE  t \in Clusters /\ t # 0 /\ t > 0 /\ <<t, 0>> \in Clusters \X Slots /\ <<t, 0>> # OwnPage(card)
         /\ \A l \in 1 .. Len(card.root) : t # card.root[l]
<1>1. t \in Clusters /\ ~card.fat[t].used
  BY DEF Spare
<1>2. IsChain(card.fat, card.root) /\ card.root[1] = 0 /\ Len(card.root) >= 1 /\ card.root \in Seq(Clusters)
  BY RootIs
<1>3. \A l \in 1 .. Len(card.root) : card.fat[card.root[l]].used
  BY <1>2, ChainParts
<1>4. \A l \in 1 .. Len(card.root) : t # card.root[l]
  BY <1>1, <1>3
<1>5. t # 0
  BY <1>2, <1>4
<1>6. Home \in FoldersOfAliases /\ \E j \in 1 .. Len(card.chain[Home]) : OwnPage(card)[1] = card.chain[Home][j]
  BY OwnIs
<1>7. IsChain(card.fat, card.chain[Home])
  BY <1>6, FolderIs
<1>8. \A j \in 1 .. Len(card.chain[Home]) : card.fat[card.chain[Home][j]].used
  BY <1>7, ChainParts
<1>9. OwnPage(card)[1] # t
  BY <1>1, <1>6, <1>8
<1>10. <<t, 0>>[1] = t
  OBVIOUS
<1>11. <<t, 0>> # OwnPage(card)
  BY <1>9, <1>10
<1>12. <<t, 0>> \in Clusters \X Slots /\ t > 0
  BY <1>1, <1>5, Sizes DEF Slots, Clusters
<1> QED
  BY <1>1, <1>4, <1>5, <1>11, <1>12

LEMMA FirstOf ==
  ASSUME NEW s \in Seq(Clusters), Len(s) >= 1, NEW w, w = (Len(s) - 1) * PagesPerCluster
  PROVE  w \in Nat /\ w < Len(s) * PagesPerCluster /\ PageOf(s, w) = <<s[Len(s)], 0>>
<1>1. Len(s) - 1 \in Nat /\ PagesPerCluster \in Nat \ {0} /\ 0 \in 0 .. PagesPerCluster - 1 /\ Len(s) \in Nat
  BY Sizes
<1> DEFINE q == Len(s) - 1
<1>2. w = q * PagesPerCluster + 0 /\ q \in Nat
  BY <1>1
<1>5. w \in Nat
  BY <1>1, InChain
<1> HIDE DEF q
<1>3. w \div PagesPerCluster = q /\ w % PagesPerCluster = 0
  BY <1>1, <1>2, <1>5, Quotient
<1>4. q + 1 = Len(s) /\ q < Len(s)
  BY <1>1 DEF q
<1>6. w < Len(s) * PagesPerCluster
  BY <1>1, <1>3, <1>4, <1>5, InChain
<1>7. s[w \div PagesPerCluster + 1] = s[Len(s)]
  BY <1>3, <1>4
<1> QED
  BY <1>3, <1>5, <1>6, <1>7, Zenon DEF PageOf

(* Before the data area something of the card is lost. *)
LEMMA PlaceOutside ==
  ASSUME NEW card \in Cards, NEW ch, Holds(card, ch), EInv, iop = "place", target < 0,
         UpdateDirEntInformation(FirstPage(target), NewDirEnt) \/ (Fault /\ UNCHANGED <<page, outside>>),
         NoFault \/ Fault,
         (iop' = "grow" /\ UNCHANGED <<i, count>>) \/ NextName(FALSE), UNCHANGED <<fat, eeVars, batch, folder, target>>
  PROVE  Holds(card, ch)'
<1>1. /\ CardOK(card, ch) /\ TypesOK /\ CallOK(card) /\ Alias.dir \in FoldersOfAliases
      /\ faults \in Nat /\ faults \in 0 .. MaxFaults
  BY Creating, Zenon
<1>2. FirstPage(target).cluster = target /\ ~(target >= 0) /\ target \in {-EINVAL, -1}
  <2>1. target \in {-EINVAL, -1} \cup Spare(card)
    BY <1>1, Zenon DEF CallOK
  <2>2. \A t \in Spare(card) : t \in Clusters /\ t > 0
    BY SpareIs
  <2>3. target \in {-EINVAL, -1} /\ ~(target >= 0)
    BY <2>1, <2>2, Sizes DEF Clusters
  <2> QED
    BY <2>3 DEF FirstPage
<1>3. page' = page /\ (outside' = outside \cup {AllocStart + target} \/ (Fault /\ outside' = outside))
  BY <1>2 DEF UpdateDirEntInformation
<1>4. AllocStart + target \in 0 .. AllocStart - 1
  BY <1>2, Sizes
<1>5. faults' \in 0 .. MaxFaults /\ faults' \in {faults, faults + 1} /\ (Fault => faults' = faults + 1)
  BY <1>1, Sizes DEF NoFault, Fault
<1>6. TypesOK'
  BY <1>1, <1>3, <1>4, <1>5 DEF TypesOK
<1>7. CardOK(card, ch)'
  BY <1>1, <1>3, <1>6, CardKept
<1>8. ~Sound'
  BY <1>1, <1>3, <1>5 DEF Sound
<1>9. CallOK(card)'
  <2>1. CASE iop' = "grow" /\ UNCHANGED <<i, count>>
    <3>1. UNCHANGED <<ee, i, folder>> /\ page'[FolderPage(card, Alias.dir)] = page[FolderPage(card, Alias.dir)]
      BY <1>3, <2>1 DEF eeVars
    <3> QED
      BY <1>1, <2>1, <3>1, CallKept
  <2>2. CASE NextName(FALSE)
    BY <2>2, CallEnds DEF NextName
  <2> QED
    BY <2>1, <2>2
<1> QED
  BY <1>7, <1>8, <1>9, Failed

LEMMA PlaceInside ==
  ASSUME NEW card \in Cards, NEW ch, Holds(card, ch), EInv, iop = "place", NEW t \in Spare(card), target = t,
         UpdateDirEntInformation(FirstPage(t), NewDirEnt), UNCHANGED <<fat, eeVars, batch, folder, target>>,
         \/ NoFault /\ iop' = "grow" /\ UNCHANGED <<i, count>>
         \/ Fault /\ NextName(FALSE)
  PROVE  Holds(card, ch)'
<1>d. PICK D \in FoldersOfAliases, E \in Dirents : D = Alias.dir /\ E = NewDirEnt
  BY Creating
<1>1. /\ CardOK(card, ch) /\ TypesOK /\ CallOK(card) /\ ee \in {"before_wait", "after_wait"}
      /\ faults \in Nat /\ faults \in 0 .. MaxFaults /\ E = NewDirEnt
      /\ Sound => /\ SoundOK(card, ch)
                  /\ NewDirEnt = [page[OwnPage(card)] EXCEPT !.name = Alias.name, !.live = TRUE]
  BY <1>d, Creating, Zenon
<1>2. t \in Clusters /\ t >= 0 /\ <<t, 0>> \in Clusters \X Slots /\ <<t, 0>> # OwnPage(card)
      /\ \A l \in 1 .. Len(card.root) : <<t, 0>>[1] # card.root[l]
  <2>1. t \in Clusters /\ t > 0 /\ <<t, 0>> \in Clusters \X Slots /\ <<t, 0>> # OwnPage(card)
        /\ \A l \in 1 .. Len(card.root) : t # card.root[l]
    BY SpareIs
  <2>2. <<t, 0>>[1] = t /\ t >= 0
    BY <2>1 DEF Clusters
  <2> QED
    BY <2>1, <2>2, Zenon
<1>3. page' = [page EXCEPT ![<<t, 0>>] = E] /\ outside' = outside
  BY <1>1, <1>2 DEF UpdateDirEntInformation, FirstPage
<1>4. page' \in [Clusters \X Slots -> Dirents]
  BY <1>1, <1>2, <1>3 DEF TypesOK
<1>5. faults' \in 0 .. MaxFaults /\ faults' \in {faults, faults + 1}
  <2>1. NoFault \/ Fault
    OBVIOUS
  <2> QED
    BY <1>1, <2>1, Sizes DEF NoFault, Fault
<1>6. TypesOK'
  BY <1>1, <1>3, <1>4, <1>5 DEF TypesOK
<1>7. CardOK(card, ch)' /\ (\A f \in FoldersOfAliases : page'[FolderPage(card, f)] = page[FolderPage(card, f)])
      /\ page'[OwnPage(card)] = page[OwnPage(card)]
  BY <1>1, <1>2, <1>3, <1>6, WriteKept
<1>8. CASE Fault /\ NextName(FALSE)
  <2>1. ~Sound' /\ iop' = "next"
    BY <1>1, <1>8 DEF Sound, Fault, NextName
  <2> QED
    BY <1>7, <2>1, CallEnds, Failed
<1>9. CASE NoFault /\ iop' = "grow" /\ UNCHANGED <<i, count>>
  <2>0. i' = i /\ ee' = ee /\ UNCHANGED eeVars /\ UNCHANGED <<batch, i, count>> /\ faults' = faults /\ folder' = folder
    BY <1>9 DEF eeVars, NoFault
  <2>1. CallOK(card)' /\ Alias' = Alias
    BY <1>1, <1>d, <1>7, <1>9, <2>0, CallKept
  <2>2. ASSUME Sound' PROVE SoundOK(card, ch)'
    <3>1. SoundOK(card, ch) /\ E = [page[OwnPage(card)] EXCEPT !.name = Alias.name, !.live = TRUE]
      BY <1>1, <1>3, <2>0, <2>2, Zenon DEF Sound
    <3>2. CountOK'
      BY <1>1, <1>9, <2>0, <3>1, CountStays, SoundParts
    <3>3. ASSUME NEW d \in FoldersOfAliases
          PROVE  EndOK(d, ch[d]) /\ SizeOK(card, d, ch[d]) /\ ch[d] \in Seq(Clusters) /\ Len(ch[d]) >= 1
      <4>1. EndOK(d, ch[d]) /\ SizeOK(card, d, ch[d]) /\ ChainOK(card, d, ch[d])
        BY <1>1, <3>1, SoundParts
      <4> QED
        BY <4>1, FolderRun
    <3>4. PICK w : w = FolderLength(card, D)
      OBVIOUS
    <3>5. w = (Len(ch[D]) - 1) * PagesPerCluster /\ ch[D][Len(ch[D])] = t
      <4>1. Growing(D) /\ iop # "grow" /\ ~(target < 0)
        BY <1>2, <1>d, Sizes DEF Growing, Clusters
      <4>2. SizeOK(card, D, ch[D])
        BY <3>3
      <4>3. target = t
        OBVIOUS
      <4> QED
        BY <3>4, <4>1, <4>2, <4>3, Zenon DEF SizeOK
    <3>6. w \in Nat /\ w < Len(ch[D]) * PagesPerCluster /\ PageOf(ch[D], w) = <<t, 0>>
      <4>1. PageOf(ch[D], w) = <<ch[D][Len(ch[D])], 0>> /\ w \in Nat /\ w < Len(ch[D]) * PagesPerCluster
        BY <3>3, <3>5, FirstOf
      <4> QED
        BY <3>5, <4>1
    <3>7. Wrote(ch[D], w, E)
      BY <1>3, <3>6, Zenon DEF Wrote
    <3>8. ASSUME NEW k \in 1 .. N PROVE NameOK(card, ch, k)'
      <4>1. Done(k)' <=> Done(k)
        BY <1>1, <2>0 DEF Done
      <4>2. w >= FolderLength(card, D)
        BY <3>4, <3>6
      <4> QED
        BY <1>1, <1>7, <3>1, <3>6, <3>7, <4>1, <4>2, NamesBehind
    <3>9. ASSUME NEW d \in FoldersOfAliases PROVE EndOK(d, ch[d])' /\ SizeOK(card, d, ch[d])'
      <4>1. (Growing(d) <=> d = D) /\ (Growing(d)' <=> d = D)
        BY <1>d, <1>9, <2>1 DEF Growing
      <4>2. FolderLength(card, d)' = FolderLength(card, d)
        BY <1>7 DEF FolderLength, FolderPage
      <4>3. EndOK(d, ch[d]) /\ SizeOK(card, d, ch[d])
        BY <3>3
      <4>4. EndOK(d, ch[d])'
        <5>1. iop' # "mark" /\ iop # "mark" /\ fat' = fat
          BY <1>9
        <5> QED
          BY <4>3, <5>1, Zenon DEF EndOK
      <4>5. CASE d # D
        <5>1. ~Growing(d)' /\ ~Growing(d) /\ iop' # "allocate"
          BY <1>9, <4>1, <4>5, Zenon
        <5> QED
          BY <4>2, <4>3, <4>4, <5>1, SizeKept, Zenon
      <4>6. CASE d = D
        <5>1. page'[PageOf(ch[D], w)] = E
          <6>1. CardOK(card, ch) /\ w \in Nat /\ w < Len(ch[D]) * PagesPerCluster /\ Wrote(ch[D], w, E)
            BY <1>1, <3>6, <3>7
          <6> QED
            BY <6>1, ThisRecord, ZenonT(30)
        <5>2. page'[PageOf(ch[d], w)] = [page'[OwnPage(card)] EXCEPT !.name = Alias'.name, !.live = TRUE]
          BY <1>7, <2>1, <3>1, <4>6, <5>1, Zenon
        <5>3. w >= (Len(ch[d]) - 1) * PagesPerCluster /\ w < Len(ch[d]) * PagesPerCluster
          BY <3>5, <3>6, <4>6
        <5>4. Growing(d)' /\ iop' = "grow" /\ FolderLength(card, d)' = w
          BY <1>9, <3>4, <4>1, <4>2, <4>6, Zenon
        <5> QED
          BY <4>4, <5>2, <5>3, <5>4, SizeGrowing, Zenon
      <4> QED
        BY <4>5, <4>6
    <3>10. \A d, e \in FoldersOfAliases : d # e => Disjoint(ch[d], ch[e])
      BY <1>1, <3>1, SoundParts
    <3> QED
      BY <3>2, <3>8, <3>9, <3>10, AliasNames, Zenon DEF SoundOK, Disjoint
  <2> QED
    BY <1>7, <2>1, <2>2, Zenon DEF Holds
<1> QED
  BY <1>8, <1>9

LEMMA StepPlaceEntry ==
  ASSUME NEW card \in Cards, NEW ch, Holds(card, ch), EInv, PlaceEntry
  PROVE  Holds(card, ch)'
<1>1. iop = "place" /\ UNCHANGED <<fat, eeVars, batch, folder, target>>
  BY DEF PlaceEntry
<1>2. CardOK(card, ch) /\ CallOK(card) /\ TypesOK /\ faults \in Nat /\ faults \in 0 .. MaxFaults /\ Alias.dir \in FoldersOfAliases
  BY <1>1, Creating
<1>3. target \in {-EINVAL, -1} \cup Spare(card)
  BY <1>1, <1>2 DEF CallOK
<1>4. target # 0
  <2>1. \A t \in Spare(card) : t # 0
    BY SpareIs
  <2> QED
    BY <1>3, <2>1, Sizes
<1>5. \/ UpdateDirEntInformation(FirstPage(target), NewDirEnt) /\ NoFault /\ iop' = "grow" /\ UNCHANGED <<i, count>>
      \/ UpdateDirEntInformation(FirstPage(target), NewDirEnt) /\ Fault /\ NextName(FALSE)
      \/ Fault /\ UNCHANGED <<page, outside>> /\ NextName(FALSE)
  BY <1>4, Zenon DEF PlaceEntry, UpdateDirEntFails
<1>6. CASE target < 0
  BY <1>1, <1>5, <1>6, PlaceOutside
<1>7. CASE ~(target < 0)
  <2>1. PICK t \in Spare(card) : target = t
    BY <1>3, <1>7 DEF EINVAL
  <2>2. CASE Fault /\ UNCHANGED <<page, outside>> /\ NextName(FALSE)
    <3>1. faults' = faults + 1 /\ faults' \in 0 .. MaxFaults /\ iop' = "next"
      BY <1>2, <2>2, Sizes DEF Fault, NextName
    <3>2. TypesOK' /\ ~Sound'
      BY <1>1, <1>2, <2>2, <3>1 DEF TypesOK, Sound
    <3>3. CardOK(card, ch)'
      BY <1>1, <1>2, <2>2, <3>2, CardKept
    <3> QED
      BY <3>1, <3>2, <3>3, CallEnds, Failed
  <2>3. CASE UpdateDirEntInformation(FirstPage(target), NewDirEnt)
    BY <1>1, <1>5, <2>1, <2>2, <2>3, PlaceInside
  <2> QED
    BY <1>5, <2>2, <2>3
<1> QED
  BY <1>6, <1>7

-----------------------------------------------------------------------------
(* CreateNewVirtualDirent: the folder's entry with one record more. *)

LEMMA Longer ==
  ASSUME NEW e \in Dirents
  PROVE  LET g == [e EXCEPT !.length = @ + 1]
         IN g \in Dirents /\ g.name = e.name /\ g.live = e.live /\ g.cluster = e.cluster /\ g.length = e.length + 1 /\ e.length \in Nat
  BY DEF Dirents

Grown(p) == page' = [page EXCEPT ![p] = [page[p] EXCEPT !.length = @ + 1]]

LEMMA GrownKeeps ==
  ASSUME NEW card \in Cards, NEW ch, CardOK(card, ch), TypesOK', fat' = fat, NEW d \in FoldersOfAliases,
         Grown(FolderPage(card, d))
  PROVE  /\ CardOK(card, ch)' /\ page'[OwnPage(card)] = page[OwnPage(card)]
         /\ FolderLength(card, d)' = FolderLength(card, d) + 1
         /\ \A f \in FoldersOfAliases \ {d} : FolderLength(card, f)' = FolderLength(card, f)
         /\ \A f \in FoldersOfAliases : \A r \in Nat :
              r < Len(ch[f]) * PagesPerCluster => page'[PageOf(ch[f], r)] = page[PageOf(ch[f], r)]
<1> DEFINE p == FolderPage(card, d)
<1> DEFINE n == card.page[<<0, 0>>].length
<1>0. TypesOK /\ RootOK(card) /\ FreeOK(card) /\ page[OwnPage(card)] = card.page[OwnPage(card)]
      /\ (\A f \in FoldersOfAliases : ChainOK(card, f, ch[f])) /\ page \in [Clusters \X Slots -> Dirents]
  BY Zenon DEF CardOK, TypesOK
<1>1. p \in Clusters \X Slots /\ p[1] # 0 /\ \E j \in 1 .. Len(card.root) : p[1] = card.root[j]
  <2>1. p \in Clusters \X Slots /\ p[1] # 0 /\ \E j \in 2 .. Len(card.root) : p[1] = card.root[j]
    BY FolderPageIs
  <2> HIDE DEF p
  <2>2. Len(card.root) \in Nat
    BY RootIs
  <2> QED
    BY <2>1, <2>2
<1>2. \A f \in FoldersOfAliases : FolderPage(card, f) \in Clusters \X Slots
  BY FolderPageIs
<1>3. \A f \in FoldersOfAliases \ {d} : FolderPage(card, f) # p
  BY <1>0, FolderEntryIs
<1>4. OwnPage(card) \in Clusters \X Slots /\ OwnPage(card) # p
  <2>1. Home \in FoldersOfAliases /\ OwnPage(card) \in Clusters \X Slots
        /\ \E j \in 1 .. Len(card.chain[Home]) : OwnPage(card)[1] = card.chain[Home][j]
    BY OwnIs
  <2>2. \A j \in 1 .. Len(card.root), k \in 1 .. Len(card.chain[Home]) : card.root[j] # card.chain[Home][k]
    BY <2>1, FolderIs
  <2> HIDE DEF p
  <2> QED
    BY <1>1, <2>1, <2>2
<1>5. ASSUME NEW f \in FoldersOfAliases, NEW r \in Nat, r < Len(ch[f]) * PagesPerCluster
      PROVE  PageOf(ch[f], r) \in Clusters \X Slots /\ PageOf(ch[f], r) # p
  <2>1. ChainOK(card, f, ch[f]) /\ ch[f] \in Seq(Clusters)
    BY <1>0, FolderRun
  <2>2. r \div PagesPerCluster + 1 \in 1 .. Len(ch[f]) /\ PageOf(ch[f], r) \in Clusters \X Slots
    BY <1>5, <2>1, PageIn
  <2>3. \A l \in 1 .. Len(card.root) : ch[f][r \div PagesPerCluster + 1] # card.root[l]
    BY <2>1, <2>2, OffRoot
  <2>4. PageOf(ch[f], r)[1] = ch[f][r \div PagesPerCluster + 1]
    BY DEF PageOf
  <2> HIDE DEF p
  <2> QED
    BY <1>1, <2>2, <2>3, <2>4
<1> HIDE DEF p
<1>6. /\ \A q \in Clusters \X Slots : q # p => page'[q] = page[q]
      /\ page'[p] = [page[p] EXCEPT !.length = @ + 1] /\ page[p] \in Dirents
  BY <1>0, <1>1 DEF Grown, p
<1>7. ASSUME NEW q \in Clusters \X Slots
      PROVE  /\ page'[q].name = page[q].name /\ page'[q].live = page[q].live /\ page'[q].cluster = page[q].cluster
             /\ page'[q].length >= page[q].length /\ page[q].length \in Nat
  <2>1. CASE q # p
    <3>1. page[q] \in Dirents /\ page'[q] = page[q]
      BY <1>0, <1>6, <2>1
    <3>2. page[q].length \in Nat
      BY <3>1 DEF Dirents
    <3> QED
      BY <3>1, <3>2
  <2>2. CASE q = p
    <3>1. /\ page'[q].name = page[q].name /\ page'[q].live = page[q].live /\ page'[q].cluster = page[q].cluster
          /\ page'[q].length = page[q].length + 1 /\ page[q].length \in Nat
      BY <1>6, <2>2, Longer
    <3> QED
      BY <3>1
  <2> QED
    BY <2>1, <2>2
<1>8. page'[<<0, 0>>] = page[<<0, 0>>] /\ page'[OwnPage(card)] = page[OwnPage(card)]
  <2>1. <<0, 0>> \in Clusters \X Slots /\ <<0, 0>>[1] = 0
    BY Sizes, Ended DEF Slots
  <2> QED
    BY <1>1, <1>4, <1>6, <2>1
<1>9. n \in Nat /\ n <= Len(card.root) * PagesPerCluster /\ card.root \in Seq(Clusters)
      /\ card.page \in [Clusters \X Slots -> Dirents]
  BY RootIs
<1>10. \A r \in 0 .. n - 1 : PageOf(card.root, r) \in Clusters \X Slots
  <2> SUFFICES ASSUME NEW r \in 0 .. n - 1 PROVE PageOf(card.root, r) \in Clusters \X Slots
    OBVIOUS
  <2> DEFINE m == Len(card.root) * PagesPerCluster
  <2>1. m \in Nat
    BY <1>9, InChain
  <2>2. r \in Nat /\ r < m
    <3> HIDE DEF m, n
    <3> QED
      BY <1>9, <2>1 DEF m
  <2> QED
    BY <1>9, <2>2, PageIn
<1> HIDE DEF n
<1>11. RootOK(card)'
  <2>1. \A r \in 0 .. n - 1 :
        /\ page[PageOf(card.root, r)].name = card.page[PageOf(card.root, r)].name
        /\ page[PageOf(card.root, r)].live = card.page[PageOf(card.root, r)].live
        /\ page[PageOf(card.root, r)].cluster = card.page[PageOf(card.root, r)].cluster
        /\ page[PageOf(card.root, r)].length >= card.page[PageOf(card.root, r)].length
    BY <1>0, Zenon DEF RootOK, n
  <2>2. ASSUME NEW r \in 0 .. n - 1
        PROVE  /\ page'[PageOf(card.root, r)].name = card.page[PageOf(card.root, r)].name
               /\ page'[PageOf(card.root, r)].live = card.page[PageOf(card.root, r)].live
               /\ page'[PageOf(card.root, r)].cluster = card.page[PageOf(card.root, r)].cluster
               /\ page'[PageOf(card.root, r)].length >= card.page[PageOf(card.root, r)].length
    <3> DEFINE q == PageOf(card.root, r)
    <3>1. q \in Clusters \X Slots
      BY <1>10
    <3> HIDE DEF q
    <3>2. /\ page'[q].name = page[q].name /\ page'[q].live = page[q].live /\ page'[q].cluster = page[q].cluster
          /\ page'[q].length >= page[q].length /\ page[q].length \in Nat
      BY <1>7, <3>1
    <3>3. page[q].length >= card.page[q].length /\ page[q].name = card.page[q].name /\ page[q].live = card.page[q].live
          /\ page[q].cluster = card.page[q].cluster
      BY <2>1, Zenon DEF q
    <3>4. card.page[q].length \in Nat /\ page'[q].length \in Nat
      <4>1. page' \in [Clusters \X Slots -> Dirents]
        BY DEF TypesOK
      <4> QED
        BY <1>9, <3>1, <4>1 DEF Dirents
    <3>5. page'[q].length >= card.page[q].length
      BY <3>2, <3>3, <3>4
    <3> QED
      BY <3>2, <3>3, <3>5, Zenon DEF q
  <2>3. page'[<<0, 0>>] = card.page[<<0, 0>>] /\ \A j \in DOMAIN card.root : fat'[card.root[j]] = card.fat[card.root[j]]
    BY <1>0, <1>8, Zenon DEF RootOK
  <2> QED
    BY <2>2, <2>3, Zenon DEF RootOK, n
<1>12. FreeOK(card)' /\ \A f \in FoldersOfAliases : ChainOK(card, f, ch[f])'
  BY <1>0, Zenon DEF FreeOK, ChainOK, Spare
<1>13. CardOK(card, ch)'
  BY <1>0, <1>8, <1>11, <1>12, Zenon DEF CardOK
<1>14. FolderLength(card, d)' = FolderLength(card, d) + 1
  <2>1. page'[p].length = page[p].length + 1
    BY <1>6, Longer
  <2> QED
    BY <2>1 DEF FolderLength, p, FolderPage
<1>15. \A f \in FoldersOfAliases \ {d} : FolderLength(card, f)' = FolderLength(card, f)
  <2>1. \A f \in FoldersOfAliases \ {d} : page'[FolderPage(card, f)] = page[FolderPage(card, f)]
    BY <1>2, <1>3, <1>6
  <2> QED
    BY <2>1, Zenon DEF FolderLength, FolderPage, PageOf
<1>16. \A f \in FoldersOfAliases : \A r \in Nat :
         r < Len(ch[f]) * PagesPerCluster => page'[PageOf(ch[f], r)] = page[PageOf(ch[f], r)]
  BY <1>5, <1>6
<1> QED
  BY <1>8, <1>13, <1>14, <1>15, <1>16

(* The folder's entry is where it was when the call read it. *)
LEMMA GrowWrites ==
  ASSUME NEW card \in Cards, NEW ch, Holds(card, ch), EInv, iop = "grow", NEW D \in FoldersOfAliases, D = Alias.dir,
         UpdateDirEntInformation(folder.place, [folder.entry EXCEPT !.length = @ + 1])
  PROVE  Grown(FolderPage(card, D)) /\ outside' = outside /\ page' \in [Clusters \X Slots -> Dirents]
<1> DEFINE p == FolderPage(card, D)
<1>1. folder.entry = page[p] /\ <<folder.place.cluster, folder.place.slot>> = p /\ TypesOK
  BY Creating, Zenon
<1>2. p \in Clusters \X Slots
  BY FolderPageIs
<1> HIDE DEF p
<1>3. folder.place.cluster \in Clusters
  BY <1>1 DEF TypesOK
<1>4. folder.place.cluster >= 0
  BY <1>3, Sizes DEF Clusters
<1>5. page' = [page EXCEPT ![p] = [page[p] EXCEPT !.length = @ + 1]] /\ outside' = outside
  BY <1>1, <1>4, Zenon DEF UpdateDirEntInformation
<1>6. page \in [Clusters \X Slots -> Dirents] /\ page[p] \in Dirents
  BY <1>1, <1>2 DEF TypesOK
<1>7. [page[p] EXCEPT !.length = @ + 1] \in Dirents
  BY <1>6, Longer
<1>8. page' \in [Clusters \X Slots -> Dirents]
  BY <1>5, <1>6, <1>7
<1> QED
  BY <1>5, <1>8, Zenon DEF Grown, p

LEMMA HasNow ==
  ASSUME NEW s, NEW k, NEW r
  PROVE  Has(s, k, r)' <=> page'[PageOf(s, r)].live /\ page'[PageOf(s, r)].name = FileAlias[k].name
  BY Zenon DEF Has, PageOf

(* The new record gives the name that was created its entry. *)
LEMMA NewRecord ==
  ASSUME NEW card \in Cards, NEW ch, CardOK(card, ch), SoundOK(card, ch), NEW D \in FoldersOfAliases, NEW x \in 1 .. N, D = FileAlias[x].dir,
         NEW n, n = FolderLength(card, D), n < Len(ch[D]) * PagesPerCluster,
         Has(ch[D], x, n), page[PageOf(ch[D], n)].cluster = page[OwnPage(card)].cluster,
         FolderLength(card, D)' = n + 1, \A f \in FoldersOfAliases \ {D} : FolderLength(card, f)' = FolderLength(card, f),
         page'[OwnPage(card)] = page[OwnPage(card)],
         \A f \in FoldersOfAliases : \A r \in Nat :
           r < Len(ch[f]) * PagesPerCluster => page'[PageOf(ch[f], r)] = page[PageOf(ch[f], r)],
         ~Done(x), Done(x)', NEW k \in 1 .. N, k # x => (Done(k)' <=> Done(k))
  PROVE  NameOK(card, ch, k)'
<1> DEFINE f == FileAlias[k].dir
<1>1. f \in FoldersOfAliases /\ NameOK(card, ch, k) /\ n \in Nat /\ NameOK(card, ch, x)
  BY AliasNames, SoundParts
<1>2. \A r \in Nat : r < Len(ch[f]) * PagesPerCluster =>
        page'[PageOf(ch[f], r)] = page[PageOf(ch[f], r)] /\ (Has(ch[f], k, r)' <=> Has(ch[f], k, r))
  <2> SUFFICES ASSUME NEW r \in Nat, r < Len(ch[f]) * PagesPerCluster
               PROVE  page'[PageOf(ch[f], r)] = page[PageOf(ch[f], r)] /\ (Has(ch[f], k, r)' <=> Has(ch[f], k, r))
    OBVIOUS
  <2>1. page'[PageOf(ch[f], r)] = page[PageOf(ch[f], r)]
    BY <1>1
  <2> HIDE DEF f
  <2>2. Has(ch[f], k, r)' <=> Has(ch[f], k, r)
    BY <2>1, Zenon DEF Has, PageOf
  <2> QED
    BY <2>1, <2>2, Zenon
<1>3. \A r \in 0 .. FolderLength(card, f) - 1 : r \in Nat /\ r < Len(ch[f]) * PagesPerCluster
  BY <1>1, SoundParts
<1>4. \A r \in 0 .. FolderLength(card, f) - 1 :
        /\ Has(ch[f], k, r)' <=> Has(ch[f], k, r)
        /\ Has(ch[f], k, r) => page'[PageOf(ch[f], r)].cluster = page[PageOf(ch[f], r)].cluster
  BY <1>2, <1>3, Zenon
<1>5. page'[PageOf(ch[D], n)] = page[PageOf(ch[D], n)]
  BY <1>1
<1>6. Has(ch[D], k, n)' <=> FileAlias[x].name = FileAlias[k].name
  <2>2. page[PageOf(ch[D], n)].live /\ page[PageOf(ch[D], n)].name = FileAlias[x].name
    BY Zenon DEF Has
  <2>3. page'[PageOf(ch[D], n)].live /\ page'[PageOf(ch[D], n)].name = FileAlias[x].name
    BY <1>5, <2>2, Zenon
  <2> QED
    BY <2>3, HasNow, Zenon
<1>7. page'[PageOf(ch[D], n)].cluster = page'[OwnPage(card)].cluster
  BY <1>5
<1>8. CASE f # D
  <2>1. FolderLength(card, f)' = FolderLength(card, f) /\ k # x
    BY <1>1, <1>8
  <2> QED
    BY <1>1, <1>4, <2>1, NameKept
<1>9. CASE f = D /\ k # x
  <2>1. ~Has(ch[f], k, n)'
    BY <1>6, <1>9, Apart
  <2> DEFINE is(r) == Has(ch[f], k, r)
  <2> DEFINE isp(r) == Has(ch[f], k, r)'
  <2> DEFINE c == page[OwnPage(card)].cluster
  <2> DEFINE at(r) == page[PageOf(ch[f], r)].cluster
  <2> DEFINE atp(r) == page'[PageOf(ch[f], r)].cluster
  <2>2. IF Done(k) THEN \E r \in 0 .. n - 1 : is(r) /\ at(r) = c /\ \A q \in 0 .. n - 1 : is(q) => q = r
        ELSE \A q \in 0 .. n - 1 : ~is(q)
    BY <1>1, <1>9, Zenon DEF NameOK
  <2>3. \A r \in 0 .. n - 1 : (isp(r) <=> is(r)) /\ (is(r) => atp(r) = at(r))
    BY <1>4, <1>9, Zenon
  <2>4. ~isp(n) /\ (Done(k)' <=> Done(k)) /\ page'[OwnPage(card)].cluster = c /\ FolderLength(card, f)' = n + 1
    BY <1>9, <2>1
  <2>5. \A r \in 0 .. n : r \in 0 .. n - 1 \/ r = n
    BY <1>1
  <2>6. \A r \in 0 .. n - 1 : r \in 0 .. n
    BY <1>1
  <2> DEFINE A == 0 .. n - 1
  <2> DEFINE B == 0 .. n
  <2>7. ~isp(n) /\ (\A r \in B : r \in A \/ r = n) /\ (\A r \in A : r \in B)
    BY <2>4, <2>5, <2>6
  <2>8. \A r \in A : (isp(r) <=> is(r)) /\ (is(r) => atp(r) = at(r))
    BY <2>3
  <2>9. Done(k) => \E r \in A : is(r) /\ at(r) = c /\ \A q \in A : is(q) => q = r
    BY <2>2
  <2>10. ~Done(k) => \A q \in A : ~is(q)
    BY <2>2
  <2> HIDE DEF is, isp, at, atp, c, A, B
  <2>11. ASSUME Done(k) PROVE \E r \in B : isp(r) /\ atp(r) = c /\ \A q \in B : isp(q) => q = r
    <3>1. PICK r \in A : is(r) /\ at(r) = c /\ \A q \in A : is(q) => q = r
      BY <2>9, <2>11, Zenon
    <3>2. r \in B /\ isp(r) /\ atp(r) = c
      BY <2>7, <2>8, <3>1, Zenon
    <3>3. \A q \in B : isp(q) => q = r
      BY <2>7, <2>8, <3>1, Zenon
    <3> QED
      BY <3>2, <3>3, Zenon
  <2>12. ASSUME ~Done(k) PROVE \A q \in B : ~isp(q)
    BY <2>7, <2>8, <2>10, <2>12, Zenon
  <2>l. PICK l : l = FolderLength(card, f)'
    OBVIOUS
  <2>13. l - 1 = n
    <3>1. l = n + 1
      BY <2>l, <2>4
    <3> QED
      BY <1>1, <3>1
  <2> HIDE DEF f
  <2>14. CASE Done(k)
    BY <2>4, <2>11, <2>13, <2>l, <2>14, Zenon DEF NameOK, OwnPage, PageOf, isp, atp, c, f, B
  <2>15. CASE ~Done(k)
    BY <2>4, <2>12, <2>13, <2>l, <2>15, Zenon DEF NameOK, isp, f, B
  <2> QED
    BY <2>14, <2>15
<1>10. CASE k = x
  <2>1. f = D /\ Done(k)' /\ ~Done(k) /\ Has(ch[f], k, n)'
    BY <1>6, <1>10
  <2>2. \A q \in 0 .. n - 1 : ~Has(ch[f], k, q)
    BY <1>1, <2>1, Zenon DEF NameOK
  <2>3. \A q \in 0 .. n - 1 : ~Has(ch[f], k, q)'
    BY <1>4, <2>1, <2>2, Zenon
  <2>4. \A q \in 0 .. n : q \in 0 .. n - 1 \/ q = n
    BY <1>1
  <2>5. n \in 0 .. n
    BY <1>1
  <2>6. \A q \in 0 .. n : Has(ch[f], k, q)' => q = n
    BY <2>3, <2>4, Zenon
  <2>7. FolderLength(card, f)' = n + 1 /\ page'[PageOf(ch[f], n)].cluster = page'[OwnPage(card)].cluster
    BY <1>7, <2>1
  <2>l. PICK l : l = FolderLength(card, f)'
    OBVIOUS
  <2>8. l - 1 = n
    <3>1. l = n + 1
      BY <2>l, <2>7
    <3> QED
      BY <1>1, <3>1
  <2> DEFINE c == page'[OwnPage(card)].cluster
  <2> DEFINE atp(r) == page'[PageOf(ch[f], r)].cluster
  <2> DEFINE isp(r) == Has(ch[f], k, r)'
  <2>9. isp(n) /\ atp(n) = c /\ \A q \in 0 .. n : isp(q) => q = n
    BY <2>1, <2>6, <2>7
  <2> HIDE DEF f, c, atp, isp
  <2>10. \E r \in 0 .. n : isp(r) /\ atp(r) = c /\ \A q \in 0 .. n : isp(q) => q = r
    BY <2>5, <2>9, Zenon
  <2> QED
    BY <2>1, <2>8, <2>l, <2>10, Zenon DEF NameOK, OwnPage, PageOf, isp, atp, c, f
<1> QED
  BY <1>8, <1>9, <1>10

LEMMA StepGrowFolder ==
  ASSUME NEW card \in Cards, NEW ch, Holds(card, ch), EInv, GrowFolder
  PROVE  Holds(card, ch)'
<1> DEFINE grown == [folder.entry EXCEPT !.length = @ + 1]
<1>0. /\ iop = "grow" /\ UNCHANGED <<fat, eeVars, batch, folder, target>>
      /\ \/ UpdateDirEntInformation(folder.place, grown) /\ NoFault /\ NextName(TRUE)
         \/ Fault /\ (UNCHANGED <<page, outside>> \/ UpdateDirEntInformation(folder.place, grown)) /\ NextName(FALSE)
  BY Zenon DEF GrowFolder, UpdateDirEntFails
<1>g. iop = "grow"
  BY <1>0
<1>d. PICK D \in FoldersOfAliases : D = Alias.dir
  <2>1. Alias.dir \in FoldersOfAliases
    BY <1>g, Creating, Zenon
  <2> QED
    BY <2>1
<1>1. /\ CardOK(card, ch) /\ TypesOK
      /\ i <= batch[2] /\ ~Deleting /\ i \in 1 .. N /\ Alias = FileAlias[i] /\ ee \in {"before_wait", "after_wait"}
      /\ faults \in Nat /\ faults \in 0 .. MaxFaults
      /\ Sound => SoundOK(card, ch) /\ i # Own /\ ~Done(i)
  BY <1>0, Creating, Zenon
<1>2. UpdateDirEntInformation(folder.place, grown) =>
        Grown(FolderPage(card, D)) /\ outside' = outside /\ page' \in [Clusters \X Slots -> Dirents]
  BY <1>0, <1>d, GrowWrites
<1> HIDE DEF grown
<1>3. iop' = "next" /\ i' = i + 1 /\ UNCHANGED <<ee, FileIndex>>
  BY <1>0 DEF NextName, eeVars
<1>4. CallOK(card)'
  BY <1>3, CallEnds
<1>5. CASE Fault /\ UNCHANGED <<page, outside>>
  <2>1. faults' = faults + 1 /\ faults' \in 0 .. MaxFaults
    BY <1>1, <1>5, Sizes DEF Fault
  <2>2. TypesOK' /\ ~Sound'
    BY <1>0, <1>1, <1>5, <2>1 DEF TypesOK, Sound
  <2>3. CardOK(card, ch)'
    BY <1>0, <1>1, <1>5, <2>2, CardKept
  <2> QED
    BY <1>4, <2>2, <2>3, Failed
<1>6. CASE UpdateDirEntInformation(folder.place, grown)
  <2>1. faults' \in 0 .. MaxFaults /\ faults' \in {faults, faults + 1} /\ (faults' = faults => NoFault /\ NextName(TRUE))
    <3>1. (NoFault /\ NextName(TRUE)) \/ Fault
      BY <1>0
    <3>2. faults' \in 0 .. MaxFaults /\ faults' \in {faults, faults + 1}
      <4>1. NoFault \/ Fault
        BY <3>1, Zenon
      <4> QED
        BY <1>1, <4>1, Sizes DEF NoFault, Fault
    <3>3. Fault => faults' # faults
      BY <1>1 DEF Fault
    <3> QED
      BY <3>1, <3>2, <3>3, Zenon
  <2>2. TypesOK'
    BY <1>0, <1>1, <1>2, <1>6, <2>1 DEF TypesOK
  <2>3. Grown(FolderPage(card, D)) /\ outside' = outside /\ fat' = fat
    BY <1>0, <1>2, <1>6
  <2>4. /\ CardOK(card, ch)' /\ page'[OwnPage(card)] = page[OwnPage(card)]
        /\ FolderLength(card, D)' = FolderLength(card, D) + 1
        /\ \A f \in FoldersOfAliases \ {D} : FolderLength(card, f)' = FolderLength(card, f)
        /\ \A f \in FoldersOfAliases : \A r \in Nat :
             r < Len(ch[f]) * PagesPerCluster => page'[PageOf(ch[f], r)] = page[PageOf(ch[f], r)]
    BY <1>1, <2>2, <2>3, GrownKeeps
  <2>5. ASSUME Sound' PROVE SoundOK(card, ch)'
    <3>1. SoundOK(card, ch) /\ i # Own /\ ~Done(i) /\ NoFault /\ NextName(TRUE)
      <4>1. Sound /\ faults' = faults
        BY <1>1, <2>1, <2>3, <2>5, Grows
      <4> QED
        BY <1>1, <2>1, <4>1, Zenon
    <3>2. CountOK'
      BY <1>0, <1>1, <3>1, CountNext, SoundParts
    <3>p. PICK n : n = FolderLength(card, D)
      OBVIOUS
    <3>3. /\ EndOK(D, ch[D]) /\ SizeOK(card, D, ch[D]) /\ n \in Nat /\ ch[D] \in Seq(Clusters) /\ Len(ch[D]) >= 1
          /\ n >= (Len(ch[D]) - 1) * PagesPerCluster /\ n < Len(ch[D]) * PagesPerCluster
          /\ page[PageOf(ch[D], n)] = [page[OwnPage(card)] EXCEPT !.name = Alias.name, !.live = TRUE]
      <4>1. EndOK(D, ch[D]) /\ SizeOK(card, D, ch[D]) /\ n \in Nat /\ ChainOK(card, D, ch[D])
        BY <1>1, <3>p, <3>1, SoundParts
      <4>2. Growing(D) /\ iop = "grow"
        BY <1>0, <1>d DEF Growing
      <4>3. /\ n >= (Len(ch[D]) - 1) * PagesPerCluster /\ n < Len(ch[D]) * PagesPerCluster
            /\ page[PageOf(ch[D], n)] = [page[OwnPage(card)] EXCEPT !.name = Alias.name, !.live = TRUE]
        BY <3>p, <4>1, <4>2, Zenon DEF SizeOK
      <4> QED
        BY <4>1, <4>3, FolderRun
    <3>4. ASSUME NEW d \in FoldersOfAliases PROVE EndOK(d, ch[d])' /\ SizeOK(card, d, ch[d])'
      <4>1. EndOK(d, ch[d]) /\ SizeOK(card, d, ch[d])
        BY <1>1, <3>1, SoundParts
      <4>2. ~Growing(d)' /\ iop # "mark" /\ iop' # "mark" /\ iop' # "allocate" /\ (Growing(d) => d = D)
        BY <1>0, <1>3, <1>d DEF Growing
      <4>3. EndOK(d, ch[d])'
        BY <2>3, <4>1, <4>2, Zenon DEF EndOK
      <4>4. CASE d # D
        <5>1. FolderLength(card, d)' = FolderLength(card, d)
          BY <2>4, <4>4
        <5> QED
          BY <4>1, <4>2, <4>3, <4>4, <5>1, SizeKept, Zenon
      <4>5. CASE d = D
        <5> DEFINE a == (Len(ch[D]) - 1) * PagesPerCluster
        <5> DEFINE b == Len(ch[D]) * PagesPerCluster
        <5>1. a \in Nat /\ b \in Nat
          <6>1. Len(ch[D]) - 1 \in Nat /\ Len(ch[D]) \in Nat
            BY <3>3
          <6> QED
            BY <6>1, InChain
        <5> HIDE DEF a, b
        <5>2. n + 1 > a /\ n + 1 <= b
          BY <3>3, <5>1 DEF a, b
        <5>l. PICK l : l = FolderLength(card, d)'
          OBVIOUS
        <5>3. l = n + 1
          BY <2>4, <3>p, <4>5, <5>l
        <5>4. l > (Len(ch[d]) - 1) * PagesPerCluster /\ l <= Len(ch[d]) * PagesPerCluster
          BY <4>5, <5>2, <5>3, Zenon DEF a, b
        <5> QED
          BY <4>2, <4>3, <5>l, <5>4, Zenon DEF SizeOK
      <4> QED
        BY <4>4, <4>5
    <3>5. ASSUME NEW k \in 1 .. N PROVE NameOK(card, ch, k)'
      <4>2. PICK x \in 1 .. N : x = i
        BY <1>1
      <4>1. Done(x)' /\ (k # x => (Done(k)' <=> Done(k)))
        <5>1. ee' = ee /\ i \in Int /\ i' = i + 1 /\ ee \in {"before_wait", "after_wait"}
          BY <1>1, <1>3
        <5> QED
          BY <4>2, <5>1 DEF Done
      <4>3. D = FileAlias[x].dir /\ Alias.name = FileAlias[x].name /\ ~Done(x) /\ Done(x)' /\ (k # x => (Done(k)' <=> Done(k)))
        BY <1>1, <1>d, <3>1, <4>1, <4>2
      <4>4. Has(ch[D], x, n) /\ page[PageOf(ch[D], n)].cluster = page[OwnPage(card)].cluster
        <5> DEFINE old == page[OwnPage(card)]
        <5> DEFINE new == page[PageOf(ch[D], n)]
        <5>1. old \in Dirents /\ new = [old EXCEPT !.name = FileAlias[x].name, !.live = TRUE]
          BY <1>1, <3>3, <4>3, OwnIs DEF TypesOK
        <5> HIDE DEF old, new
        <5>2. new.live /\ new.name = FileAlias[x].name /\ new.cluster = old.cluster
          BY <5>1 DEF Dirents
        <5> QED
          BY <5>2, Zenon DEF Has, new, old
      <4>5. FolderLength(card, D)' = n + 1 /\ n < Len(ch[D]) * PagesPerCluster
        BY <2>4, <3>p, <3>3
      <4> QED
        <5>1. /\ CardOK(card, ch) /\ SoundOK(card, ch) /\ D = FileAlias[x].dir /\ n = FolderLength(card, D)
              /\ n < Len(ch[D]) * PagesPerCluster /\ FolderLength(card, D)' = n + 1 /\ page'[OwnPage(card)] = page[OwnPage(card)]
              /\ ~Done(x) /\ Done(x)' /\ (k # x => (Done(k)' <=> Done(k)))
          BY <1>1, <2>4, <3>p, <3>1, <4>3, <4>5, Zenon
        <5>2. /\ \A f \in FoldersOfAliases \ {D} : FolderLength(card, f)' = FolderLength(card, f)
              /\ \A f \in FoldersOfAliases : \A r \in Nat :
                   r < Len(ch[f]) * PagesPerCluster => page'[PageOf(ch[f], r)] = page[PageOf(ch[f], r)]
          BY <2>4, Zenon
        <5> QED
          BY <4>4, <5>1, <5>2, NewRecord, Zenon
    <3>6. \A d, e \in FoldersOfAliases : d # e => Disjoint(ch[d], ch[e])
      BY <1>1, <3>1, SoundParts
    <3> QED
      BY <3>2, <3>4, <3>5, <3>6, AliasNames, Zenon DEF SoundOK, Disjoint
  <2> QED
    BY <1>4, <2>4, <2>5, Zenon DEF Holds
<1> QED
  BY <1>0, <1>5, <1>6

-----------------------------------------------------------------------------
(* DeleteVirtualDirent. *)

LEMMA Killed ==
  ASSUME NEW e \in Dirents
  PROVE  LET g == [e EXCEPT !.live = FALSE] IN g \in Dirents /\ ~g.live
  BY DEF Dirents

LEMMA DeletedName ==
  ASSUME NEW x \in 1 .. N, NEW k \in 1 .. N, x # Own, Listed(x) = i, ee = "delete_wait", ee' = ee, i' = i, iop # "reread", iop' = "reread"
  PROVE  Done(x) /\ ~Done(x)' /\ (k # x => (Done(k)' <=> Done(k)))
<1>1. i \in Int /\ Listed(k) \in Int /\ Listed(k)' = Listed(k) /\ Listed(x)' = Listed(x) /\ (k # Own /\ k # x => Listed(k) # i)
  BY Sizes DEF Listed
<1>2. Done(x) /\ ~Done(x)'
  BY <1>1 DEF Done
<1>3. (Done(k) <=> k = Own \/ Listed(k) > i \/ Listed(k) = i) /\ (Done(k)' <=> k = Own \/ Listed(k) > i)
  BY <1>1 DEF Done
<1> QED
  BY <1>1, <1>2, <1>3

LEMMA FoundRecord ==
  ASSUME NEW card \in Cards, NEW ch, CardOK(card, ch), NEW x \in 1 .. N, x # Own, NEW D, D = FileAlias[x].dir,
         FindFile(FileAlias[x]).result = "found"
  PROVE  \E r \in Nat : /\ r < FolderLength(card, D) /\ r < Len(ch[D]) * PagesPerCluster /\ FindFile(FileAlias[x]).place = PlaceIn(ch[D], r)
                        /\ Has(ch[D], x, r) /\ (D # Home \/ r # card.executable)
<1>1. D \in FoldersOfAliases /\ FileAlias[x] \in [dir : FoldersOfAliases, name : Names]
  BY AliasNames
<1>2. TypesOK /\ RootOK(card) /\ ChainOK(card, D, ch[D]) /\ page[OwnPage(card)] = card.page[OwnPage(card)]
  BY <1>1, Zenon DEF CardOK
<1>3. PICK r \in Nat : /\ r < FolderLength(card, D) /\ r < Len(ch[D]) * PagesPerCluster /\ FindFile(FileAlias[x]).place = PlaceIn(ch[D], r)
                       /\ page[PageOf(ch[D], r)].live /\ page[PageOf(ch[D], r)].name = FileAlias[x].name
  <2> DEFINE s == ch[D]
  <2>1. ChainOK(card, FileAlias[x].dir, s)
    BY <1>2
  <2>2. \E r \in Nat : /\ r < FolderLength(card, FileAlias[x].dir) /\ r < Len(s) * PagesPerCluster /\ FindFile(FileAlias[x]).place = PlaceIn(s, r)
                       /\ page[PageOf(s, r)].live /\ page[PageOf(s, r)].name = FileAlias[x].name
    <3> HIDE DEF s
    <3> QED
      BY <1>1, <1>2, <2>1, FileFound, Zenon
  <2> QED
    BY <2>2, Zenon
<1>4. Has(ch[D], x, r)
  BY <1>3, Zenon DEF Has
<1>5. ASSUME D = Home, r = card.executable PROVE FALSE
  <2>1. PageOf(ch[D], r) = OwnPage(card)
    BY <1>1, <1>2, <1>5, OwnIs, OldPage, SMTT(30) DEF OwnPage
  <2>2. FileAlias[x].name = FileAlias[Own].name /\ FileAlias[x].dir = FileAlias[Own].dir /\ Own \in 1 .. N
    <3>1. Own \in 1 .. N /\ card.page[OwnPage(card)].name = FileAlias[Own].name
      BY OwnIs
    <3>2. page[OwnPage(card)].name = FileAlias[x].name
      BY <1>3, <2>1, Zenon
    <3> QED
      BY <1>2, <1>5, <3>1, <3>2, Zenon DEF Home
  <2> QED
    BY <2>2, Apart
<1> QED
  BY <1>3, <1>4, <1>5

(* The entry is no longer there; what other names have is as before. *)
LEMMA EntryGone ==
  ASSUME NEW card \in Cards, NEW ch, CardOK(card, ch), SoundOK(card, ch), NEW x \in 1 .. N, NEW D, D = FileAlias[x].dir,
         NEW w \in Nat, w < FolderLength(card, D), w < Len(ch[D]) * PagesPerCluster, Has(ch[D], x, w), NEW e, ~e.live, Wrote(ch[D], w, e),
         \A f \in FoldersOfAliases : page'[FolderPage(card, f)] = page[FolderPage(card, f)],
         page'[OwnPage(card)] = page[OwnPage(card)],
         Done(x), ~Done(x)', NEW k \in 1 .. N, k # x => (Done(k)' <=> Done(k))
  PROVE  NameOK(card, ch, k)'
<1> DEFINE f == FileAlias[k].dir
<1>1. f \in FoldersOfAliases /\ D \in FoldersOfAliases /\ NameOK(card, ch, k) /\ NameOK(card, ch, x)
  BY AliasNames, SoundParts
<1>2. FolderLength(card, f)' = FolderLength(card, f)
  BY <1>1, Zenon DEF FolderLength, FolderPage, PageOf
<1>3. ASSUME NEW r \in 0 .. FolderLength(card, f) - 1, f # D \/ r # w
      PROVE  page'[PageOf(ch[f], r)] = page[PageOf(ch[f], r)] /\ (Has(ch[f], k, r)' <=> Has(ch[f], k, r))
  BY <1>1, <1>3, OtherRecords, Zenon
<1>4. ~Has(ch[D], k, w)'
  <2>1. page'[PageOf(ch[D], w)] = e
    BY <1>1, ThisRecord, Zenon
  <2> QED
    BY <2>1, HasNow, Zenon
<1>5. CASE k # x
  <2>1. ASSUME NEW r \in 0 .. FolderLength(card, f) - 1
        PROVE  /\ Has(ch[f], k, r)' <=> Has(ch[f], k, r)
               /\ Has(ch[f], k, r) => page'[PageOf(ch[f], r)].cluster = page[PageOf(ch[f], r)].cluster
    <3>1. CASE f # D \/ r # w
      BY <1>3, <3>1, Zenon
    <3>2. CASE f = D /\ r = w
      <4>1. FileAlias[k].name # FileAlias[x].name
        BY <1>5, <3>2, Apart
      <4>2. ~Has(ch[f], k, r)
        BY <3>2, <4>1, Zenon DEF Has
      <4> QED
        BY <1>4, <3>2, <4>2, Zenon
    <3> QED
      BY <3>1, <3>2, Zenon
  <2> QED
    BY <1>1, <1>2, <1>5, <2>1, NameKept, Zenon
<1>6. CASE k = x
  <2>1. f = D
    BY <1>6
  <2>2. w \in 0 .. FolderLength(card, D) - 1
    BY <1>1, SoundParts
  <2>3. \A q \in 0 .. FolderLength(card, f) - 1 : Has(ch[f], k, q) => q = w
    BY <1>1, <1>6, <2>1, <2>2, Zenon DEF NameOK
  <2>4. \A q \in 0 .. FolderLength(card, f) - 1 : ~Has(ch[f], k, q)'
    BY <1>3, <1>4, <2>1, <2>3, Zenon
  <2>5. ~Done(k)'
    BY <1>6
  <2>l. PICK l : l = FolderLength(card, f)
    OBVIOUS
  <2>6. l = FolderLength(card, f)' /\ \A q \in 0 .. l - 1 : ~Has(ch[f], k, q)'
    BY <1>2, <2>l, <2>4, Zenon
  <2> HIDE DEF f
  <2> QED
    BY <2>5, <2>6, Zenon DEF NameOK, f
<1> QED
  BY <1>5, <1>6

LEMMA StepDeleteEntry ==
  ASSUME NEW card \in Cards, NEW ch, Holds(card, ch), EInv, DeleteEntry
  PROVE  Holds(card, ch)'
<1>g. iop = "next" /\ i <= batch[2] /\ Deleting /\ UNCHANGED <<fat, eeVars, batch, folder, target>>
  BY DEF DeleteEntry
<1>1. CardOK(card, ch) /\ TypesOK /\ (Sound => SoundOK(card, ch)) /\ page \in [Clusters \X Slots -> Dirents]
      /\ faults \in Nat /\ faults \in 0 .. MaxFaults /\ \A d \in FoldersOfAliases : ChainOK(card, d, ch[d])
  <2>1. CardOK(card, ch) /\ TypesOK /\ (Sound => SoundOK(card, ch)) /\ page \in [Clusters \X Slots -> Dirents]
        /\ faults \in 0 .. MaxFaults /\ \A d \in FoldersOfAliases : ChainOK(card, d, ch[d])
    BY Zenon DEF Holds, CardOK, TypesOK
  <2>2. faults \in Nat
    BY <2>1, Sizes
  <2> QED
    BY <2>1, <2>2, Zenon
<1>2. PICK x \in 1 .. N : Alias = FileAlias[x] /\ x # Own /\ Listed(x) = i
  BY <1>g, AliasIs
<1>3. ee = "delete_wait" /\ i \in 1 .. N /\ iop # "idle" /\ UNCHANGED <<ee, FileIndex>>
  BY <1>g, AliasIs DEF eeVars
<1>4. PICK D \in FoldersOfAliases : D = FileAlias[x].dir
  BY AliasNames
<1> DEFINE at == FindFile(FileAlias[x]).place
<1> DEFINE gone == [Entry(at) EXCEPT !.live = FALSE]
<1> DEFINE exists == FindFile(FileAlias[x]).result = "found"
<1>5. \/ exists /\ NoFault /\ UpdateDirEntInformation(at, gone) /\ iop' = "reread" /\ UNCHANGED <<i, count>>
      \/ exists /\ Fault /\ (UNCHANGED <<page, outside>> \/ UpdateDirEntInformation(at, gone)) /\ NextName(FALSE)
      \/ ~exists /\ NoFault /\ UNCHANGED <<page, outside>> /\ NextName(FALSE)
  <2>1. LET found == FindFile(FileAlias[x])
            dead  == [Entry(found.place) EXCEPT !.live = FALSE]
        IN \/ found.result = "found" /\ NoFault /\ UpdateDirEntInformation(found.place, dead) /\ iop' = "reread" /\ UNCHANGED <<i, count>>
           \/ (IF found.result = "found" THEN UpdateDirEntFails(found.place, dead) ELSE NoFault /\ UNCHANGED <<page, outside>>)
              /\ NextName(FALSE)
    BY <1>2, Zenon DEF DeleteEntry
  <2> QED
    BY <2>1, Zenon DEF UpdateDirEntFails
<1>6. ASSUME exists
      PROVE  \E r \in Nat, e \in Dirents :
               /\ r < FolderLength(card, D) /\ r < Len(ch[D]) * PagesPerCluster /\ Has(ch[D], x, r) /\ (D # Home \/ r # card.executable)
               /\ at = PlaceIn(ch[D], r) /\ e = gone /\ ~e.live
  <2>1. PICK r \in Nat : /\ r < FolderLength(card, D) /\ r < Len(ch[D]) * PagesPerCluster /\ at = PlaceIn(ch[D], r)
                         /\ Has(ch[D], x, r) /\ (D # Home \/ r # card.executable)
    <3>1. CardOK(card, ch) /\ x # Own /\ D = FileAlias[x].dir /\ FindFile(FileAlias[x]).result = "found"
      BY <1>1, <1>2, <1>4, <1>6, Zenon
    <3>2. \E r \in Nat : /\ r < FolderLength(card, D) /\ r < Len(ch[D]) * PagesPerCluster /\ at = PlaceIn(ch[D], r)
                         /\ Has(ch[D], x, r) /\ (D # Home \/ r # card.executable)
      BY <3>1, FoundRecord
    <3> QED
      BY <3>2, Zenon
  <2>2. Entry(at) = page[PageOf(ch[D], r)]
    BY <2>1 DEF Entry, PlaceIn, PageOf
  <2>3. ch[D] \in Seq(Clusters)
    BY <1>1, FolderRun
  <2>4. page[PageOf(ch[D], r)] \in Dirents
    BY <1>1, <2>1, <2>3, PageIn
  <2> HIDE DEF at
  <2>5. gone \in Dirents /\ ~gone.live
    BY <2>2, <2>4, Killed
  <2> HIDE DEF gone
  <2> QED
    BY <2>1, <2>5, Zenon
<1> HIDE DEF at, gone, exists
<1>7. ASSUME exists, UpdateDirEntInformation(at, gone), faults' \in 0 .. MaxFaults
      PROVE  /\ CardOK(card, ch)' /\ outside' = outside
             /\ \E r \in Nat, e \in Dirents :
                  /\ r < FolderLength(card, D) /\ r < Len(ch[D]) * PagesPerCluster /\ Has(ch[D], x, r) /\ ~e.live /\ Wrote(ch[D], r, e)
             /\ \A f \in FoldersOfAliases : page'[FolderPage(card, f)] = page[FolderPage(card, f)]
             /\ page'[OwnPage(card)] = page[OwnPage(card)]
  <2>1. PICK r \in Nat, e \in Dirents :
               /\ r < FolderLength(card, D) /\ r < Len(ch[D]) * PagesPerCluster /\ Has(ch[D], x, r) /\ (D # Home \/ r # card.executable)
               /\ at = PlaceIn(ch[D], r) /\ e = gone /\ ~e.live
    BY <1>6, <1>7, Zenon
  <2> DEFINE s == ch[D]
  <2>2. s \in Seq(Clusters) /\ r < Len(s) * PagesPerCluster /\ UpdateDirEntInformation(PlaceIn(s, r), e)
    <3>1. s \in Seq(Clusters)
      BY <1>1, FolderRun
    <3>2. UpdateDirEntInformation(PlaceIn(s, r), e)
      BY <1>7, <2>1, Zenon
    <3> QED
      BY <2>1, <3>1, <3>2
  <2> HIDE DEF s
  <2>3. Wrote(s, r, e) /\ page' \in [Clusters \X Slots -> Dirents] /\ outside' = outside
    BY <1>1, <2>2, Written
  <2>4. TypesOK'
    BY <1>g, <1>1, <1>7, <2>3 DEF TypesOK
  <2>5. Wrote(ch[D], r, e) /\ fat' = fat
    BY <1>g, <2>3 DEF s
  <2>6. CardOK(card, ch)' /\ (\A f \in FoldersOfAliases : page'[FolderPage(card, f)] = page[FolderPage(card, f)])
        /\ page'[OwnPage(card)] = page[OwnPage(card)]
    <3>1. r < Len(ch[D]) * PagesPerCluster /\ (D # Home \/ r # card.executable)
      BY <2>1, Zenon
    <3> QED
      BY <1>1, <2>4, <2>5, <3>1, RecordKept
  <2> QED
    BY <2>1, <2>3, <2>5, <2>6, Zenon
<1>8. CASE exists /\ NoFault /\ UpdateDirEntInformation(at, gone) /\ iop' = "reread" /\ UNCHANGED <<i, count>>
  <2>1. faults' = faults /\ i' = i /\ count' = count /\ iop' = "reread" /\ faults' \in 0 .. MaxFaults
    BY <1>1, <1>8 DEF NoFault
  <2>2. /\ CardOK(card, ch)' /\ outside' = outside
        /\ \E r \in Nat, e \in Dirents :
             /\ r < FolderLength(card, D) /\ r < Len(ch[D]) * PagesPerCluster /\ Has(ch[D], x, r) /\ ~e.live /\ Wrote(ch[D], r, e)
        /\ \A f \in FoldersOfAliases : page'[FolderPage(card, f)] = page[FolderPage(card, f)]
        /\ page'[OwnPage(card)] = page[OwnPage(card)]
    BY <1>7, <1>8, <2>1, Zenon
  <2>3. PICK r \in Nat, e \in Dirents :
          r < FolderLength(card, D) /\ r < Len(ch[D]) * PagesPerCluster /\ Has(ch[D], x, r) /\ ~e.live /\ Wrote(ch[D], r, e)
    BY <2>2, Zenon
  <2>4. CallOK(card)'
    BY <2>1, CallEnds
  <2>5. ASSUME Sound' PROVE SoundOK(card, ch)'
    <3>1. Sound /\ SoundOK(card, ch)
      <4>1. Sound
        BY <2>1, <2>2, <2>5, Zenon DEF Sound
      <4> QED
        BY <1>1, <4>1, Zenon
    <3>2. CountOK'
      <4>1. CountOK
        BY <1>1, <3>1, SoundParts
      <4> QED
        BY <1>g, <2>1, <4>1, CountStays
    <3>3. ASSUME NEW d \in FoldersOfAliases PROVE EndOK(d, ch[d])' /\ SizeOK(card, d, ch[d])'
      <4>1. EndOK(d, ch[d]) /\ SizeOK(card, d, ch[d])
        BY <1>1, <3>1, SoundParts
      <4>2. ~Growing(d) /\ ~Growing(d)' /\ iop # "mark" /\ iop' # "mark" /\ iop' # "allocate" /\ fat' = fat
        BY <1>g, <2>1 DEF Growing
      <4>3. FolderLength(card, d)' = FolderLength(card, d)
        BY <2>2, Zenon DEF FolderLength, FolderPage, PageOf
      <4>4. EndOK(d, ch[d])'
        BY <4>1, <4>2, Zenon DEF EndOK
      <4> QED
        BY <4>1, <4>2, <4>3, <4>4, SizeKept, Zenon
    <3>4. ASSUME NEW k \in 1 .. N PROVE NameOK(card, ch, k)'
      <4>1. Done(x) /\ ~Done(x)' /\ (k # x => (Done(k)' <=> Done(k)))
        BY <1>g, <1>2, <1>3, <2>1, DeletedName
      <4> QED
        BY <1>1, <1>4, <2>2, <2>3, <3>1, <4>1, EntryGone, Zenon
    <3>5. \A d, e2 \in FoldersOfAliases : d # e2 => Disjoint(ch[d], ch[e2])
      BY <1>1, <3>1, SoundParts
    <3> QED
      BY <3>2, <3>3, <3>4, <3>5, AliasNames, Zenon DEF SoundOK, Disjoint
  <2> QED
    BY <2>2, <2>4, <2>5, Zenon DEF Holds
<1>9. CASE exists /\ Fault /\ (UNCHANGED <<page, outside>> \/ UpdateDirEntInformation(at, gone)) /\ NextName(FALSE)
  <2>1. faults' = faults + 1 /\ faults' \in 0 .. MaxFaults /\ iop' = "next"
    BY <1>1, <1>9, Sizes DEF Fault, NextName
  <2>2. ~Sound' /\ CallOK(card)'
    BY <1>1, <2>1, CallEnds DEF Sound
  <2>3. CASE UNCHANGED <<page, outside>>
    <3>1. TypesOK'
      BY <1>g, <1>1, <2>1, <2>3 DEF TypesOK
    <3>2. CardOK(card, ch)'
      BY <1>g, <1>1, <2>3, <3>1, CardKept
    <3> QED
      BY <2>2, <3>2, Failed
  <2>4. CASE UpdateDirEntInformation(at, gone)
    <3>1. CardOK(card, ch)'
      BY <1>7, <1>9, <2>1, <2>4, Zenon
    <3> QED
      BY <2>2, <3>1, Failed
  <2> QED
    BY <1>9, <2>3, <2>4, Zenon
<1>10. CASE ~exists /\ NoFault /\ UNCHANGED <<page, outside>> /\ NextName(FALSE)
  <2>1. faults' = faults /\ iop' = "next" /\ UNCHANGED <<page, outside>>
    BY <1>10 DEF NoFault, NextName
  <2>2. TypesOK' /\ CallOK(card)'
    BY <1>g, <1>1, <2>1, CallEnds DEF TypesOK
  <2>3. CardOK(card, ch)'
    BY <1>g, <1>1, <2>1, <2>2, CardKept
  <2>4. ~Sound'
    <3>1. ASSUME Sound' PROVE FALSE
      <4>1. SoundOK(card, ch)
        BY <1>1, <2>1, <3>1, Zenon DEF Sound
      <4>2. Done(x)
        BY <1>g, <1>2, <1>3 DEF Done
      <4>3. FindFile(FileAlias[x]).result = "found"
        BY <1>1, <4>1, <4>2, VisibleIs, Zenon
      <4> QED
        BY <1>10, <4>3 DEF exists
    <3> QED
      BY <3>1
  <2> QED
    BY <2>2, <2>3, <2>4, Failed
<1> QED
  BY <1>5, <1>8, <1>9, <1>10, Zenon

-----------------------------------------------------------------------------
(* The invariant. *)

LEMMA StepNothing ==
  ASSUME NEW card \in Cards, NEW ch, Holds(card, ch), UNCHANGED vars
  PROVE  Holds(card, ch)'
<1>1. UNCHANGED <<fat, page, outside, faults>> /\ UNCHANGED <<ee, FileIndex, NumFiles, result>>
      /\ UNCHANGED <<iop, batch, i, count, folder, target>>
  BY DEF vars, fsVars, eeVars, iopVars
<1>2. CardOK(card, ch) /\ CallOK(card) /\ TypesOK /\ (Sound => SoundOK(card, ch))
  BY Zenon DEF Holds, CardOK
<1>3. TypesOK'
  BY <1>1, <1>2 DEF TypesOK
<1>4. CardOK(card, ch)'
  BY <1>1, <1>2, <1>3, CardKept
<1>5. Alias' = Alias /\ \A k \in 1 .. N : Done(k)' <=> Done(k)
  BY <1>1 DEF Alias, Deleting, Done, Listed
<1>6. CallOK(card)'
  BY <1>1, <1>2, <1>5, Zenon DEF CallOK, FolderPage, PageOf, Spare
<1>7. ASSUME Sound' PROVE SoundOK(card, ch)'
  <2>1. SoundOK(card, ch)
    BY <1>1, <1>2, <1>7, Zenon DEF Sound
  <2>2. CountOK'
    BY <1>1, <2>1, Zenon DEF SoundOK, CountOK
  <2>3. ASSUME NEW d \in FoldersOfAliases PROVE EndOK(d, ch[d])' /\ SizeOK(card, d, ch[d])'
    <3>1. EndOK(d, ch[d]) /\ SizeOK(card, d, ch[d])
      BY <1>2, <2>1, SoundParts
    <3> QED
      BY <1>1, <1>5, <3>1, Zenon DEF EndOK, SizeOK, Growing, FolderLength, FolderPage, OwnPage, PageOf
  <2>4. ASSUME NEW k \in 1 .. N PROVE NameOK(card, ch, k)'
    <3>1. NameOK(card, ch, k)
      BY <1>2, <2>1, SoundParts
    <3> QED
      BY <1>1, <1>5, <3>1, Zenon DEF NameOK, Has, FolderLength, FolderPage, OwnPage, PageOf
  <2>5. \A d, e \in FoldersOfAliases : d # e => Disjoint(ch[d], ch[e])
    BY <1>2, <2>1, SoundParts
  <2> QED
    BY <2>2, <2>3, <2>4, <2>5, AliasNames, Zenon DEF SoundOK, Disjoint
<1> QED
  BY <1>4, <1>6, <1>7, Zenon DEF Holds

LEMMA IStep == ASSUME EInv, IInv, [Next]_vars PROVE IInv'
<1>1. PICK card \in Cards, ch \in [FoldersOfAliases -> Seq(Clusters)] : Holds(card, ch)
  BY Zenon DEF IInv
<1>2. SUFFICES \E nch \in [FoldersOfAliases -> Seq(Clusters)] : Holds(card, nch)'
  BY Zenon DEF IInv
<1>3. CASE EENext
  BY <1>1, <1>3, StepEE
<1>4. CASE EndCall
  BY <1>1, <1>4, StepEndCall
<1>5. CASE CallFails
  BY <1>1, <1>5, StepCallFails
<1>6. CASE ReadFolder
  BY <1>1, <1>6, StepReadFolder
<1>7. CASE FillFreePage
  BY <1>1, <1>7, StepFillFreePage
<1>8. CASE AddFATRecord
  BY <1>1, <1>8, StepAddFATRecord
<1>9. CASE MarkNewCluster
  BY <1>1, <1>9, StepMarkNewCluster
<1>10. CASE PlaceEntry
  BY <1>1, <1>10, StepPlaceEntry
<1>11. CASE GrowFolder
  BY <1>1, <1>11, StepGrowFolder
<1>12. CASE DeleteEntry
  BY <1>1, <1>12, StepDeleteEntry
<1>13. CASE RereadFolder
  BY <1>1, <1>13, StepRereadFolder
<1>14. CASE UNCHANGED vars
  BY <1>1, <1>14, StepNothing
<1> QED
  BY <1>3, <1>4, <1>5, <1>6, <1>7, <1>8, <1>9, <1>10, <1>11, <1>12, <1>13, <1>14 DEF Next, IOPNext

LEMMA IAlways == Spec => []IInv
<1>1. Init => IInv
  BY IInit
<1>2. IInv /\ EInv /\ [Next]_vars => IInv'
  BY IStep
<1> QED
  BY <1>1, <1>2, EAlways, PTL DEF Spec

(* Types: whatever fails, no write misses the card but into the clusters before its data area, no call goes past its batch. *)
THEOREM TypesAlways == Spec => []TypeOK
<1>1. EInv /\ IInv => TypeOK
  BY TypesFollow
<1> QED
  BY <1>1, EAlways, IAlways, PTL

(* CreateNewVirtualDirent: chains end on the card, belong to one folder, and are as long as its records need. *)
THEOREM ChainsAlways == Spec => []ChainsOK
<1>1. EInv /\ IInv => ChainsOK
  BY ChainsFollow
<1> QED
  BY <1>1, EAlways, IAlways, PTL

(* CreateCrossLinkedFiles: every name is found in the end, with the clusters of the executable. *)
THEOREM CreatedAlways == Spec => []AllCreated
<1>1. EInv /\ IInv => AllCreated
  BY NamesFollow
<1> QED
  BY <1>1, EAlways, IAlways, PTL

(* CleanupMultiInstallation: no name but the executable's is found in the end. *)
THEOREM DeletedAlways == Spec => []AllDeleted
<1>1. EInv /\ IInv => AllDeleted
  BY NamesFollow
<1> QED
  BY <1>1, EAlways, IAlways, PTL

-----------------------------------------------------------------------------
(* What a step writes.  A record of a folder is written behind the folder's records, or where an entry is
   deleted, or where the name that is being deleted is; a new cluster is written on its first page. *)
Free(card, s, d, w) == w >= FolderLength(card, d) \/ ~page[PageOf(s, w)].live

WritesRecord(card, ch) ==
  \E d \in FoldersOfAliases, w \in Nat : \E e :
    /\ w < Len(ch[d]) * PagesPerCluster /\ Wrote(ch[d], w, e)
    /\ \/ Free(card, ch[d], d, w)
       \/ Deleting /\ \E x \in 1 .. N : Alias = FileAlias[x] /\ d = FileAlias[x].dir /\ Has(ch[d], x, w)

WritesCluster(card) ==
  iop = "place" /\ \E t \in Spare(card) : \E e : t = target /\ page' = [page EXCEPT ![<<t, 0>>] = e]

WritesFolder(card) == \E d \in FoldersOfAliases : d = Alias.dir /\ iop = "grow" /\ Grown(FolderPage(card, d))

LEMMA WroteAt ==
  ASSUME NEW s \in Seq(Clusters), NEW w \in Nat, w < Len(s) * PagesPerCluster, NEW e, UpdateDirEntInformation(PlaceIn(s, w), e)
  PROVE  Wrote(s, w, e)
<1>1. PageOf(s, w) \in Clusters \X Slots /\ s[w \div PagesPerCluster + 1] \in Clusters
  BY PageIn
<1>2. PlaceIn(s, w).cluster = s[w \div PagesPerCluster + 1] /\ PageOf(s, w) = <<PlaceIn(s, w).cluster, PlaceIn(s, w).slot>>
  BY DEF PlaceIn, PageOf
<1>3. PlaceIn(s, w).cluster >= 0
  BY <1>1, <1>2, Sizes DEF Clusters
<1>4. page' = [page EXCEPT ![PageOf(s, w)] = e]
  BY <1>2, <1>3, Zenon DEF UpdateDirEntInformation
<1> QED
  BY <1>4 DEF Wrote

LEMMA FillWrites ==
  ASSUME NEW card \in Cards, NEW ch, Holds(card, ch), EInv, FillFreePage
  PROVE  /\ page' = page \/ WritesRecord(card, ch)
         /\ iop' = "grow" => FolderLength(card, Alias.dir) < Len(ch[Alias.dir]) * PagesPerCluster
<1>1. iop = "free_page"
  BY DEF FillFreePage
<1>2. PICK D \in FoldersOfAliases : D = Alias.dir
  BY <1>1, Creating
<1>3. TypesOK /\ RootOK(card) /\ ChainOK(card, D, ch[D])
  BY <1>1, <1>2, Creating
<1>4. ch[D] \in Seq(Clusters)
  BY <1>3, FolderRun
<1>5. FolderLength(card, D) \in Nat
  BY <1>3, LengthIs
<1>6. /\ FreePage(D).result \in {"found", "unused", "ENOENT"}
      /\ FreePage(D).result = "found" =>
           \E r \in Nat : /\ r < FolderLength(card, D) /\ r < Len(ch[D]) * PagesPerCluster /\ FreePage(D).place = PlaceIn(ch[D], r)
                          /\ ~page[PageOf(ch[D], r)].live
      /\ FreePage(D).result = "unused" => /\ FolderLength(card, D) < Len(ch[D]) * PagesPerCluster
                                          /\ FreePage(D).place = PlaceIn(ch[D], FolderLength(card, D))
  BY <1>3, FreeFound
<1>7. \/ FreePage(D).result = "found" /\ UpdateDirEntInformation(FreePage(D).place, NewDirEnt) /\ iop' # "grow"
      \/ FreePage(D).result = "unused" /\ UpdateDirEntInformation(FreePage(D).place, NewDirEnt) /\ iop' = "grow"
      \/ /\ page' = page \/ (FreePage(D).result # "ENOENT" /\ UpdateDirEntInformation(FreePage(D).place, NewDirEnt))
         /\ iop' # "grow"
  BY <1>2 DEF FillFreePage, UpdateDirEntFails, NextName
<1>8. ASSUME FreePage(D).result # "ENOENT", UpdateDirEntInformation(FreePage(D).place, NewDirEnt)
      PROVE  WritesRecord(card, ch)
  <2>1. \E r \in Nat : r < Len(ch[D]) * PagesPerCluster /\ FreePage(D).place = PlaceIn(ch[D], r) /\ Free(card, ch[D], D, r)
    <3>1. CASE FreePage(D).result = "found"
      BY <1>6, <3>1, Zenon DEF Free
    <3>2. CASE FreePage(D).result = "unused"
      <4>1. FolderLength(card, D) >= FolderLength(card, D)
        BY <1>5
      <4> QED
        BY <1>5, <1>6, <3>2, <4>1, Zenon DEF Free
    <3> QED
      BY <1>6, <1>8, <3>1, <3>2
  <2>2. PICK r \in Nat : r < Len(ch[D]) * PagesPerCluster /\ FreePage(D).place = PlaceIn(ch[D], r) /\ Free(card, ch[D], D, r)
    BY <2>1, Zenon
  <2>3. PICK e : e = NewDirEnt
    OBVIOUS
  <2>4. Wrote(ch[D], r, e)
    BY <1>4, <1>8, <2>2, <2>3, WroteAt
  <2> QED
    BY <2>2, <2>4, Zenon DEF WritesRecord
<1> QED
  BY <1>2, <1>6, <1>7, <1>8, Zenon

LEMMA PlaceWrites ==
  ASSUME NEW card \in Cards, NEW ch, Holds(card, ch), EInv, PlaceEntry
  PROVE  /\ page' = page \/ WritesCluster(card)
         /\ target \in {-EINVAL, -1} \cup Spare(card) /\ target # 0
         /\ target < 0 => page' = page /\ (outside' # {} \/ (Fault /\ iop' = "next"))
<1>1. iop = "place"
  BY DEF PlaceEntry
<1>2. CallOK(card)
  BY <1>1, Creating
<1>3. target \in {-EINVAL, -1} \cup Spare(card)
  BY <1>1, <1>2 DEF CallOK
<1>4. target # 0
  <2>1. \A t \in Spare(card) : t # 0
    BY SpareIs
  <2> QED
    BY <1>3, <2>1, Sizes
<1>5. \/ UpdateDirEntInformation(FirstPage(target), NewDirEnt)
      \/ Fault /\ page' = page /\ iop' = "next"
  BY <1>4 DEF PlaceEntry, UpdateDirEntFails, NextName
<1>6. CASE target < 0
  <2>1. UpdateDirEntInformation(FirstPage(target), NewDirEnt) => page' = page /\ outside' # {}
    <3>1. FirstPage(target).cluster = target /\ ~(target >= 0)
      <4>1. target \in Int
        BY <1>3, Sizes DEF Spare, Clusters, EINVAL
      <4> QED
        BY <1>6, <4>1 DEF FirstPage
    <3>2. UpdateDirEntInformation(FirstPage(target), NewDirEnt) => page' = page /\ outside' = outside \cup {AllocStart + target}
      BY <3>1, Zenon DEF UpdateDirEntInformation
    <3> QED
      BY <3>2
  <2>2. page' = page /\ (outside' # {} \/ (Fault /\ iop' = "next"))
    BY <1>5, <2>1, Zenon
  <2> QED
    BY <1>3, <1>4, <2>2
<1>7. CASE ~(target < 0)
  <2>1. PICK t \in Spare(card) : t = target
    BY <1>3, <1>7 DEF EINVAL
  <2>2. ASSUME UpdateDirEntInformation(FirstPage(target), NewDirEnt) PROVE WritesCluster(card)
    <3>1. PICK e : e = NewDirEnt
      OBVIOUS
    <3>2. page' = [page EXCEPT ![<<t, 0>>] = e]
      <4>1. FirstPage(target).cluster = t /\ FirstPage(target).slot = 0 /\ t >= 0
        <5>1. t > 0 /\ t \in Clusters
          BY SpareIs
        <5> QED
          BY <2>1, <5>1, Sizes DEF FirstPage, Clusters
      <4> QED
        BY <2>2, <3>1, <4>1, Zenon DEF UpdateDirEntInformation
    <3> QED
      BY <1>1, <2>1, <3>2, Zenon DEF WritesCluster
  <2> QED
    BY <1>3, <1>4, <1>5, <1>7, <2>2
<1> QED
  BY <1>6, <1>7

LEMMA GrowFolderWrites ==
  ASSUME NEW card \in Cards, NEW ch, Holds(card, ch), EInv, GrowFolder
  PROVE  page' = page \/ WritesFolder(card)
<1>1. iop = "grow"
  BY DEF GrowFolder
<1>2. PICK D \in FoldersOfAliases : D = Alias.dir
  BY <1>1, Creating
<1>3. page' = page \/ UpdateDirEntInformation(folder.place, [folder.entry EXCEPT !.length = @ + 1])
  BY DEF GrowFolder, UpdateDirEntFails
<1>4. UpdateDirEntInformation(folder.place, [folder.entry EXCEPT !.length = @ + 1]) => Grown(FolderPage(card, D))
  BY <1>1, <1>2, GrowWrites
<1> QED
  BY <1>1, <1>2, <1>3, <1>4, Zenon DEF WritesFolder

LEMMA DeleteWrites ==
  ASSUME NEW card \in Cards, NEW ch, Holds(card, ch), EInv, DeleteEntry
  PROVE  page' = page \/ WritesRecord(card, ch)
<1>g. iop = "next" /\ i <= batch[2] /\ Deleting
  BY DEF DeleteEntry
<1>1. CardOK(card, ch) /\ \A d \in FoldersOfAliases : ChainOK(card, d, ch[d])
  BY Zenon DEF Holds, CardOK
<1>2. PICK x \in 1 .. N : Alias = FileAlias[x] /\ x # Own
  BY <1>g, AliasIs
<1>3. PICK D \in FoldersOfAliases : D = FileAlias[x].dir
  BY AliasNames
<1> DEFINE at == FindFile(FileAlias[x]).place
<1>4. page' = page \/ (FindFile(FileAlias[x]).result = "found" /\ UpdateDirEntInformation(at, [Entry(at) EXCEPT !.live = FALSE]))
  BY <1>2 DEF DeleteEntry, UpdateDirEntFails
<1>5. ASSUME FindFile(FileAlias[x]).result = "found", UpdateDirEntInformation(at, [Entry(at) EXCEPT !.live = FALSE])
      PROVE  WritesRecord(card, ch)
  <2>1. \E r \in Nat : r < Len(ch[D]) * PagesPerCluster /\ at = PlaceIn(ch[D], r) /\ Has(ch[D], x, r)
    BY <1>1, <1>2, <1>3, <1>5, FoundRecord
  <2>2. PICK r \in Nat : r < Len(ch[D]) * PagesPerCluster /\ at = PlaceIn(ch[D], r) /\ Has(ch[D], x, r)
    BY <2>1, Zenon
  <2>3. PICK e : e = [Entry(at) EXCEPT !.live = FALSE]
    OBVIOUS
  <2>4. ch[D] \in Seq(Clusters)
    BY <1>1, FolderRun
  <2>5. Wrote(ch[D], r, e)
    BY <1>5, <2>2, <2>3, <2>4, WroteAt
  <2> QED
    BY <1>2, <1>3, <1>g, <2>2, <2>5, Zenon DEF WritesRecord
<1> QED
  BY <1>4, <1>5, Zenon

(* Whatever an action of the IOP writes. *)
LEMMA StepWrites ==
  ASSUME NEW card \in Cards, NEW ch, Holds(card, ch), EInv, [Next]_vars
  PROVE  page' = page \/ WritesRecord(card, ch) \/ WritesCluster(card) \/ WritesFolder(card)
<1>1. CASE EENext
  BY <1>1, Zenon DEF EENext, BeginCreate, SendBefore, SendAfter, Call, Receive, SkipOwn, FlushCreated, BeginDelete, SendDelete, ReceiveDeleted,
     EndDelete, fsVars
<1>2. CASE UNCHANGED vars
  BY <1>2 DEF vars, fsVars
<1>3. CASE EndCall \/ CallFails \/ ReadFolder \/ AddFATRecord \/ MarkNewCluster \/ RereadFolder
  BY <1>3, Zenon DEF EndCall, CallFails, ReadFolder, AddFATRecord, MarkNewCluster, RereadFolder, fsVars
<1>4. CASE FillFreePage
  BY <1>4, FillWrites
<1>5. CASE PlaceEntry
  BY <1>5, PlaceWrites
<1>6. CASE GrowFolder
  BY <1>6, GrowFolderWrites
<1>7. CASE DeleteEntry
  BY <1>7, DeleteWrites
<1> QED
  BY <1>1, <1>2, <1>3, <1>4, <1>5, <1>6, <1>7, Zenon DEF Next, IOPNext

(* A record of a folder, or the page of a new cluster, is no page of the root. *)
LEMMA RecordIs ==
  ASSUME NEW card \in Cards, NEW d \in FoldersOfAliases, NEW s, ChainOK(card, d, s), NEW w \in Nat, w < Len(s) * PagesPerCluster
  PROVE  PageOf(s, w) \in Clusters \X Slots /\ \A l \in 1 .. Len(card.root) : PageOf(s, w)[1] # card.root[l]
<1>1. s \in Seq(Clusters)
  BY FolderRun
<1>2. w \div PagesPerCluster + 1 \in 1 .. Len(s) /\ PageOf(s, w) \in Clusters \X Slots
  BY <1>1, PageIn
<1>3. \A l \in 1 .. Len(card.root) : s[w \div PagesPerCluster + 1] # card.root[l]
  BY <1>2, OffRoot
<1>4. PageOf(s, w)[1] = s[w \div PagesPerCluster + 1]
  BY DEF PageOf
<1> QED
  BY <1>2, <1>3, <1>4

LEMMA FolderIsRoot ==
  ASSUME NEW card \in Cards, NEW f \in FoldersOfAliases
  PROVE  FolderPage(card, f) \in Clusters \X Slots /\ \E l \in 1 .. Len(card.root) : FolderPage(card, f)[1] = card.root[l]
<1>1. FolderPage(card, f) \in Clusters \X Slots /\ \E l \in 2 .. Len(card.root) : FolderPage(card, f)[1] = card.root[l]
  BY FolderPageIs
<1>2. Len(card.root) \in Nat
  BY RootIs
<1> QED
  BY <1>1, <1>2

LEMMA FoldersStay ==
  ASSUME NEW card \in Cards, NEW ch, Holds(card, ch), page' = page \/ WritesRecord(card, ch) \/ WritesCluster(card), NEW f \in FoldersOfAliases
  PROVE  page'[FolderPage(card, f)] = page[FolderPage(card, f)]
<1>1. page \in [Clusters \X Slots -> Dirents] /\ \A d \in FoldersOfAliases : ChainOK(card, d, ch[d])
  BY Zenon DEF Holds, CardOK, TypesOK
<1>2. PICK q \in Clusters \X Slots : q = FolderPage(card, f)
  BY FolderIsRoot
<1>3. \E l \in 1 .. Len(card.root) : q[1] = card.root[l]
  BY <1>2, FolderIsRoot
<1>4. CASE WritesRecord(card, ch)
  <2>0. PICK d \in FoldersOfAliases, w \in Nat : \E e : w < Len(ch[d]) * PagesPerCluster /\ Wrote(ch[d], w, e)
    BY <1>4, Zenon DEF WritesRecord
  <2>1. PICK e : w < Len(ch[d]) * PagesPerCluster /\ Wrote(ch[d], w, e)
    BY <2>0, Zenon
  <2>2. PageOf(ch[d], w) # q
    BY <1>1, <1>3, <2>1, RecordIs
  <2> QED
    BY <1>1, <1>2, <2>1, <2>2 DEF Wrote
<1>5. CASE WritesCluster(card)
  <2>0. PICK t \in Spare(card) : \E e : page' = [page EXCEPT ![<<t, 0>>] = e]
    BY <1>5, Zenon DEF WritesCluster
  <2>1. PICK e : page' = [page EXCEPT ![<<t, 0>>] = e]
    BY <2>0, Zenon
  <2>2. <<t, 0>> # q
    BY <1>3, SpareIs
  <2> QED
    BY <1>1, <1>2, <2>1, <2>2
<1>6. CASE page' = page
  BY <1>6
<1> QED
  BY <1>4, <1>5, <1>6

(* A folder's entry. *)
LEMMA FoldersGrow ==
  ASSUME NEW card \in Cards, NEW ch, Holds(card, ch), EInv, [Next]_vars, NEW d \in FoldersOfAliases
  PROVE  LET p == FindFolder(d).place
         IN page'[<<p.cluster, p.slot>>] \in {Entry(p), [Entry(p) EXCEPT !.length = @ + 1]}
<1>1. TypesOK /\ RootOK(card) /\ page \in [Clusters \X Slots -> Dirents]
  BY Zenon DEF Holds, CardOK, TypesOK
<1>2. PICK q \in Clusters \X Slots : q = FolderPage(card, d)
  BY FolderIsRoot
<1>3. PICK p : p = FindFolder(d).place
  OBVIOUS
<1>4. <<p.cluster, p.slot>> = q /\ Entry(p) = page[q]
  <2>1. p = PlaceIn(card.root, card.record[d]) /\ Entry(p) = page[FolderPage(card, d)]
    BY <1>1, <1>3, FolderFound
  <2>2. PlaceIn(card.root, card.record[d]).cluster = FolderPage(card, d)[1] /\ PlaceIn(card.root, card.record[d]).slot = FolderPage(card, d)[2]
    BY FolderPageIs
  <2> QED
    BY <1>2, <2>1, <2>2
<1>5. CASE page' = page \/ WritesRecord(card, ch) \/ WritesCluster(card)
  <2>1. page'[q] = page[q]
    BY <1>2, <1>5, FoldersStay
  <2> QED
    BY <1>3, <1>4, <2>1, Zenon
<1>6. CASE WritesFolder(card)
  <2>1. PICK f \in FoldersOfAliases : Grown(FolderPage(card, f))
    BY <1>6, Zenon DEF WritesFolder
  <2>2. PICK r \in Clusters \X Slots : r = FolderPage(card, f)
    BY FolderIsRoot
  <2>3. page' = [page EXCEPT ![r] = [page[r] EXCEPT !.length = @ + 1]]
    BY <2>1, <2>2, Zenon DEF Grown
  <2>4. page'[q] = page[q] \/ page'[q] = [page[q] EXCEPT !.length = @ + 1]
    BY <1>1, <2>3
  <2> QED
    BY <1>3, <1>4, <2>4, Zenon
<1> QED
  BY <1>5, <1>6, StepWrites

(* The FAT only gets longer chains. *)
LEMMA LinksStay ==
  ASSUME NEW card \in Cards, NEW ch, Holds(card, ch), EInv, [Next]_vars, NEW c \in Clusters, fat[c].used, fat[c] # EndOfChain
  PROVE  fat'[c] = fat[c]
<1>1. TypesOK /\ CallOK(card) /\ fat \in [Clusters -> FatEntries]
  BY Zenon DEF Holds, CardOK, TypesOK
<1>2. CASE AddFATRecord
  <2>1. iop = "allocate"
    BY <1>2 DEF AddFATRecord
  <2>2. PICK D \in FoldersOfAliases : D = Alias.dir
    BY <2>1, Creating
  <2>3. PICK l, n : l = LastOf(folder.entry.cluster) /\ n = LinkTo(FirstFree)
    BY Zenon
  <2>4. fat' = fat \/ (l # Nil /\ fat' = [fat EXCEPT ![l] = n])
    BY <1>2, <2>3, Zenon DEF AddFATRecord, UpdateFatTableIndexData, UpdateFatFails
  <2>5. l # Nil => fat[l] = EndOfChain
    BY <2>1, <2>2, <2>3, FolderEnd
  <2> QED
    BY <1>1, <2>4, <2>5
<1>3. CASE MarkNewCluster
  <2>1. iop = "mark" /\ (fat' = fat \/ fat' = [fat EXCEPT ![target] = EndOfChain])
    BY <1>3, Zenon DEF MarkNewCluster, UpdateFatTableIndexData, UpdateFatFails
  <2>2. ~fat[target].used
    BY <1>1, <2>1 DEF CallOK
  <2> QED
    BY <1>1, <2>1, <2>2
<1>4. CASE EENext
  BY <1>4, Zenon DEF EENext, BeginCreate, SendBefore, SendAfter, Call, Receive, SkipOwn, FlushCreated, BeginDelete, SendDelete, ReceiveDeleted,
     EndDelete, fsVars
<1>5. CASE UNCHANGED vars
  BY <1>5 DEF vars, fsVars
<1>6. CASE EndCall \/ CallFails \/ ReadFolder \/ FillFreePage \/ PlaceEntry \/ GrowFolder \/ DeleteEntry \/ RereadFolder
  BY <1>6, Zenon DEF EndCall, CallFails, ReadFolder, FillFreePage, PlaceEntry, GrowFolder, DeleteEntry, RereadFolder, fsVars
<1> QED
  BY <1>2, <1>3, <1>4, <1>5, <1>6 DEF Next, IOPNext
-----------------------------------------------------------------------------
(* While nothing has been written before the data area and at most one operation on the card has failed. *)
Calm == outside = {} /\ faults <= 1

(* AddFATRecord has failed: the first write of PlaceEntry goes before the data area, or is a second failure. *)
Stuck == iop = "place" /\ target = -1

(* A new cluster is at the end of the chain, and no record of the folder is in it. *)
Linking == iop = "mark" \/ (iop = "place" /\ target >= 0)

FolderCalm(card, d, s) ==
  LET n    == FolderLength(card, d)
      m    == Len(s)
      mine == d = Alias.dir
  IN /\ fat[s[m]].used \/ Stuck \/ (iop = "mark" /\ mine)
     /\ n <= m * PagesPerCluster
     /\ Linking /\ mine => s[m] = target /\ n <= (m - 1) * PagesPerCluster
     /\ iop = "grow" /\ mine => n < m * PagesPerCluster

CalmOK(card, ch) ==
  /\ Stuck => faults = 1
  /\ \A d, e \in FoldersOfAliases : d # e => Disjoint(ch[d], ch[e])
  /\ \A d \in FoldersOfAliases : FolderCalm(card, d, ch[d])

KHolds(card, ch) == Holds(card, ch) /\ (Calm => CalmOK(card, ch))

KInv == \E card \in Cards : \E ch \in [FoldersOfAliases -> Seq(Clusters)] : KHolds(card, ch)

LEMMA CalmBefore ==
  ASSUME [Next]_vars, faults \in Nat, Calm'
  PROVE  Calm /\ faults' \in {faults, faults + 1} /\ outside' = outside
<1>1. outside \subseteq outside' /\ faults' \in {faults, faults + 1}
  <2>1. CASE EENext
    BY <2>1 DEF EENext, BeginCreate, SendBefore, SendAfter, Call, Receive, SkipOwn, FlushCreated, BeginDelete, SendDelete, ReceiveDeleted,
       EndDelete, fsVars, Fault, NoFault
  <2>2. CASE UNCHANGED vars
    BY <2>2 DEF vars, fsVars
  <2>3. CASE EndCall \/ CallFails \/ ReadFolder \/ AddFATRecord \/ MarkNewCluster \/ RereadFolder
    BY <2>3 DEF EndCall, CallFails, ReadFolder, AddFATRecord, MarkNewCluster, RereadFolder, fsVars, Fault, NoFault, UpdateFatFails
  <2>4. CASE FillFreePage
    <3>1. PICK p, e : (page' = page /\ outside' = outside) \/ UpdateDirEntInformation(p, e)
      BY <2>4, Zenon DEF FillFreePage, UpdateDirEntFails
    <3>2. NoFault \/ Fault
      BY <2>4, Zenon DEF FillFreePage, UpdateDirEntFails
    <3> QED
      BY <3>1, <3>2 DEF UpdateDirEntInformation, NoFault, Fault
  <2>5. CASE PlaceEntry
    <3>1. PICK p, e : (page' = page /\ outside' = outside) \/ UpdateDirEntInformation(p, e)
      BY <2>5, Zenon DEF PlaceEntry, UpdateDirEntFails
    <3>2. NoFault \/ Fault
      BY <2>5, Zenon DEF PlaceEntry, UpdateDirEntFails
    <3> QED
      BY <3>1, <3>2 DEF UpdateDirEntInformation, NoFault, Fault
  <2>6. CASE GrowFolder
    <3>1. PICK p, e : (page' = page /\ outside' = outside) \/ UpdateDirEntInformation(p, e)
      BY <2>6, Zenon DEF GrowFolder, UpdateDirEntFails
    <3>2. NoFault \/ Fault
      BY <2>6, Zenon DEF GrowFolder, UpdateDirEntFails
    <3> QED
      BY <3>1, <3>2 DEF UpdateDirEntInformation, NoFault, Fault
  <2>7. CASE DeleteEntry
    <3>1. PICK p, e : (page' = page /\ outside' = outside) \/ UpdateDirEntInformation(p, e)
      BY <2>7, Zenon DEF DeleteEntry, UpdateDirEntFails
    <3>2. NoFault \/ Fault
      BY <2>7, Zenon DEF DeleteEntry, UpdateDirEntFails
    <3> QED
      BY <3>1, <3>2 DEF UpdateDirEntInformation, NoFault, Fault
  <2> QED
    BY <2>1, <2>2, <2>3, <2>4, <2>5, <2>6, <2>7 DEF Next, IOPNext
<1>2. outside' = {} /\ faults' <= 1
  BY DEF Calm
<1> QED
  BY <1>1, <1>2 DEF Calm

(* Steps that leave the FAT and the folders' entries alone, and add no cluster. *)
LEMMA CalmQuiet ==
  ASSUME NEW card \in Cards, NEW ch, CalmOK(card, ch), ~Stuck, iop # "mark", iop' \notin {"mark", "place", "grow"}, fat' = fat,
         \A d \in FoldersOfAliases : page'[FolderPage(card, d)] = page[FolderPage(card, d)]
  PROVE  CalmOK(card, ch)'
<1>1. ~Stuck' /\ ~Linking'
  BY DEF Stuck, Linking
<1>2. ASSUME NEW d \in FoldersOfAliases PROVE FolderCalm(card, d, ch[d])'
  <2>1. fat[ch[d][Len(ch[d])]].used /\ FolderLength(card, d) <= Len(ch[d]) * PagesPerCluster
    BY Zenon DEF CalmOK, FolderCalm
  <2>2. FolderLength(card, d)' = FolderLength(card, d)
    BY DEF FolderLength, FolderPage, PageOf
  <2> QED
    BY <1>1, <2>1, <2>2, Zenon DEF FolderCalm
<1>3. \A d, e \in FoldersOfAliases : d # e => Disjoint(ch[d], ch[e])
  BY Zenon DEF CalmOK
<1> QED
  BY <1>1, <1>2, <1>3, Zenon DEF CalmOK, Disjoint

(* An entry that is found. *)
LEMMA VisibleAt ==
  ASSUME NEW card \in Cards, NEW ch, Holds(card, ch), NEW k \in Visible
  PROVE  /\ k \in 1 .. N /\ FileAlias[k].dir \in FoldersOfAliases
         /\ \E r \in Nat : /\ r < FolderLength(card, FileAlias[k].dir) /\ r < Len(ch[FileAlias[k].dir]) * PagesPerCluster
                           /\ FindFile(FileAlias[k]).place = PlaceIn(ch[FileAlias[k].dir], r) /\ Has(ch[FileAlias[k].dir], k, r)
<1>1. TypesOK /\ RootOK(card) /\ \A d \in FoldersOfAliases : ChainOK(card, d, ch[d])
  BY Zenon DEF Holds, CardOK
<1>2. k \in 1 .. N /\ FileAlias[k] \in [dir : FoldersOfAliases, name : Names] /\ FindFile(FileAlias[k]).result = "found"
  BY AliasNames DEF Visible
<1>3. FileAlias[k].dir \in FoldersOfAliases
  BY <1>2
<1>4. ChainOK(card, FileAlias[k].dir, ch[FileAlias[k].dir])
  BY <1>1, <1>3
<1>5. \E r \in Nat : /\ r < FolderLength(card, FileAlias[k].dir) /\ r < Len(ch[FileAlias[k].dir]) * PagesPerCluster
                     /\ FindFile(FileAlias[k]).place = PlaceIn(ch[FileAlias[k].dir], r)
                     /\ page[PageOf(ch[FileAlias[k].dir], r)].live /\ page[PageOf(ch[FileAlias[k].dir], r)].name = FileAlias[k].name
  BY <1>1, <1>2, <1>4, FileFound
<1> QED
  BY <1>2, <1>3, <1>5, Zenon DEF Has

(* ...is not written to, but to be deleted. *)
LEMMA NamesKept ==
  ASSUME NEW card \in Cards, NEW ch, Holds(card, ch), CalmOK(card, ch), EInv, [Next]_vars, NEW k \in Visible
  PROVE  LET p == FindFile(FileAlias[k]).place
         IN page'[<<p.cluster, p.slot>>] = Entry(p) \/ (Deleting /\ FileAlias[k] = Alias)
<1>1. CardOK(card, ch) /\ page \in [Clusters \X Slots -> Dirents] /\ \A d \in FoldersOfAliases : ChainOK(card, d, ch[d])
  BY Zenon DEF Holds, CardOK, TypesOK
<1>2. PICK d \in FoldersOfAliases : d = FileAlias[k].dir
  BY VisibleAt
<1>3. k \in 1 .. N /\ \E r \in Nat : /\ r < FolderLength(card, d) /\ r < Len(ch[d]) * PagesPerCluster
                                     /\ FindFile(FileAlias[k]).place = PlaceIn(ch[d], r) /\ Has(ch[d], k, r)
  BY <1>2, VisibleAt
<1>4. PICK r \in Nat : /\ r < FolderLength(card, d) /\ r < Len(ch[d]) * PagesPerCluster
                       /\ FindFile(FileAlias[k]).place = PlaceIn(ch[d], r) /\ Has(ch[d], k, r)
  BY <1>3
<1>5. PICK p : p = FindFile(FileAlias[k]).place
  OBVIOUS
<1>6. PICK q \in Clusters \X Slots : q = PageOf(ch[d], r)
  BY <1>1, <1>4, RecordIs
<1>7. <<p.cluster, p.slot>> = q /\ Entry(p) = page[q]
  BY <1>4, <1>5, <1>6 DEF PlaceIn, PageOf, Entry
<1>8. ASSUME NEW e \in FoldersOfAliases, NEW w \in Nat, w < Len(ch[e]) * PagesPerCluster, NEW v, Wrote(ch[e], w, v), e # d \/ w # r
      PROVE  page'[q] = page[q]
  <2>1. \A f, g \in FoldersOfAliases : f # g => Disjoint(ch[f], ch[g])
    BY Zenon DEF CalmOK
  <2>2. PageOf(ch[d], r) # PageOf(ch[e], w)
    BY <1>1, <1>4, <1>8, <2>1, Elsewhere
  <2> QED
    BY <1>1, <1>6, <1>8, <2>2 DEF Wrote
<1>9. CASE page' = page
  BY <1>5, <1>7, <1>9, Zenon
<1>10. CASE WritesRecord(card, ch)
  <2>0. PICK e \in FoldersOfAliases, w \in Nat : \E v :
          /\ w < Len(ch[e]) * PagesPerCluster /\ Wrote(ch[e], w, v)
          /\ \/ Free(card, ch[e], e, w)
             \/ Deleting /\ \E x \in 1 .. N : Alias = FileAlias[x] /\ e = FileAlias[x].dir /\ Has(ch[e], x, w)
    BY <1>10, Zenon DEF WritesRecord
  <2>1. PICK v :
          /\ w < Len(ch[e]) * PagesPerCluster /\ Wrote(ch[e], w, v)
          /\ \/ Free(card, ch[e], e, w)
             \/ Deleting /\ \E x \in 1 .. N : Alias = FileAlias[x] /\ e = FileAlias[x].dir /\ Has(ch[e], x, w)
    BY <2>0, Zenon
  <2>2. CASE e # d \/ w # r
    <3>1. page'[q] = page[q]
      BY <1>8, <2>1, <2>2
    <3> QED
      BY <1>5, <1>7, <3>1, Zenon
  <2>3. CASE e = d /\ w = r
    <3>1. ~Free(card, ch[d], d, r)
      <4>1. FolderLength(card, d) \in Nat
        BY <1>1, LengthIs DEF CardOK
      <4>2. page[PageOf(ch[d], r)].live
        BY <1>4 DEF Has
      <4> QED
        BY <1>4, <4>1, <4>2 DEF Free
    <3>2. Deleting
      BY <2>1, <2>3, <3>1
    <3>3. PICK x \in 1 .. N : Alias = FileAlias[x] /\ d = FileAlias[x].dir /\ Has(ch[d], x, r)
      BY <2>1, <2>3, <3>1
    <3>4. FileAlias[x].name = FileAlias[k].name
      BY <1>4, <3>3 DEF Has
    <3>5. x = k
      BY <1>2, <1>3, <3>3, <3>4, Apart
    <3> QED
      BY <3>2, <3>3, <3>5
  <2> QED
    BY <2>2, <2>3
<1>11. CASE WritesCluster(card)
  <2>1. iop = "place"
    BY <1>11, Zenon DEF WritesCluster
  <2>0. PICK t \in Spare(card) : \E v : t = target /\ page' = [page EXCEPT ![<<t, 0>>] = v]
    BY <1>11, Zenon DEF WritesCluster
  <2>2. PICK v : t = target /\ page' = [page EXCEPT ![<<t, 0>>] = v]
    BY <2>0, Zenon
  <2>3. PICK D \in FoldersOfAliases : D = Alias.dir
    BY <2>1, Creating
  <2>4. t \in Clusters /\ t > 0
    BY SpareIs
  <2>5. ch[D][Len(ch[D])] = t /\ FolderLength(card, D) <= (Len(ch[D]) - 1) * PagesPerCluster
    <3>1. Linking
      BY <2>1, <2>2, <2>4, Sizes DEF Linking, Clusters
    <3>2. FolderCalm(card, D, ch[D])
      BY Zenon DEF CalmOK
    <3> QED
      BY <2>2, <2>3, <3>1, <3>2, Zenon DEF FolderCalm
  <2>6. ch[D] \in Seq(Clusters) /\ Len(ch[D]) >= 1
    BY <1>1, FolderRun
  <2>7. PICK w : w = (Len(ch[D]) - 1) * PagesPerCluster
    OBVIOUS
  <2>8. w \in Nat /\ w < Len(ch[D]) * PagesPerCluster /\ PageOf(ch[D], w) = <<t, 0>>
    BY <2>5, <2>6, <2>7, FirstOf
  <2>9. Wrote(ch[D], w, v)
    BY <2>2, <2>8 DEF Wrote
  <2>10. D # d \/ w # r
    <3>1. FolderLength(card, D) <= w
      BY <2>5, <2>7
    <3>2. FolderLength(card, D) \in Nat
      BY <1>1, LengthIs DEF CardOK
    <3> QED
      BY <1>4, <2>8, <3>1, <3>2
  <2>11. page'[q] = page[q]
    BY <1>8, <2>8, <2>9, <2>10
  <2> QED
    BY <1>5, <1>7, <2>11, Zenon
<1>12. CASE WritesFolder(card)
  <2>1. PICK f \in FoldersOfAliases : Grown(FolderPage(card, f))
    BY <1>12, Zenon DEF WritesFolder
  <2>2. PICK z \in Clusters \X Slots : z = FolderPage(card, f)
    BY FolderIsRoot
  <2>3. z # q
    <3>1. \E l \in 1 .. Len(card.root) : z[1] = card.root[l]
      BY <2>2, FolderIsRoot
    <3>2. \A l \in 1 .. Len(card.root) : q[1] # card.root[l]
      BY <1>1, <1>4, <1>6, RecordIs
    <3> QED
      BY <3>1, <3>2
  <2>4. page'[q] = page[q]
    BY <1>1, <2>1, <2>2, <2>3 DEF Grown
  <2> QED
    BY <1>5, <1>7, <2>4, Zenon
<1> QED
  BY <1>9, <1>10, <1>11, <1>12, StepWrites

LEMMA CalmFirst ==
  ASSUME NEW card \in Cards, Init, fat = card.fat, page = card.page, Holds(card, card.chain)
  PROVE  CalmOK(card, card.chain)
<1> DEFINE ch == card.chain
<1>1. iop = "idle" /\ Sound
  BY DEF Init, Sound
<1>2. SoundOK(card, ch)
  BY <1>1, Zenon DEF Holds
<1>3. ASSUME NEW d \in FoldersOfAliases PROVE FolderCalm(card, d, ch[d])
  <2>1. EndOK(d, ch[d]) /\ SizeOK(card, d, ch[d])
    BY <1>2, Zenon DEF SoundOK
  <2>2. fat[ch[d][Len(ch[d])]].used
    BY <1>1, <2>1, Ended DEF EndOK
  <2>3. FolderLength(card, d) <= Len(ch[d]) * PagesPerCluster
    BY <1>1, <2>1, Zenon DEF SizeOK, Growing
  <2> QED
    BY <1>1, <2>2, <2>3, Zenon DEF FolderCalm, Linking
<1>4. ~Stuck
  BY <1>1 DEF Stuck
<1>5. \A d, e \in FoldersOfAliases : d # e => Disjoint(ch[d], ch[e])
  BY <1>2, Zenon DEF SoundOK
<1> QED
  BY <1>3, <1>4, <1>5, Zenon DEF CalmOK

LEMMA KInit == ASSUME Init PROVE KInv
<1>1. PICK card \in Cards : /\ fat = card.fat /\ page = card.page /\ card.chain \in [FoldersOfAliases -> Seq(Clusters)]
                            /\ Holds(card, card.chain)
  BY IFirst, Zenon
<1>2. CalmOK(card, card.chain)
  BY <1>1, CalmFirst
<1> QED
  BY <1>1, <1>2, Zenon DEF KInv, KHolds

(* Everything that is in a chain is used, while AddFATRecord is not in between its two writes. *)
LEMMA CalmUsed ==
  ASSUME NEW card \in Cards, NEW ch, Holds(card, ch), CalmOK(card, ch), ~Stuck, iop # "mark", NEW d \in FoldersOfAliases
  PROVE  /\ ch[d] \in Seq(Clusters) /\ Len(ch[d]) \in Nat /\ Len(ch[d]) >= 1
         /\ \A j \in 1 .. Len(ch[d]) : ch[d][j] \in Clusters /\ fat[ch[d][j]].used
<1>1. ChainOK(card, d, ch[d])
  BY Zenon DEF Holds, CardOK
<1>2. fat[ch[d][Len(ch[d])]].used
  BY Zenon DEF CalmOK, FolderCalm
<1>3. ch[d] \in Seq(Clusters) /\ Len(ch[d]) \in Nat /\ Len(ch[d]) >= 1
  BY <1>1, FolderRun
<1>4. ASSUME NEW j \in 1 .. Len(ch[d]) PROVE ch[d][j] \in Clusters /\ fat[ch[d][j]].used
  <2>1. ch[d][j] \in Clusters
    BY <1>3
  <2>2. CASE j = Len(ch[d])
    BY <1>2, <2>1, <2>2
  <2>3. CASE j # Len(ch[d])
    <3>1. j \in 1 .. Len(ch[d]) - 1 /\ ch[d][j + 1] \in Clusters
      BY <1>3, <2>3
    <3>2. fat[ch[d][j]] = LinkTo(ch[d][j + 1])
      BY <1>1, <3>1, Zenon DEF ChainOK
    <3> QED
      BY <2>1, <3>1, <3>2, Links
  <2> QED
    BY <2>2, <2>3
<1> QED
  BY <1>3, <1>4

(* AddFATRecord: the chains stay apart when a free cluster is linked to one of them. *)
LEMMA CalmLinked ==
  ASSUME NEW card \in Cards, NEW ch, Holds(card, ch), CalmOK(card, ch), ~Stuck, iop # "mark", NEW D \in FoldersOfAliases,
         NEW c, c = ch[D][Len(ch[D])], NEW n \in Clusters, ~fat[n].used, NEW nch, nch = Linked(ch, c, n)
  PROVE  /\ nch[D] = Append(ch[D], n) /\ \A d \in FoldersOfAliases : d # D => nch[d] = ch[d] /\ ch[d][Len(ch[d])] # c
         /\ \A d, e \in FoldersOfAliases : d # e => Disjoint(nch[d], nch[e])
<1> DEFINE L == Len(ch[D])
<1>1. \A d \in FoldersOfAliases : /\ ch[d] \in Seq(Clusters) /\ Len(ch[d]) \in Nat /\ Len(ch[d]) >= 1
                                  /\ \A j \in 1 .. Len(ch[d]) : ch[d][j] \in Clusters /\ fat[ch[d][j]].used
  BY CalmUsed
<1>2. \A d, e \in FoldersOfAliases : d # e => Disjoint(ch[d], ch[e])
  BY Zenon DEF CalmOK
<1>3. nch[D] = Append(ch[D], n)
  BY DEF Link, Linked
<1>4. ASSUME NEW d \in FoldersOfAliases, d # D PROVE nch[d] = ch[d] /\ ch[d][Len(ch[d])] # c
  <2>1. Disjoint(ch[d], ch[D]) /\ Len(ch[d]) \in DOMAIN ch[d] /\ L \in DOMAIN ch[D]
    BY <1>1, <1>2, <1>4
  <2>2. ch[d][Len(ch[d])] # c
    BY <2>1 DEF Disjoint
  <2> QED
    BY <2>2 DEF Link, Linked
<1>5. ASSUME NEW d \in FoldersOfAliases, d # D PROVE \A j \in 1 .. Len(ch[d]) : ch[d][j] # n
  BY <1>1
<1>6. \A j \in 1 .. L + 1 : nch[D][j] = IF j = L + 1 THEN n ELSE ch[D][j]
  BY <1>1, <1>3
<1>7. \A d \in FoldersOfAliases : DOMAIN ch[d] = 1 .. Len(ch[d]) /\ DOMAIN nch[D] = 1 .. L + 1
  BY <1>1, <1>3
<1>8. ASSUME NEW d \in FoldersOfAliases, d # D PROVE Disjoint(nch[d], nch[D]) /\ Disjoint(nch[D], nch[d])
  <2>1. nch[d] = ch[d] /\ \A j \in 1 .. Len(ch[d]), k \in 1 .. L : ch[d][j] # ch[D][k]
    BY <1>2, <1>4, <1>7, <1>8 DEF Disjoint
  <2>2. L \in Nat
    BY <1>1
  <2> HIDE DEF L
  <2>3. \A j \in 1 .. Len(ch[d]), k \in 1 .. L + 1 : ch[d][j] # nch[D][k]
    BY <1>5, <1>6, <1>8, <2>1, <2>2
  <2>4. DOMAIN nch[d] = 1 .. Len(ch[d]) /\ DOMAIN nch[D] = 1 .. L + 1
    BY <1>7, <2>1
  <2>5. \A j \in DOMAIN nch[d], k \in DOMAIN nch[D] : nch[d][j] # nch[D][k]
    BY <2>1, <2>3, <2>4
  <2> QED
    BY <2>5, Zenon DEF Disjoint
<1> QED
  BY <1>2, <1>3, <1>4, <1>8, Zenon

LEMMA CalmAdd ==
  ASSUME NEW card \in Cards, NEW ch \in [FoldersOfAliases -> Seq(Clusters)], Holds(card, ch), CalmOK(card, ch), EInv, AddFATRecord, Calm', faults \in Nat
  PROVE  \E nch \in [FoldersOfAliases -> Seq(Clusters)] : Holds(card, nch)' /\ CalmOK(card, nch)'
<1>1. iop = "allocate" /\ UNCHANGED <<page, outside, eeVars, batch, i, count, folder>> /\ page' = page /\ i' = i /\ ee' = ee
  BY DEF AddFATRecord, eeVars
<1>2. PICK D \in FoldersOfAliases : D = Alias.dir
  BY <1>1, Creating
<1>3. PICK c, n : c = LastOf(folder.entry.cluster) /\ n = FirstFree
  BY Zenon
<1>4. ~Stuck /\ ~Linking /\ iop # "mark" /\ Alias' = Alias
  BY <1>1, AliasStays DEF Stuck, Linking
<1>5. /\ \A d \in FoldersOfAliases : fat[ch[d][Len(ch[d])]].used /\ FolderLength(card, d) <= Len(ch[d]) * PagesPerCluster
      /\ \A d, e \in FoldersOfAliases : d # e => Disjoint(ch[d], ch[e])
  BY <1>4, Zenon DEF CalmOK, FolderCalm
<1>6. \A d \in FoldersOfAliases : FolderLength(card, d)' = FolderLength(card, d)
  BY <1>1 DEF FolderLength, FolderPage
<1>7. \/ (FreeClusters = {} \/ c = Nil) /\ target' = -EINVAL /\ iop' = "place" /\ fat' = fat
      \/ FreeClusters # {} /\ c # Nil /\ fat' = [fat EXCEPT ![c] = LinkTo(n)] /\ target' = n /\ iop' = "mark" /\ NoFault
      \/ FreeClusters # {} /\ c # Nil /\ fat' = [fat EXCEPT ![c] = LinkTo(n)] /\ target' = -1 /\ iop' = "place" /\ Fault
      \/ fat' = fat /\ target' = -1 /\ iop' = "place" /\ Fault
  BY <1>3 DEF AddFATRecord, UpdateFatTableIndexData, UpdateFatFails
<1>8. Fault => faults' = 1
  BY DEF Fault, Calm
<1>9. CASE fat' = fat /\ iop' = "place" /\ (target' = -EINVAL \/ (target' = -1 /\ Fault))
  <2>1. Holds(card, ch)'
    <3>2. CASE target' = -EINVAL
      <4>1. FreeClusters = {} \/ LastOf(folder.entry.cluster) = Nil
        <5>1. FreeClusters # {} => n \in Clusters
          BY <1>3, FirstFreeIs
        <5> QED
          BY <1>3, <1>7, <1>9, <3>2, <5>1, Sizes DEF EINVAL, Clusters
      <4>2. NoFault
        BY <1>3, <3>2, <4>1, Sizes DEF AddFATRecord, EINVAL
      <4> QED
        BY <1>1, <1>9, <3>2, <4>1, <4>2, AddNothing
    <3>3. CASE target' = -1 /\ Fault
      <4>1. CardOK(card, ch) /\ TypesOK /\ CallOK(card) /\ faults \in 0 .. MaxFaults
        BY <1>1, Creating
      <4>2. faults' = faults + 1 /\ faults' \in 0 .. MaxFaults
        BY <3>3, <4>1, Sizes DEF Fault
      <4>3. TypesOK'
        BY <1>1, <1>9, <3>3, <4>1, <4>2 DEF TypesOK
      <4>4. CardOK(card, ch)'
        BY <1>1, <1>9, <4>1, <4>3, CardKept
      <4>5. CallOK(card)'
        BY <1>1, <1>9, <3>3, <4>1, CallKept
      <4>6. ~Sound'
        BY <4>2 DEF Sound
      <4> QED
        BY <4>4, <4>5, <4>6, Failed
    <3> QED
      BY <1>9, <3>2, <3>3
  <2>2. ~Linking' /\ (Stuck' => faults' = 1)
    BY <1>8, <1>9 DEF Linking, Stuck, EINVAL
  <2>3. ASSUME NEW d \in FoldersOfAliases PROVE FolderCalm(card, d, ch[d])'
    <3>1. iop' # "grow"
      BY <1>9
    <3> QED
      BY <1>5, <1>6, <1>9, <2>2, <3>1, Zenon DEF FolderCalm
  <2>4. CalmOK(card, ch)'
    BY <1>5, <2>2, <2>3, Zenon DEF CalmOK, Disjoint
  <2> QED
    BY <2>1, <2>4, Zenon
<1>10. CASE /\ FreeClusters # {} /\ c # Nil /\ fat' = [fat EXCEPT ![c] = LinkTo(n)]
            /\ \/ target' = n /\ iop' = "mark" /\ NoFault
               \/ target' = -1 /\ iop' = "place" /\ Fault
  <2>1. n \in Clusters /\ ~fat[n].used
    BY <1>3, <1>10, FirstFreeIs
  <2>2. PICK nch \in [FoldersOfAliases -> Seq(Clusters)] : nch = Linked(ch, c, n) /\ Holds(card, nch)'
    BY <1>1, <1>3, <1>10, <2>1, AddLink
  <2>3. c = ch[D][Len(ch[D])] /\ c \in Clusters
    BY <1>1, <1>2, <1>3, <1>10, FolderEnd
  <2>4. /\ nch[D] = Append(ch[D], n) /\ \A d \in FoldersOfAliases : d # D => nch[d] = ch[d] /\ ch[d][Len(ch[d])] # c
        /\ \A d, e \in FoldersOfAliases : d # e => Disjoint(nch[d], nch[e])
    BY <1>4, <2>1, <2>2, <2>3, CalmLinked
  <2>5. fat \in [Clusters -> FatEntries]
    BY Zenon DEF Holds, CardOK, TypesOK
  <2>6. \A d \in FoldersOfAliases : ch[d] \in Seq(Clusters) /\ Len(ch[d]) \in Nat /\ Len(ch[d]) >= 1 /\ ch[d][Len(ch[d])] \in Clusters
    BY <1>4, CalmUsed
  <2>7. (Stuck' => faults' = 1) /\ (Stuck' \/ (iop' = "mark" /\ target' = n)) /\ iop' # "grow"
    BY <1>8, <1>10 DEF Stuck
  <2>8. ASSUME NEW d \in FoldersOfAliases PROVE FolderCalm(card, d, nch[d])'
    <3>1. CASE d = D
      <4>1. nch[d][Len(nch[d])] = n /\ Len(nch[d]) - 1 = Len(ch[d]) /\ Len(nch[d]) = Len(ch[d]) + 1
        BY <2>4, <2>6, <3>1
      <4>2. FolderLength(card, d)' <= (Len(nch[d]) - 1) * PagesPerCluster /\ FolderLength(card, d)' <= Len(nch[d]) * PagesPerCluster
        <5>1. FolderLength(card, d)' <= Len(ch[d]) * PagesPerCluster
          BY <1>5, <1>6
        <5>2. FolderLength(card, d)' \in Nat
          <6>1. FolderLength(card, d) \in Nat
            BY LengthIs DEF Holds, CardOK
          <6> QED
            BY <1>6, <6>1
        <5>3. Len(ch[d]) * PagesPerCluster + PagesPerCluster <= (Len(ch[d]) + 1) * PagesPerCluster
          BY <2>6, Sizes, Multiples
        <5>4. Len(ch[d]) * PagesPerCluster \in Nat /\ (Len(ch[d]) + 1) * PagesPerCluster \in Nat
          BY <2>6, Sizes
        <5>5. PICK a, b : a = Len(ch[d]) * PagesPerCluster /\ b = (Len(ch[d]) + 1) * PagesPerCluster
          OBVIOUS
        <5>6. FolderLength(card, d)' <= b
          BY <5>1, <5>2, <5>3, <5>4, <5>5, Sizes
        <5> QED
          BY <4>1, <5>1, <5>5, <5>6, Zenon
      <4>3. Linking' => nch[d][Len(nch[d])] = target'
        BY <2>7, <4>1 DEF Linking, Stuck
      <4>4. d = Alias'.dir
        BY <1>2, <1>4, <3>1
      <4> QED
        BY <2>7, <4>2, <4>3, <4>4, Zenon DEF FolderCalm
    <3>2. CASE d # D
      <4>1. nch[d] = ch[d] /\ fat'[nch[d][Len(nch[d])]] = fat[ch[d][Len(ch[d])]]
        BY <1>10, <2>3, <2>4, <2>5, <2>6, <3>2
      <4>2. d # Alias'.dir
        BY <1>2, <1>4, <3>2
      <4> QED
        BY <1>5, <1>6, <4>1, <4>2, Zenon DEF FolderCalm
    <3> QED
      BY <3>1, <3>2
  <2>9. CalmOK(card, nch)'
    BY <2>4, <2>7, <2>8, Zenon DEF CalmOK, Disjoint
  <2> QED
    BY <2>2, <2>9, Zenon
<1> QED
  BY <1>7, <1>9, <1>10

LEMMA CalmMark ==
  ASSUME NEW card \in Cards, NEW ch, Holds(card, ch), CalmOK(card, ch), EInv, MarkNewCluster, Calm', faults \in Nat
  PROVE  CalmOK(card, ch)'
<1>1. iop = "mark" /\ iop' = "place" /\ page' = page /\ i' = i /\ ee' = ee
  BY DEF MarkNewCluster, eeVars
<1>2. PICK D \in FoldersOfAliases : D = Alias.dir
  BY <1>1, Creating
<1>3. ~Stuck /\ Linking /\ Alias' = Alias
  BY <1>1, AliasStays DEF Stuck, Linking
<1>4. \A d \in FoldersOfAliases : FolderLength(card, d)' = FolderLength(card, d)
  BY <1>1 DEF FolderLength, FolderPage
<1>5. /\ ch[D][Len(ch[D])] = target /\ FolderLength(card, D) <= (Len(ch[D]) - 1) * PagesPerCluster
      /\ \A d \in FoldersOfAliases : FolderLength(card, d) <= Len(ch[d]) * PagesPerCluster /\ (d # D => fat[ch[d][Len(ch[d])]].used)
      /\ \A d, e \in FoldersOfAliases : d # e => Disjoint(ch[d], ch[e])
  BY <1>2, <1>3, Zenon DEF CalmOK, FolderCalm
<1>6. \/ fat' = [fat EXCEPT ![target] = EndOfChain] /\ target' = target
      \/ target' = -1 /\ Fault
  BY DEF MarkNewCluster, UpdateFatTableIndexData, UpdateFatFails
<1>7. fat \in [Clusters -> FatEntries] /\ target \in Clusters
  <2>1. CallOK(card) /\ fat \in [Clusters -> FatEntries]
    BY Zenon DEF Holds, CardOK, TypesOK
  <2> QED
    BY <1>1, <2>1 DEF CallOK
<1>8. CASE target' = -1 /\ Fault
  <2>1. Stuck' /\ ~Linking' /\ faults' = 1
    BY <1>1, <1>8 DEF Stuck, Linking, Fault, Calm
  <2>2. ASSUME NEW d \in FoldersOfAliases PROVE FolderCalm(card, d, ch[d])'
    BY <1>1, <1>4, <1>5, <2>1 DEF FolderCalm
  <2> QED
    BY <1>5, <2>1, <2>2, Zenon DEF CalmOK, Disjoint
<1>9. CASE fat' = [fat EXCEPT ![target] = EndOfChain] /\ target' = target
  <2>1. ~Stuck'
    BY <1>7, <1>9, Sizes DEF Stuck, Clusters
  <2>2. ASSUME NEW d \in FoldersOfAliases PROVE FolderCalm(card, d, ch[d])'
    <3>1. fat'[ch[d][Len(ch[d])]].used
      <4>1. CASE d = D
        BY <1>5, <1>7, <1>9, <4>1, Ended
      <4>2. CASE d # D
        <5>1. ch[d][Len(ch[d])] \in Clusters
          <6>1. ChainOK(card, d, ch[d])
            BY Zenon DEF Holds, CardOK
          <6>2. ch[d] \in Seq(Clusters) /\ Len(ch[d]) >= 1
            BY <6>1, FolderRun
          <6> QED
            BY <6>2
        <5>2. fat[ch[d][Len(ch[d])]].used
          BY <1>5, <4>2
        <5> QED
          BY <1>7, <1>9, <5>1, <5>2, Ended
      <4> QED
        BY <4>1, <4>2
    <3>2. iop' # "grow"
      BY <1>1
    <3> QED
      BY <1>2, <1>3, <1>4, <1>5, <1>9, <3>1, <3>2, Zenon DEF FolderCalm
  <2> QED
    BY <1>5, <2>1, <2>2, Zenon DEF CalmOK, Disjoint
<1> QED
  BY <1>6, <1>8, <1>9

LEMMA CalmFill ==
  ASSUME NEW card \in Cards, NEW ch, Holds(card, ch), CalmOK(card, ch), EInv, FillFreePage
  PROVE  CalmOK(card, ch)'
<1>1. iop = "free_page" /\ fat' = fat /\ ee' = ee /\ iop' \in {"next", "grow", "allocate"}
  BY DEF FillFreePage, eeVars, NextName
<1>2. page' = page \/ WritesRecord(card, ch)
  BY FillWrites
<1>3. \A d \in FoldersOfAliases : page'[FolderPage(card, d)] = page[FolderPage(card, d)]
  BY <1>2, FoldersStay
<1>4. ~Stuck
  BY <1>1 DEF Stuck
<1>5. CASE iop' # "grow"
  BY <1>1, <1>3, <1>4, <1>5, CalmQuiet
<1>6. CASE iop' = "grow"
  <2>1. i' = i
    BY <1>6 DEF FillFreePage, NextName
  <2>2. Alias' = Alias
    BY <1>1, <2>1, AliasStays
  <2>3. ~Stuck' /\ ~Linking'
    BY <1>6 DEF Stuck, Linking
  <2>4. FolderLength(card, Alias.dir) < Len(ch[Alias.dir]) * PagesPerCluster
    BY <1>6, FillWrites
  <2>5. ASSUME NEW d \in FoldersOfAliases PROVE FolderCalm(card, d, ch[d])'
    <3>1. fat[ch[d][Len(ch[d])]].used /\ FolderLength(card, d) <= Len(ch[d]) * PagesPerCluster
      BY <1>1, <1>4, Zenon DEF CalmOK, FolderCalm
    <3>2. FolderLength(card, d)' = FolderLength(card, d)
      BY <1>3 DEF FolderLength, FolderPage, PageOf
    <3>3. d = Alias.dir => FolderLength(card, d) < Len(ch[d]) * PagesPerCluster
      BY <2>4
    <3> QED
      BY <1>1, <2>2, <2>3, <3>1, <3>2, <3>3, Zenon DEF FolderCalm
  <2>6. \A d, e \in FoldersOfAliases : d # e => Disjoint(ch[d], ch[e])
    BY Zenon DEF CalmOK
  <2> QED
    BY <2>3, <2>5, <2>6, Zenon DEF CalmOK, Disjoint
<1> QED
  BY <1>5, <1>6

LEMMA CalmPlace ==
  ASSUME NEW card \in Cards, NEW ch, Holds(card, ch), CalmOK(card, ch), EInv, PlaceEntry, Calm', faults \in Nat
  PROVE  CalmOK(card, ch)'
<1>1. iop = "place" /\ fat' = fat /\ ee' = ee /\ target' = target /\ iop' \in {"next", "grow"}
  BY DEF PlaceEntry, eeVars, NextName
<1>2. page' = page \/ WritesCluster(card)
  BY PlaceWrites
<1>3. \A d \in FoldersOfAliases : page'[FolderPage(card, d)] = page[FolderPage(card, d)]
  BY <1>2, FoldersStay
<1>4. target \in {-EINVAL, -1} \cup Spare(card) /\ (target < 0 => Fault /\ iop' = "next")
  BY PlaceWrites DEF Calm
<1>5. ~Stuck
  <2>1. ASSUME Stuck PROVE FALSE
    <3>1. faults = 1
      BY <2>1 DEF CalmOK
    <3>2. Fault
      BY <1>4, <2>1 DEF Stuck
    <3> QED
      BY <3>1, <3>2 DEF Fault, Calm
  <2> QED
    BY <2>1
<1>6. CASE iop' # "grow"
  BY <1>1, <1>3, <1>5, <1>6, CalmQuiet
<1>7. CASE iop' = "grow"
  <2>1. i' = i
    BY <1>7 DEF PlaceEntry, NextName
  <2>2. Alias' = Alias
    BY <1>1, <2>1, AliasStays
  <2>3. ~Stuck' /\ ~Linking'
    BY <1>7 DEF Stuck, Linking
  <2>4. PICK D \in FoldersOfAliases : D = Alias.dir
    BY <1>1, Creating
  <2>5. Linking
    <3>1. target \in Spare(card) => target >= 0
      BY Sizes DEF Spare, Clusters
    <3>2. ~(target < 0)
      BY <1>4, <1>7
    <3> QED
      BY <1>1, <1>4, <3>1, <3>2 DEF Linking, EINVAL
  <2>6. FolderLength(card, D) <= (Len(ch[D]) - 1) * PagesPerCluster
    BY <2>4, <2>5, Zenon DEF CalmOK, FolderCalm
  <2>7. FolderLength(card, D) < Len(ch[D]) * PagesPerCluster
    <3>1. ChainOK(card, D, ch[D]) /\ TypesOK /\ RootOK(card)
      BY Zenon DEF Holds, CardOK
    <3>2. ch[D] \in Seq(Clusters) /\ Len(ch[D]) >= 1 /\ FolderLength(card, D) \in Nat
      BY <3>1, FolderRun, LengthIs
    <3>3. PICK w : w = (Len(ch[D]) - 1) * PagesPerCluster
      OBVIOUS
    <3>4. w \in Nat /\ w < Len(ch[D]) * PagesPerCluster
      BY <3>2, <3>3, FirstOf
    <3>5. PICK z : z = Len(ch[D]) * PagesPerCluster
      OBVIOUS
    <3>6. z \in Nat
      BY <3>2, <3>5, Sizes
    <3>7. FolderLength(card, D) <= w
      BY <2>6, <3>3
    <3>8. FolderLength(card, D) < z
      BY <3>2, <3>4, <3>5, <3>6, <3>7
    <3> QED
      BY <3>5, <3>8
  <2>8. ASSUME NEW d \in FoldersOfAliases PROVE FolderCalm(card, d, ch[d])'
    <3>1. fat[ch[d][Len(ch[d])]].used /\ FolderLength(card, d) <= Len(ch[d]) * PagesPerCluster
      BY <1>1, <1>5, Zenon DEF CalmOK, FolderCalm
    <3>2. FolderLength(card, d)' = FolderLength(card, d)
      BY <1>3 DEF FolderLength, FolderPage, PageOf
    <3>3. d = Alias'.dir => FolderLength(card, d) < Len(ch[d]) * PagesPerCluster
      BY <2>2, <2>4, <2>7
    <3> QED
      BY <1>1, <2>3, <3>1, <3>2, <3>3, Zenon DEF FolderCalm
  <2>9. \A d, e \in FoldersOfAliases : d # e => Disjoint(ch[d], ch[e])
    BY Zenon DEF CalmOK
  <2> QED
    BY <2>3, <2>8, <2>9, Zenon DEF CalmOK, Disjoint
<1> QED
  BY <1>6, <1>7

LEMMA CalmGrow ==
  ASSUME NEW card \in Cards, NEW ch, Holds(card, ch), CalmOK(card, ch), EInv, GrowFolder, Holds(card, ch)'
  PROVE  CalmOK(card, ch)'
<1>1. iop = "grow" /\ fat' = fat /\ iop' = "next"
  BY DEF GrowFolder, NextName
<1>2. ~Stuck /\ ~Stuck' /\ ~Linking'
  BY <1>1 DEF Stuck, Linking
<1>3. CASE page' = page
  <2>1. \A d \in FoldersOfAliases : page'[FolderPage(card, d)] = page[FolderPage(card, d)]
    BY <1>3
  <2> QED
    BY <1>1, <1>2, <2>1, CalmQuiet
<1>4. CASE WritesFolder(card)
  <2>1. PICK D \in FoldersOfAliases : D = Alias.dir /\ Grown(FolderPage(card, D))
    BY <1>4, Zenon DEF WritesFolder
  <2>2. CardOK(card, ch) /\ TypesOK' /\ TypesOK /\ RootOK(card)
    BY Zenon DEF Holds, CardOK
  <2>3. FolderLength(card, D)' = FolderLength(card, D) + 1 /\ \A f \in FoldersOfAliases \ {D} : FolderLength(card, f)' = FolderLength(card, f)
    BY <1>1, <2>1, <2>2, GrownKeeps
  <2>4. ASSUME NEW d \in FoldersOfAliases PROVE FolderCalm(card, d, ch[d])'
    <3>1. fat[ch[d][Len(ch[d])]].used /\ FolderLength(card, d) <= Len(ch[d]) * PagesPerCluster
      BY <1>1, <1>2, Zenon DEF CalmOK, FolderCalm
    <3>2. FolderLength(card, d)' <= Len(ch[d]) * PagesPerCluster
      <4>1. CASE d # D
        BY <2>3, <3>1, <4>1
      <4>2. CASE d = D
        <5>1. FolderLength(card, D) < Len(ch[D]) * PagesPerCluster
          BY <1>1, <2>1, Zenon DEF CalmOK, FolderCalm
        <5>2. FolderLength(card, D) \in Nat /\ Len(ch[D]) \in Nat
          <6>1. ChainOK(card, D, ch[D])
            BY <2>2, Zenon DEF CardOK
          <6>2. ch[D] \in Seq(Clusters)
            BY <6>1, FolderRun
          <6> QED
            BY <2>2, <6>2, LengthIs
        <5>3. PICK z : z = Len(ch[D]) * PagesPerCluster
          OBVIOUS
        <5>4. z \in Nat
          BY <5>2, <5>3, Sizes
        <5>5. FolderLength(card, D) + 1 <= z
          BY <5>1, <5>2, <5>3, <5>4
        <5> QED
          BY <2>3, <4>2, <5>3, <5>5, Zenon
      <4> QED
        BY <4>1, <4>2
    <3> QED
      BY <1>1, <1>2, <3>1, <3>2, Zenon DEF FolderCalm
  <2>5. \A d, e \in FoldersOfAliases : d # e => Disjoint(ch[d], ch[e])
    BY Zenon DEF CalmOK
  <2> QED
    BY <1>2, <2>4, <2>5, Zenon DEF CalmOK, Disjoint
<1> QED
  BY <1>3, <1>4, GrowFolderWrites

LEMMA CalmRest ==
  ASSUME NEW card \in Cards, NEW ch, Holds(card, ch), CalmOK(card, ch), EInv,
         \/ EENext \/ EndCall \/ CallFails \/ ReadFolder \/ DeleteEntry \/ RereadFolder
  PROVE  CalmOK(card, ch)'
<1>1. fat' = fat /\ iop \notin {"mark", "place", "grow"} /\ iop' \notin {"mark", "place", "grow"}
  <2>1. CASE EENext
    <3>1. fat' = fat /\ iop = "idle" /\ iop' \in {"idle", "next"}
      BY <2>1, Sizes DEF EENext, BeginCreate, SendBefore, SendAfter, Receive, SkipOwn, FlushCreated, BeginDelete, SendDelete, ReceiveDeleted,
         EndDelete, Call, fsVars, iopVars, EInv, BatchOK
    <3> QED
      BY <3>1
  <2>2. CASE EndCall \/ CallFails \/ ReadFolder \/ RereadFolder
    BY <2>2 DEF EndCall, CallFails, ReadFolder, RereadFolder, fsVars, NextName
  <2>3. CASE DeleteEntry
    BY <2>3 DEF DeleteEntry, NextName
  <2> QED
    BY <2>1, <2>2, <2>3
<1>2. page' = page \/ WritesRecord(card, ch)
  <2>1. CASE EENext \/ EndCall \/ CallFails \/ ReadFolder \/ RereadFolder
    BY <2>1, Zenon DEF EndCall, CallFails, ReadFolder, RereadFolder, fsVars, EENext, BeginCreate, SendBefore, SendAfter, Call, Receive, SkipOwn,
       FlushCreated, BeginDelete, SendDelete, ReceiveDeleted, EndDelete
  <2> QED
    BY <2>1, DeleteWrites
<1>3. \A d \in FoldersOfAliases : page'[FolderPage(card, d)] = page[FolderPage(card, d)]
  BY <1>2, FoldersStay
<1>4. ~Stuck
  BY <1>1 DEF Stuck
<1> QED
  BY <1>1, <1>3, <1>4, CalmQuiet

LEMMA KStep == ASSUME EInv, KInv, [Next]_vars PROVE KInv'
<1>1. PICK card \in Cards : \E ch \in [FoldersOfAliases -> Seq(Clusters)] : KHolds(card, ch)
  BY Zenon DEF KInv
<1>2. PICK ch \in [FoldersOfAliases -> Seq(Clusters)] : KHolds(card, ch)
  BY <1>1
<1>3. Holds(card, ch) /\ (Calm => CalmOK(card, ch))
  BY <1>2, Zenon DEF KHolds
<1>4. faults \in Nat
  <2>1. faults \in 0 .. MaxFaults
    BY <1>3, Zenon DEF Holds, CardOK, TypesOK
  <2> QED
    BY <2>1, Sizes
<1>5. ASSUME Calm' PROVE CalmOK(card, ch)
  BY <1>3, <1>4, <1>5, CalmBefore
<1>6. CASE AddFATRecord
  <2>1. CASE Calm'
    BY <1>3, <1>4, <1>5, <1>6, <2>1, CalmAdd, Zenon DEF KInv, KHolds
  <2>2. CASE ~Calm'
    BY <1>3, <1>6, <2>2, StepAddFATRecord, Zenon DEF KInv, KHolds
  <2> QED
    BY <2>1, <2>2
<1>7. CASE \/ EENext \/ EndCall \/ CallFails \/ ReadFolder \/ FillFreePage \/ MarkNewCluster \/ PlaceEntry \/ GrowFolder
           \/ DeleteEntry \/ RereadFolder
  <2>1. Holds(card, ch)'
    <3>1. CASE EENext \/ EndCall \/ CallFails \/ ReadFolder \/ RereadFolder
      BY <1>3, <3>1, StepEE, StepEndCall, StepCallFails, StepReadFolder, StepRereadFolder
    <3>2. CASE FillFreePage \/ MarkNewCluster \/ PlaceEntry \/ GrowFolder \/ DeleteEntry
      BY <1>3, <3>2, StepFillFreePage, StepMarkNewCluster, StepPlaceEntry, StepGrowFolder, StepDeleteEntry
    <3> QED
      BY <1>7, <3>1, <3>2
  <2>2. Calm' => CalmOK(card, ch)'
    <3>1. CASE EENext \/ EndCall \/ CallFails \/ ReadFolder \/ DeleteEntry \/ RereadFolder
      BY <1>3, <1>5, <3>1, CalmRest
    <3>2. CASE FillFreePage
      BY <1>3, <1>5, <3>2, CalmFill
    <3>3. CASE MarkNewCluster
      BY <1>3, <1>4, <1>5, <3>3, CalmMark
    <3>4. CASE PlaceEntry
      BY <1>3, <1>4, <1>5, <3>4, CalmPlace
    <3>5. CASE GrowFolder
      BY <1>3, <1>5, <2>1, <3>5, CalmGrow
    <3> QED
      BY <1>7, <3>1, <3>2, <3>3, <3>4, <3>5
  <2> QED
    BY <2>1, <2>2, Zenon DEF KInv, KHolds
<1>8. CASE UNCHANGED vars
  <2>1. Holds(card, ch)'
    BY <1>3, <1>8, StepNothing
  <2>2. (Calm' <=> Calm) /\ (CalmOK(card, ch)' <=> CalmOK(card, ch))
    BY <1>8 DEF vars, fsVars, eeVars, iopVars, Calm, CalmOK, FolderCalm, Stuck, Linking, Alias, Deleting, FolderLength, FolderPage, PageOf, Disjoint,
       Uninstall
  <2> QED
    BY <1>3, <2>1, <2>2, Zenon DEF KInv, KHolds
<1> QED
  BY <1>6, <1>7, <1>8, Zenon DEF Next, IOPNext

LEMMA KAlways == Spec => []KInv
<1>1. Init => KInv
  BY KInit
<1>2. KInv /\ EInv /\ [Next]_vars => KInv'
  BY KStep
<1> QED
  BY <1>1, <1>2, EAlways, PTL DEF Spec

(* Whatever fails, and wherever something has been written: a folder's entry only grows by one record at a time, and no chain is cut
   or led elsewhere (CreateNewVirtualDirent, AddFATRecord). *)
FoldersAndLinksKept ==
  [][/\ \A d \in FoldersOfAliases :
          LET p == FindFolder(d).place
          IN page'[<<p.cluster, p.slot>>] \in {Entry(p), [Entry(p) EXCEPT !.length = @ + 1]}
     /\ \A c \in Clusters : fat[c].used /\ fat[c] # EndOfChain => fat'[c] = fat[c]]_<<fat, page>>

LEMMA FoldersKept ==
  ASSUME EInv, IInv, [Next]_vars
  PROVE  /\ \A d \in FoldersOfAliases :
              LET p == FindFolder(d).place
              IN page'[<<p.cluster, p.slot>>] \in {Entry(p), [Entry(p) EXCEPT !.length = @ + 1]}
         /\ \A c \in Clusters : fat[c].used /\ fat[c] # EndOfChain => fat'[c] = fat[c]
<1>1. PICK card \in Cards : \E ch \in [FoldersOfAliases -> Seq(Clusters)] : Holds(card, ch)
  BY Zenon DEF IInv
<1>2. PICK ch \in [FoldersOfAliases -> Seq(Clusters)] : Holds(card, ch)
  BY <1>1
<1> QED
  BY <1>2, FoldersGrow, LinksStay

(* CreateNewVirtualDirent, AddFATRecord: the folders and the chains, for any number of failures. *)
THEOREM FoldersAlways == Spec => FoldersAndLinksKept
<1>1. EInv /\ IInv /\ [Next]_vars =>
        [/\ \A d \in FoldersOfAliases :
              LET p == FindFolder(d).place
              IN page'[<<p.cluster, p.slot>>] \in {Entry(p), [Entry(p) EXCEPT !.length = @ + 1]}
         /\ \A c \in Clusters : fat[c].used /\ fat[c] # EndOfChain => fat'[c] = fat[c]]_<<fat, page>>
  BY FoldersKept
<1> QED
  BY <1>1, EAlways, IAlways, PTL DEF Spec, FoldersAndLinksKept

LEMMA OthersStep ==
  ASSUME EInv, KInv, KInv', [Next]_vars, MaxFaults <= 1, outside' = {}
  PROVE  /\ \A k \in Visible :
              LET p == FindFile(FileAlias[k]).place
              IN page'[<<p.cluster, p.slot>>] = Entry(p) \/ (Deleting /\ FileAlias[k] = Alias)
         /\ \A d \in FoldersOfAliases :
              LET p == FindFolder(d).place
              IN page'[<<p.cluster, p.slot>>] \in {Entry(p), [Entry(p) EXCEPT !.length = @ + 1]}
         /\ \A c \in Clusters : fat[c].used /\ fat[c] # EndOfChain => fat'[c] = fat[c]
<1>1. PICK card \in Cards : \E ch \in [FoldersOfAliases -> Seq(Clusters)] : KHolds(card, ch)
  BY Zenon DEF KInv
<1>2. PICK ch \in [FoldersOfAliases -> Seq(Clusters)] : KHolds(card, ch)
  BY <1>1
<1>3. Holds(card, ch) /\ (Calm => CalmOK(card, ch)) /\ faults \in 0 .. MaxFaults
  BY <1>2, Zenon DEF KHolds, Holds, CardOK, TypesOK
<1>4. faults' \in 0 .. MaxFaults
  BY Zenon DEF KInv, KHolds, Holds, CardOK, TypesOK
<1>5. Calm' /\ faults \in Nat
  BY <1>3, <1>4, Sizes DEF Calm
<1>6. CalmOK(card, ch)
  BY <1>3, <1>5, CalmBefore
<1> QED
  BY <1>3, <1>6, NamesKept, FoldersGrow, LinksStay

(* CreateNewVirtualDirent, DeleteVirtualDirent, AddFATRecord: with one failure at most, no write disturbs the entry of another name. *)
THEOREM OthersAlways == MaxFaults <= 1 => (Spec => OthersKept)
<1> SUFFICES ASSUME MaxFaults <= 1 PROVE Spec => OthersKept
  OBVIOUS
<1>1. EInv /\ KInv /\ KInv' /\ [Next]_vars =>
        [outside' = {} =>
           /\ \A k \in Visible :
                LET p == FindFile(FileAlias[k]).place
                IN page'[<<p.cluster, p.slot>>] = Entry(p) \/ (Deleting /\ FileAlias[k] = Alias)
           /\ \A d \in FoldersOfAliases :
                LET p == FindFolder(d).place
                IN page'[<<p.cluster, p.slot>>] \in {Entry(p), [Entry(p) EXCEPT !.length = @ + 1]}
           /\ \A c \in Clusters : fat[c].used /\ fat[c] # EndOfChain => fat'[c] = fat[c]]_<<fat, page>>
  BY OthersStep
<1> QED
  BY <1>1, EAlways, KAlways, PTL DEF Spec, OthersKept

=============================================================================
