# Verification of FreeMcBoot-Installer-UMCS

TLA+ models of the installer for FreeMcBoot, checked with TLC on small instances
and proved with TLAPS for every value of their constants. Paths are relative to
the repository.

## 1. The system

The installer runs on the EE of a PlayStation 2 (`installer/*.c`) with modules of its
own on the IOP (`installer/irx/source`): **MCTOOLS** reaches the memory card beneath
its file system, **SECRMAN/SECRSIF** sign executables for a card. `mbr/` is the program
the hard disk boots. There are no tests in the repository.

| Part | State | Operations | Interacts with | What makes it correct |
|---|---|---|---|---|
| IOP page cache (`mctools/src/cache.c`, `MCIO.c`) | slots, their flags; the card | init, read, write, flush | the file system code of MCTOOLS calls it | reads answer the last write; a flush costs no page of a block it did not have to touch; failures lose only unsaved blocks |
| MCTOOLS file system (`mctools.c`) | FAT, directory entries, through the cache | create and delete cross-linked files | served to the EE by RPC | chains stay well-formed; counts agree |
| MCTOOLS client (`mctools_rpc.c`) | `AsyncRpcEndSema`, `ReceiveBuffer`, `IopBuffer` | blocking and asynchronous RPCs, sync | end functions run in an interrupt | one call in flight; the answer read is the call's |
| Worker thread, dump, restoration (`system.c` 2452-2895) | command, argument, result code, two buffers | commands, polling, cancel | main thread, IOP, power button | success means complete; no wake-up lost; nothing freed while used |
| Copying files to a card (`system.c` 1794-1926) | write in flight, its buffer and handle | the copy loop | libmc, signing | every file whole; buffers freed once |
| Installation and removal (`system.c` 470-1793, 1928-2403) | list of files, cross-links, uninstallation file, the flag of a card | install, multi-install, clean up, remove | all of the above, the menu | list filled as counted; every console served; the uninstallation file names what exists; no reset or failure leaves links that a cleanup breaks |
| Installation to the hard disk (`system.c` 860-1368, 2897-3142) | partitions, files, MBR program, the console's configuration | install, clean up, format | fileXio, PFS, the boot loader | booting enabled only when complete; the right partition mounted |
| IOP initialisation (`iop.c`, `main.c`) | loaded modules, services | reboot with a set of modules | everything on the IOP | every operation finds its modules |
| Menu (`menu.c`) | cards found, their flags, events | main loop | calls the operations | no operation on a card or disk it would harm |
| HDD boot loader (`mbr/`) | list of targets | checks, boot order | EELOAD, the disk the installer left | starts what was installed, and gives up in order |
| Signing (`libsecr.c`, `irx/source/secrman`, `secrsif`) | hardware | blocking dialogues | mechacon, card | every answer checked |
| User interface (`UI.c`, `font.c`, ...) | - | drawing, pads, translations | - | input and output, not modelled |

What is hard here: two threads without locks that talk through three variables and
counted wake-ups; asynchronous calls whose answer is looked at later; a pipeline of reads
and writes with error exits at every stage; a write-back cache over erase blocks; reboots of
the IOP in the middle of everything; a power button served by a callback; a card format that
allows several names for one file only as long as nobody frees it, with three programs (MCTOOLS, MCMAN, the installer
on another console) that write it; and a disk that is made bootable in place.
`PROJECT.json` lists each hazard at its line.

## 2. What is modelled

### Page cache: `PageStore`, `PageCache`

`PageCache` is `cache.c` over `MCIO.c`. A call of `ReadPageCached`, `WritePageCached` or
`FlushPageCache` is a sequence of steps, each with at most one operation on the card:
`ReadMiss`, `FillRead`, `BeginFlush`, then for each block `SkipBlock` or `ReadBlock`,
`EraseBlock`, one `ProgramPage` per page, and `EndFlush`. `phase` is where the call is, `slot` is
`PageCache[]`, `BlockBuffer`, `BlockNum` and `result` are the variables of the flush. Every card
operation may fail, an erase that fails may or may not have erased, a program that fails has
not written; the allocations of a flush may fail. `Reboot` may come between any two steps: it
is the IOP reset of `iop.c` as well as a loss of power. `MaxFaults` bounds failures, and reboots
that lose something, in a behaviour.

`result` models the answer of `FlushPageCache` as the code computes it: overwritten by each
block. `failed` is what it should have said.

Page 0 is never read through the cache (`mctools.c` reads the superblock directly), which
`CacheAssumption` states: 0 is also the page number of an empty slot, and the hit test does not look at
`PAGE_CACHE_PAGE_EXISTS`.

`PageStore` is the promise: a store of pages with a set of unsaved ones, which a failure may
lose together with the pages that share their erase blocks, and nothing else may.
`PageCache!Store` maps to it: a page's content is its slot's, else the block buffer's while its
block is being programmed, else the card's.

### Dump and restoration: `AsyncRpc`, `McMaint`

`AsyncRpc` is the asynchronous half of `mctools_rpc.c`: the binary semaphore, the call
in flight, the answer left in `ReceiveBuffer`. `McMaint` extends it with the main thread
(`PerformMemoryCardDump`, `PerformMemoryCardRestore`, `SendWorkerThreadCommand`) and the worker
(`WorkerThread`, `DumpMemoryCard`, `RestoreMemoryCard`). Each thread has a place (`main`, `worker`), and
steps are as fine as the shared variables: the command and its argument are written and read in
two steps, and so are a wake-up and the result code set after it. `wakeups` counts pending `WakeupThread`s as the EE kernel
does. Contents are numbers of units: the cluster or block that a buffer or the target holds.
`ServeCall` is the IOP, which answers at any later time, with success or an error, also
after the worker has given up and freed its buffers.

`Begin` takes together the reboot, the two calls that find the card, the lock and `fopen`. (A restoration
flushes the card manager's cache before it takes the lock, a dump after: no
shared variable of the model is involved.) `WorkerAsleep` is its guard: the reboot
waits for seconds (`sleep(5)`, several blocking calls) while the worker, of the lowest priority, has nothing else to do but
to go to sleep. Without this assumption a worker still between the two reads of `GetWorkerThreadCommand`
(2656-2658) could pair the new command with the old `NULL` argument.

An operation ends in three steps. `Close` is `fclose`, whose answer is ignored: the last of a dump may not have been written, which leaves the
file `"lost"`. `Unlock` gives the lock back, and only then `Return` reboots the IOP. A dump whose image could not be written leaves the read of a
cluster in flight, so that the power button, pressed between the two, switches the console off with that call under way; `PowerOffSafe` says
that it is never more than that.

The early returns of both operations are `NoCard`. `StopWorkerThread` runs once, when the program ends, and is left out, as is
the progress value, which only the screen shows.

### Copying files: `McLib`, `CopyFiles`, `SequentialCopy`

`CopyFiles` is the copy loop with `SyncMCFileWrite`: entries are folders, files, files of 0 bytes and
files that must be signed, in any order that a list can have. Contents are the buffer they
came from and its form (plain, signed), so that a write from a freed, unsigned or foreign buffer
shows. `McLib` is an external model of libmc from its use in `CopyFiles`: a write goes on after `mcWrite` returns,
a call made before its answer has been taken is refused, and the answer may then be taken for that of the refused call, which is
what happens to a file after an empty one. `mcClose` always succeeds in the model; its result is ignored by the code.

`SequentialCopy` is the promise: entries are copied in order, a complete one is not touched again, and
success means that all are complete. It is made for *regular* lists: no file is empty and the last entry is not a folder. On other lists it does not
hold of the code; the hazards at `system.c:1877` and `system.c:1922` say why.

### The card's file system and cross-linked files: `McFs`, `CrossLink`

`McFs` is the part of `mctools.c` that reads and writes a card: `fat` and the directory entry on each `page`. `Chain` follows
`GetFatTableNextIndexData`, `Scan` is `ScanThroughDirEnt` in its two modes, `FindFile` and `FreePage` are
`GetFileData` and `GetSetFileData` on top of it, and `LastOf` is the walk to the end of a chain in `AddFATRecord`. A read fails
or not; a write that fails may have reached its page, since `WriteCluster` writes the pages of a
cluster one by one. `outside` are clusters in front of the data area that a write has hit.

A card (`Cards`) is a FAT and pages together with where everything is on them: the clusters of the root and of each folder (`root`, `chain`), the
record of each folder in the root (`record`), that of the executable in its folder (`executable`). `CardsAssumption` says what a
formatted card is: the folders are found, have clusters of their own and as many as their records need; the executable is
there, and no other file has a name of the table; a free cluster has no link. The last is an assumption on whoever freed the cluster: a file system
that only took the bit off, as the unused `DeleteFATRecord` of `mctools.c` (300-336) would, leaves a link in
it, and a failure between the two writes of `AddFATRecord` then leads a chain to where that link points; such cards are left out.

`CrossLink` extends it with the EE (`CreateCrossLinkedFiles` in `system.c`, whose two loops skip the executable's
own name, and the loop of `CleanupMultiInstallation`) and the IOP, which serves a batch of at most `MaxEntries`
names. For each name the IOP does the steps of `CreateNewVirtualDirent`: `ReadFolder`, then `FillFreePage`, or
`AddFATRecord`, `MarkNewCluster`, `PlaceEntry`; then `GrowFolder`; or those of `DeleteVirtualDirent`. `target` is the
cluster that `AddFATRecord` answers, as the signed number that the caller's arithmetic makes of it. The EE goes on after as
many names as the IOP *counts*, not after those that it has tried, which is why a failure shifts the rest.

### Installation to a card and its removal: `McInstall`

One card that is moved between `Consoles`, and the program that runs on the one it is in. A path is a system folder (`I`, `A`, `E`,
`C`, or `CONF` for the rest) and a file. `shared` are the names that share clusters, `lost` those of them whose clusters have been freed
by the removal of another: MCMAN does that, MCTOOLS does not. `uninst` and `legacy` are `FMCBUINST.dat` (versions 1.00
and 2.00) and `uninstall.dat`.

The menu is `Poll` (`GetNumMemcardsInserted`, with the flag that it sets and forgets), one action for each event and `Dismiss`.
`PerformInstallation` is `BeginInstall` (the list: `Counted` is its first half, `List` its second), `GetAllBaseFileStats`,
`AddDirContents`, `CheckSpace`, the cleanup (`ListFolder`, `DeleteFile` one by one, `EndCleanup`), `CreateBasicFolders`,
`CopyFile`, `GenerateUninstallFile` and `CreateCrossLinkedFiles`. `CleanupMultiInstallation` is `BeginCleanupMulti`, `ReadUninstallFile`,
`DeleteUninstallFile`, `DeleteCrossLinkedFiles`, `DeleteUnneeded` and the same cleanup. The copy is that of
`CopyFiles` entry by entry (its refinement theorem says it may be), the cross-linking that of `CrossLink` with any outcome.
Answers that the code ignores are ignored; those that it overwrites are overwritten. `MoveCard` and `Reset` switch to a new console or start the
program again; a cleanup does not take the lock against the power button, so that `Reset` stands for that, too.

`Console` and `SysExecFile` are `UpdateRegionalPaths`: the region's letter, and the name of the executable that a console looks for.

### Hard disk: `Mbr`, `HddInstall`

`Mbr` is a start of the console: the ROM, the MBR program's checks (`CheckDisk`), `Mount`, `OpenTarget` over the list of
targets, and its EELOAD (`LoadTarget`). `HddInstall` extends it with the installer: `InstallFHDB`, `CleanupFHDB` and
`FormatHDD` of the menu, and the steps of `PerformHDDInstallation`: the list, the applications'
partition, the removal of old files, folders, then for each entry a mount if another partition is mounted (`MountTarget`), the blocks of the MBR program
(`WriteMbrBlock`, `SetOsdMbr`) or a file (`OpenDestFile`, `WriteDestFile`), and `EnableHDDBooting`. Files that are handled alike
are one entry: `"boot"` are those of the package's BOOT-HDD, `"app"` those of APPS-HDD; the folders that `CopyFilesToHDD` makes for them
(`system.c` 988-1012) are not entries of their own, since a folder is mounted for and fails as a file is.
`EnableHDDBooting` asks the configuration memory three things, one after the other (`ReadConfig`, `WriteConfig`, `CloseConfig`, each with the
opening before it); each is asked again while the answer is an error. `OpResult` is `"error"` between such an answer and the next call, and nothing makes the errors end. `Restart` may cut the installer off between any two steps and starts the console; `StartInstaller` comes back from whatever
it has come to. `unseen` counts failures whose answers the code ignores; properties of success are stated for behaviours in which there was
none.

## 3. What is checked

| Run | Bounds | Question |
|---|---|---|
| `page_cache` | 2 blocks of 2 pages, 2 slots, 2 contents, 1 fault | reads and writes of 3 pages that share and do not share blocks force flushes; does the cache implement the store, and does every call end? |
| `page_cache_flush_result` | the same, 2 faults | does a flush report a failed block? **No** |
| `mc_maint` | 3 units | hand-shake, buffers, results, power button, for any number of operations one after the other |
| `mc_maint_modules` | 3 units | does the menu always get its modules back? **No** |
| `copy_files` | every list of 1 to 4 entries that starts with a file; 2 handles | every property of the copy and its refinement |
| `copy_files_final_sync` | the same | is there a write to wait for at the end? **No** |
| `mc_fs` | 9 clusters of 2 pages, 5 names in 2 folders, batches of 2, 3 cards, 2 faults | is every name created and removed, and nothing else changed? |
| `mc_fs_alloc` | the same | does `AddFATRecord` answer a cluster or 0? **No** |
| `mc_install` | 5 consoles (early and late, 3 regions, PSX and DEX), 3 cards, 1 failure or reset | any sequence of operations on a card: does each leave what it promises, and does none break the links of another? |
| `mc_install_downgrade` | the same, no failure | does a removal keep the folder of its console? **No** |
| `hdd_boot` | MBR program of 2 blocks, 2 failures or resets | any sequence of operations on a disk and starts from it |
| `hdd_boot_sector` | the same | does the console start what has been installed? **No** |

Bounds. Two slots and three pages are the fewest with which a miss finds the cache full; two blocks
of two pages have a block with a neighbour that is not cached and two dirty pages that share a
block; a fault may come at any step of any call, and the theorems of section 4 have no bound on them. Three units have a
first, a middle and a last one, the three cases of the loops with two buffers. Four entries allow a file, a folder, a file and another entry after it; lists of an installation
start with the files of the system folder, hence with a file.

Two pages to a cluster let a folder be full up to its cluster, or not; five names with the executable's second
give both loops of the creation a batch that is full and one that is not; three cards have room, a deleted entry, or too few free
clusters. The five consoles have each a different executable, folder or type, so that each row of the
tables and each case of the removal is taken by one of them; sequences of operations are not bounded, only failures and resets are.
`NoFileLost` allows one reset and is tight: a second one, in the removal that repairs the first,
loses a file (the uninstallation file is deleted before the links). Two blocks make a MBR program that can be a mixture; two troubles
allow an installation that fails, or is cut off, and another failure after it.

Every property has a mutant of the code that violates it, given as a "Faulty variant" before the definition it changes.

Fairness. `PageCache`: the RPC thread goes on with a call it has begun. `McMaint`: both threads
run when they can, which the main thread's wait for each frame and the blocking calls justify, and the IOP answers;
nobody has to start or cancel anything. `CopyFiles`: the same for the copy and for the IOP. `Loop`,
`Poll` and the rest of the main loop have no separate fairness: a main thread that only polls
never keeps the worker from running, because each is fair by itself.

`CrossLink`: the two processors take turns, each waits for the other's answer only, and one next-state
relation is fair. `HddInstall`: an operation that has begun, and a start, go on by themselves (`WF_vars(Install)`, `WF_vars(Start)`);
nobody has to choose anything in the menu. No fairness makes the configuration memory answer without an error: an installation may ask it for ever
(879-904), with the lock held. `Ends` therefore says of an installation that it ends *if* the errors do (`ConfigAnswers`, `<>[](OpResult = "ok")`), whatever else has
failed; without that condition TLC finds the behaviour that repeats the first call. `McInstall` states safety only.

Deadlock is checked for `PageCache`, `McInstall` and `HddInstall`. `McMaint` stops when the console has been switched off, `CopyFiles`
when it has returned and `CrossLink` when all is removed, so it is not checked there: `OperationReturns`, `CommandsAnswered`, `Returns` and `Finishes` are.

### Findings

1. `FlushPageCache` answers the outcome of the last block (`cache.c:123`). A failed block is reported only if it
   is the last of the card; its pages are dropped in any case.
2. A dump or restoration of a card that does not answer returns with the IOP still in MCTOOLS
   (`system.c:2473`, 2477, 2570, 2574).
3. A list that ends in a folder frees the last file's buffer twice and closes its handle twice (`system.c:1922`).

4. `AddFATRecord` answers a negative error in an unsigned, and its caller takes it for a cluster: on a card without a free cluster the
   new directory entry goes over the FAT (`mctools.c:655`).
5. The removal of a multi-installation of a European console deletes that console's own folder: a `break` is missing (`system.c:2237`).
6. `HDDCheckSectorErrorStatus` asks for the SMART status a second time: a disk with a sector error is installed to and never
   starts (`system.c:3098`).

## 4. What is proved

For every value of the constants that the named assumptions allow, each as a theorem of `Spec` (the safety part, no fairness):

* **`PageCacheProofs`** - `IInv` is inductive. `UniquePages` needs that the page a miss is
  about has no slot until it is filled (`RequestOK`), `Coherent` that a clean page of
  a block without dirty ones is what the card holds (`SafePagesOK`) until the flush ends and empties every slot. `OnlyDirtyBlocksChange` follows from
  `FlushOK`, one action at a time.
* **`PageCacheRefinement`** - `PageCache` implements `PageStore`: every step maps to a step or a stutter. `BufferOK` and
  `CleanFlushOK` say where a page's content is while its block is rewritten, so that `View` does not change.
* **`McMaintProofs`** - `IInv` is inductive. `FirstCommandOK` and `StopOK` say for each place of the main thread
  which wake-ups are pending and where the worker may be: the hand-shake of the two threads. `CodeOK` and `StateOK` tie the
  result code that the main thread polls to the job in progress. `DumpOK` and `RestoreOK` are the loop
  invariants of the two buffers, `FlightOK` which call may be in flight and where: after an operation only the read of a cluster by a dump whose image
  could not be written, which is what `PowerOffSafe` allows.
* **`CopyFilesProofs`** - `IInv` is inductive, and on regular lists `CopyFiles` implements `SequentialCopy`.
  `WriteOK` ties the write under way to the buffer, `RegularWriteOK` to the entry before the loop's, `CopiedOK` says that
  everything before is whole.

* **`HddInstallProofs`** - `IInv` is inductive. `MountOK` and `PlaceOK` say which entry and which partition the installer is at;
  `CopyOK` and `EnableOK` that the entries before it are whole, which with `EnabledOK` (booting is enabled by the last call but one, after all files) gives
  `FirstInstallSafe` and, with `InstalledOK`, `InstalledIsWhole`. `OffOK`, `LoadOK` and `OthersOK` are what the start adds to it.
  `BInv` is inductive beside it: `ErrorOK`, `FormattedOK` and `RemovedOK` follow what the start will depend on through an
  operation, `StartInstalledOK` and `StartRemovedOK` say which places a start that has not stumbled passes. `BootsAsLeft` follows.

* **`McInstallProofs`** - three invariants.
  `IInv`: the flag of a card is looked at once, in the menu; `FlagOK` says that it tells at least what the card does, `PassedOK` carries what
  it has said through the making of the list to the cleanup. `CleanedWithoutLinks` follows.
  `TInv` holds whatever fails: `ListOK` (what the list has in it, for the flags of the user), `CountOK` (how many entries have been counted),
  `CopiedOK` (what has been copied is whole), `CnfKept` and the types. `TypeOK` and `ListCovered` follow; they need that the counts of
  `Counted`, made by the flags alone, are those of the list, a case for each table (`CountedEntries`).
  `SInv` holds as long as nothing has failed: `OneFile` (there is one uninstallation file at most, and the console it is by has its whole
  installation on the card), `NoFileAt`, `ReadOK`, `UnlinkedOK`, `KeptOK` and `CleanOK` follow a removal from step to step, `LostOK` says
  that clusters are lost only by a cleanup of what an interrupted removal has left, `SharedOK` that the file names what shares clusters.
  `LinksRecorded`, `NoFileLost` and `DowngradeExact` follow, and `ServesConsoles` is inductive beside them. `NoFileLost` has the hypothesis
  that it has in the runs, one reset at most: TLC refutes it for two.

* **`SequenceLemmas`** - lemmas about `ToSet` of concatenations and tails and about `FlattenSeq`, which is a fold, hence a recursion. The induction
  theorems of the library take an operator; `Induct` states induction for a *set* of numbers, which the provers can use, and is derived
  from the fact that every set of natural numbers has a least member.

The theorems about `McInstall` are for every set of consoles, cards and packages that its assumptions allow. They say that a retail console
looks for an executable in the table of names and that a PSX is Japanese and late (`ConsolesAssumption`), that
the package has nothing for the system folders (`PackageAssumption`: its folders are other folders), and that a card that is put in or restored is one
an installation has left, with the uninstallation file of its version (`CardsAssumption`). The bound on failures may be any number.

* **`CrossLinkProofs`** - `EInv` is inductive by itself: the two loops of the EE and how far the IOP is with a batch.
  For the card, `IInv` says that there are sequences of clusters, one for each folder, which are its chain. They are witnesses of the invariant and not
  variables; lemmas say that `ScanThroughDirEnt` and `AddFATRecord`, which follow the FAT by a recursive function, follow these sequences.
  `CardOK` holds whatever fails: each folder keeps the clusters it had and may get others that were free on the card. `CallOK` says what a call
  has found out about the folder it is in. `SoundOK` holds while nothing has failed and the card has had room: the chains are apart, as long as
  their records need, and a name has an entry exactly if it is done (`Done`). `TypeOK`, `ChainsOK`, `AllCreated` and `AllDeleted` follow.
  `FoldersAndLinksKept`, which is the part of `OthersKept` about folders and links, is proved for any number of failures. All of
  `OthersKept` is proved for one failure at most (`CalmOK`: the chains are still apart, though the last cluster of one may
  be free). With two failures it does not hold for every table: `AddFATRecord` links a free cluster to folder A, fails to mark it, and the directory entry fails
  as well; folder B then gets the same cluster, and the next names of A overwrite the entries of B. It takes a table that returns to A after B, which
  that of `system.c` does not, so that the run, with two failures, holds.

Only model-checked: the liveness properties (`CallEnds`, `CommandsAnswered`, `OperationReturns`, `Returns`, `Finishes`, `Ends`), which the prover does
not reach, and `OthersKept` for two failures.

## 5. What is not modelled, and what is left

* The arithmetic of free space (`ReqSpaceCalc.c`, `GetMcFreeSpace`, `HDDCheckHasSpace`): it decides only whether an installation begins, and is a
  choice. That clusters are added to bytes (`system.c:1731`) is a hazard without a property.
* A restoration that stops half-way leaves a card of two file systems, for which `McInstall` has no state; `McMaint` has its steps.
* A worker that is late to sleep when the next operation sends its command (`WorkerAsleep`), the failure of a reallocation of the list beyond what
  `ListCovered` allows, and lists of a copy with an empty file beyond `WriteFromOwnBuffer` and `Returns`: hazards without a property.
* What a repeated installation that is cut off leaves of the one before: `FirstInstallSafe` is about a console that did not start from its disk.
* Two cards in two slots: operations work on one of them, and the flags are kept for each.
* The start of the program (`main.c`), and the power button before the lock exists.
* Signing (`libsecr.c`, SECRMAN, SECRSIF): straight dialogues with hardware that keeps the state; each answer is checked and the code gives up.
  `Sign` of `CopyFiles` stands for their outcomes.
* The user interface (menus, fonts, textures, pads, translations): input and output. Which message is shown for which code is not modelled.
* ECC and checksums of pages, texts of paths and messages, code under `#if 0`.

Left: cards whose free clusters keep a link; tables for which two failures do no harm; a restoration that stops half-way; the composition of `CrossLink` with `PageStore` in place of the atomic
writes of `McFs`, which the refinement of the page cache would justify but for the flush between them.
