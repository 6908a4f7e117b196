------------------------------ MODULE PageCache ------------------------------
(***************************************************************************)
(* The page cache of the MCTOOLS IOP module (mctools/src/cache.c) over the *)
(* raw memory card (MCIO.c): a fixed number of slots, filled on a miss and *)
(* all flushed at once, erase block by erase block, when none is free.     *)
(*                                                                         *)
(* One RPC thread calls it, so a call is a sequence of steps of which each *)
(* makes at most one operation on the card.  Any of them may fail, and the *)
(* IOP may be rebooted or lose power between any two of them.              *)
(***************************************************************************)
EXTENDS Integers

CONSTANTS
  NumBlocks,      \* CacheCardSizeBlocks
  BlockSize,      \* CacheBlockSize: pages of one erase block
  NumSlots,       \* PAGE_CACHE_SIZE
  CallerPages,    \* the pages the file system code reads and writes
  Data,           \* contents a caller can write
  Blank,          \* content of a page erased and not programmed again
  MaxFaults       \* bound on the failures of a behaviour

Pages == 0 .. NumBlocks * BlockSize - 1

(***************************************************************************)
(* Page 0 holds the superblock, which is read with McReadPage directly     *)
(* (mctools.c, GetCardFilesystemSuperblock) and never through the cache:   *)
(* 0 is also the PageNum of an empty slot.                                 *)
(***************************************************************************)
ASSUME CacheAssumption ==
  /\ NumBlocks \in Nat \ {0}
  /\ BlockSize \in Nat \ {0}
  /\ NumSlots \in Nat \ {0}
  /\ CallerPages \subseteq Pages \ {0}
  /\ Data # {} /\ Blank \notin Data
  /\ MaxFaults \in Nat

Slots == 1 .. NumSlots
Contents == Data \cup {Blank}
Block(p) == p \div BlockSize
Offsets == 0 .. BlockSize - 1

VARIABLES
  card,               \* contents of the memory card, page by page
  CacheInitialized,   \* InitPageCache has succeeded
  slot,               \* PageCache[]
  phase,              \* where the call in progress is, "idle" for none
  request,            \* the call in progress
  BlockNum,           \* the block FlushPageCache is at
  offset,             \* the page of that block WriteBlock is at
  BlockBuffer,        \* the block to be written, dirty pages merged
  result,             \* what FlushPageCache would return now: TRUE for >= 0
  failed,             \* a card operation of the last flush failed, or a reboot dropped dirty pages
  faults,             \* failures so far
  reply               \* the answer to the last call that ended

vars == <<card, CacheInitialized, slot, phase, request, BlockNum, offset,
          BlockBuffer, result, failed, faults, reply>>

Requests == [op : {"read", "write", "flush"}, page : Pages, data : Contents]
Replies == [op : {"read", "write", "flush"}, page : Pages, data : Contents, ok : BOOLEAN]

(* Faulty variant: a slot that is cleared keeps its PAGE_CACHE_PAGE_EXISTS. *)
EmptySlot_FlagKept == [PageNum |-> 0, data |-> Blank, exists |-> TRUE, dirty |-> FALSE]

EmptySlot == [PageNum |-> 0, data |-> Blank, exists |-> FALSE, dirty |-> FALSE]
FlushRequest == [op |-> "flush", page |-> 0, data |-> Blank]
BlankBuffer == [i \in Offsets |-> Blank]

Answer(op, page, data, ok) == [op |-> op, page |-> page, data |-> data, ok |-> ok]

(* The answers that carry no page: a flush or a write, and any call that failed. *)
Done(op, ok) == Answer(op, 0, Blank, ok)

-----------------------------------------------------------------------------
(* Faulty variant: the hit test asks for flags equal to PAGE_CACHE_PAGE_EXISTS. *)
Hits_FlagsEqual(p) == {s \in Slots : slot[s].PageNum = p /\ slot[s].exists /\ ~slot[s].dirty}

(* The hit test compares the page number alone, not PAGE_CACHE_PAGE_EXISTS. *)
Hits(p) == {s \in Slots : slot[s].PageNum = p}
Free == {s \in Slots : ~slot[s].exists}
IsFirst(s, S) == s \in S /\ \A t \in S : s <= t

DirtySlots == {s \in Slots : slot[s].exists /\ slot[s].dirty}
DirtyIn(b) == {s \in DirtySlots : Block(slot[s].PageNum) = b}

Fault == faults < MaxFaults /\ faults' = faults + 1

-----------------------------------------------------------------------------
Init ==
  /\ card \in [Pages -> Data]
  /\ CacheInitialized = FALSE
  /\ slot = [s \in Slots |-> EmptySlot]
  /\ phase = "idle"
  /\ request = FlushRequest
  /\ BlockNum = 0 /\ offset = 0 /\ BlockBuffer = BlankBuffer
  /\ result = TRUE /\ failed = FALSE /\ faults = 0
  /\ reply = Done("flush", TRUE)

flushVars == <<BlockNum, offset, BlockBuffer, result>>

(* A call ends without having touched the flush state. *)
Return(r) ==
  /\ phase' = "idle"
  /\ request' = FlushRequest
  /\ reply' = r
  /\ UNCHANGED <<CacheInitialized, flushVars>>

(***************************************************************************)
(* InitPageCache.  Both callers reboot the IOP just before (system.c:2099  *)
(* and 2278), so the module has just been loaded and holds no page.  One   *)
(* that fails (no card, no memory) leaves the module without a cache.      *)
(***************************************************************************)
InitPageCache ==
  /\ phase = "idle" /\ ~CacheInitialized
  /\ CacheInitialized' = TRUE
  /\ slot' = [s \in Slots |-> EmptySlot]
  /\ UNCHANGED <<card, phase, request, flushVars, failed, faults, reply>>

-----------------------------------------------------------------------------
(* ReadPageCached *)

ReadHit(p) ==
  /\ phase = "idle" /\ CacheInitialized
  /\ \E s \in Slots : /\ IsFirst(s, Hits(p))
                      /\ Return(Answer("read", p, slot[s].data, TRUE))
  /\ UNCHANGED <<card, slot, failed, faults>>

(* With no cache the page is read from the card directly. *)
ReadDirect(p) ==
  /\ phase = "idle" /\ ~CacheInitialized
  /\ \/ Return(Answer("read", p, card[p], TRUE)) /\ UNCHANGED faults
     \/ Return(Done("read", FALSE)) /\ Fault
  /\ UNCHANGED <<card, slot, failed>>

(* A miss of either call goes on to look for a free slot. *)
Miss(op, p, d) ==
  /\ phase = "idle" /\ CacheInitialized
  /\ Hits(p) = {}
  /\ phase' = "fill"
  /\ request' = [op |-> op, page |-> p, data |-> d]
  /\ UNCHANGED <<card, CacheInitialized, slot, flushVars, failed, faults, reply>>

ReadMiss(p) == Miss("read", p, Blank)

(* The slot is marked as occupied only once the page has been read. *)
FillRead ==
  /\ phase = "fill" /\ request.op = "read"
  /\ \E s \in Slots :
       /\ IsFirst(s, Free)
       /\ \/ /\ slot' = [slot EXCEPT ![s] =
                    [PageNum |-> request.page, data |-> card[request.page],
                     exists |-> TRUE, dirty |-> FALSE]]
             /\ Return(Answer("read", request.page, card[request.page], TRUE))
             /\ UNCHANGED faults
          \/ /\ Return(Done("read", FALSE))
             /\ Fault
             /\ UNCHANGED slot
  /\ UNCHANGED <<card, failed>>

-----------------------------------------------------------------------------
(* WritePageCached *)

(* Faulty variant: a hit does not mark the page as dirty. *)
WriteHit_NotDirty(p, d) ==
  /\ phase = "idle" /\ CacheInitialized
  /\ \E s \in Slots : IsFirst(s, Hits(p)) /\ slot' = [slot EXCEPT ![s].data = d]
  /\ Return(Done("write", TRUE))
  /\ UNCHANGED <<card, failed, faults>>

WriteHit(p, d) ==
  /\ phase = "idle" /\ CacheInitialized
  /\ \E s \in Slots :
       /\ IsFirst(s, Hits(p))
       /\ slot' = [slot EXCEPT ![s].data = d, ![s].dirty = TRUE]
  /\ Return(Done("write", TRUE))
  /\ UNCHANGED <<card, failed, faults>>

WriteMiss(p, d) == Miss("write", p, d)

FillWrite ==
  /\ phase = "fill" /\ request.op = "write"
  /\ \E s \in Slots :
       /\ IsFirst(s, Free)
       /\ slot' = [slot EXCEPT ![s] =
            [PageNum |-> request.page, data |-> request.data, exists |-> TRUE, dirty |-> TRUE]]
  /\ Return(Done("write", TRUE))
  /\ UNCHANGED <<card, failed, faults>>

(* With no cache a write is refused with -EINVAL. *)
WriteUninitialized ==
  /\ phase = "idle" /\ ~CacheInitialized
  /\ Return(Done("write", FALSE))
  /\ UNCHANGED <<card, slot, failed, faults>>

-----------------------------------------------------------------------------
(* FlushPageCache, called by the program or by a miss that found no free slot *)

FlushUninitialized ==
  /\ phase = "idle" /\ ~CacheInitialized
  /\ Return(Done("flush", TRUE))
  /\ UNCHANGED <<card, slot, failed, faults>>

CallsFlush == phase = "idle" \/ (phase = "fill" /\ Free = {})

BeginFlush ==
  /\ CallsFlush /\ CacheInitialized
  /\ phase' = "block"
  /\ BlockNum' = 0
  /\ result' = TRUE
  /\ failed' = FALSE
  /\ UNCHANGED <<card, CacheInitialized, slot, request, offset, BlockBuffer, faults, reply>>

(* The lists of a flush cannot be allocated: -ENOMEM, the cache is kept. *)
FlushNoMemory ==
  /\ CallsFlush /\ CacheInitialized
  /\ Return(Done(request.op, FALSE))
  /\ Fault
  /\ UNCHANGED <<card, slot, failed>>

(* The outcome of one block replaces the outcome of the blocks before it. *)
NextBlock(ok) ==
  /\ phase' = "block"
  /\ BlockNum' = BlockNum + 1
  /\ offset' = 0
  /\ BlockBuffer' = BlankBuffer
  /\ result' = ok

(* Faulty variant: the loop over the blocks does not stop at the last one. *)
SkipBlock_PastEnd ==
  /\ phase = "block"
  /\ DirtyIn(BlockNum) = {}
  /\ NextBlock(TRUE)
  /\ UNCHANGED <<card, CacheInitialized, slot, request, failed, faults, reply>>

SkipBlock ==
  /\ phase = "block" /\ BlockNum < NumBlocks
  /\ DirtyIn(BlockNum) = {}
  /\ NextBlock(TRUE)
  /\ UNCHANGED <<card, CacheInitialized, slot, request, failed, faults, reply>>

(* A card operation of the flush fails; the loop goes on with the next block. *)
BlockFails ==
  /\ NextBlock(FALSE)
  /\ Fault
  /\ failed' = TRUE
  /\ UNCHANGED <<CacheInitialized, slot, request, reply>>

(* Faulty variant: the block is not read from the card first. *)
Merged_DirtyOnly(b) ==
  [i \in Offsets |->
     LET dirty == {s \in DirtyIn(b) : slot[s].PageNum = b * BlockSize + i}
     IN  IF dirty = {} THEN Blank ELSE slot[CHOOSE s \in dirty : TRUE].data]

(* Faulty variant: the dirty pages are not copied over the card's. *)
Merged_CardOnly(b) == [i \in Offsets |-> card[b * BlockSize + i]]

(* The block as FlushBlock assembles it: the card's pages with the dirty ones over them. *)
Merged(b) ==
  [i \in Offsets |->
     LET p == b * BlockSize + i
         dirty == {s \in DirtyIn(b) : slot[s].PageNum = p}
     IN  IF dirty = {} THEN card[p] ELSE slot[CHOOSE s \in dirty : TRUE].data]

ReadBlock ==
  /\ phase = "block" /\ BlockNum < NumBlocks
  /\ DirtyIn(BlockNum) # {}
  /\ \/ /\ BlockBuffer' = Merged(BlockNum)
        /\ phase' = "erase"
        /\ UNCHANGED <<CacheInitialized, slot, request, BlockNum, offset, result, failed, faults, reply>>
     \/ BlockFails
  /\ UNCHANGED card

(* Faulty variant: the erase goes on after the block. *)
Erased_ToTheEnd(b) == [p \in Pages |-> IF Block(p) >= b THEN Blank ELSE card[p]]

Erased(b) == [p \in Pages |-> IF Block(p) = b THEN Blank ELSE card[p]]

(* A failed erase leaves the block as it was or erased. *)
EraseBlock ==
  /\ phase = "erase"
  /\ \/ /\ card' = Erased(BlockNum)
        /\ phase' = "program"
        /\ offset' = 0
        /\ UNCHANGED <<CacheInitialized, slot, request, BlockNum, BlockBuffer, result, failed, faults, reply>>
     \/ /\ card' \in {card, Erased(BlockNum)}
        /\ BlockFails

ProgramPage ==
  /\ phase = "program"
  /\ \/ /\ card' = [card EXCEPT ![BlockNum * BlockSize + offset] = BlockBuffer[offset]]
        /\ IF offset + 1 < BlockSize
           THEN /\ offset' = offset + 1
                /\ UNCHANGED <<phase, BlockNum, BlockBuffer, result>>
           ELSE NextBlock(TRUE)
        /\ UNCHANGED <<CacheInitialized, slot, request, failed, faults, reply>>
     \/ /\ BlockFails
        /\ UNCHANGED card

(***************************************************************************)
(* After the last block every slot is marked as available, and the call    *)
(* that flushed for want of a slot tries again if the result is >= 0.      *)
(***************************************************************************)
EndFlush ==
  /\ phase = "block" /\ BlockNum = NumBlocks
  /\ slot' = [s \in Slots |-> EmptySlot]
  /\ IF request.op # "flush" /\ result
     THEN /\ phase' = "fill"
          /\ UNCHANGED <<request, reply>>
     ELSE /\ phase' = "idle"
          /\ request' = FlushRequest
          /\ reply' = Done(request.op, result)
  /\ BlockNum' = 0 /\ result' = TRUE
  /\ UNCHANGED <<card, CacheInitialized, offset, BlockBuffer, failed, faults>>

-----------------------------------------------------------------------------
(***************************************************************************)
(* The IOP is rebooted, or the console loses power: the cache is gone and  *)
(* the card keeps what has been written.  It counts as a failure when it   *)
(* interrupts a call or drops dirty pages (CreateCrossLinkedFiles of       *)
(* system.c reboots without a flush when an alias cannot be made).         *)
(***************************************************************************)
Reboot ==
  /\ IF phase # "idle" \/ DirtySlots # {}
     THEN Fault /\ failed' = TRUE
     ELSE UNCHANGED <<faults, failed>>
  /\ CacheInitialized' = FALSE
  /\ slot' = [s \in Slots |-> EmptySlot]
  /\ phase' = "idle"
  /\ request' = FlushRequest
  /\ BlockNum' = 0 /\ offset' = 0 /\ BlockBuffer' = BlankBuffer /\ result' = TRUE
  /\ UNCHANGED <<card, reply>>

Call(p) ==
  \/ ReadHit(p) \/ ReadDirect(p) \/ ReadMiss(p)
  \/ \E d \in Data : WriteHit(p, d) \/ WriteMiss(p, d)

FlushStep ==
  \/ FillRead \/ FillWrite
  \/ BeginFlush \/ FlushNoMemory
  \/ SkipBlock \/ ReadBlock \/ EraseBlock \/ ProgramPage \/ EndFlush

Next ==
  \/ InitPageCache
  \/ \E p \in CallerPages : Call(p)
  \/ WriteUninitialized \/ FlushUninitialized
  \/ FlushStep
  \/ Reboot

Spec == Init /\ [][Next]_vars

(* The RPC thread runs a call it has begun to its end. *)
FairSpec == Spec /\ WF_vars(phase # "idle" /\ FlushStep)

-----------------------------------------------------------------------------
(* Properties *)

TypeOK ==
  /\ card \in [Pages -> Contents]
  /\ CacheInitialized \in BOOLEAN
  /\ slot \in [Slots -> [PageNum : Pages, data : Contents, exists : BOOLEAN, dirty : BOOLEAN]]
  /\ phase \in {"idle", "fill", "block", "erase", "program"}
  /\ request \in Requests
  /\ BlockNum \in 0 .. NumBlocks
  /\ offset \in Offsets
  /\ BlockBuffer \in [Offsets -> Contents]
  /\ result \in BOOLEAN
  /\ failed \in BOOLEAN
  /\ faults \in 0 .. MaxFaults
  /\ reply \in Replies

(* "A fact: Each page cannot occur twice in the cache." (cache.c:32), although
   a miss may flush and retry between the hit test and the filling of a slot. *)
UniquePages ==
  \A s, t \in Slots :
    slot[s].exists /\ slot[t].exists /\ slot[s].PageNum = slot[t].PageNum => s = t

(* Outside a flush a clean page of the cache is what the card holds, whatever
   failures earlier flushes met: a slot that outlived one would be stale. *)
Coherent ==
  phase \in {"idle", "fill"} =>
    \A s \in Slots : slot[s].exists /\ ~slot[s].dirty => slot[s].data = card[slot[s].PageNum]

(* The card changes only in blocks that hold a dirty page of the cache
   (FlushBlock leaves a block with nothing to flush alone). *)
OnlyDirtyBlocksChange ==
  [][\A p \in Pages : card'[p] # card[p] => DirtyIn(Block(p)) # {}]_vars

(* Every call ends: a flush leaves free slots behind, so the retry after it
   (goto RetryPageRead, goto RetryPageWrite) does not flush for ever. *)
CallEnds == (phase # "idle") ~> (phase = "idle")

(* cache.c:112: "group pages that belong to the same block together, and then
   write the block out": a flush that answers success has written every block. *)
FlushReportsFailure == [][EndFlush /\ result => ~failed]_vars

(***************************************************************************)
(* The cache implements PageStore.  A page's content is its slot's if it   *)
(* has one, else what the block being programmed will give it, else the    *)
(* card's.                                                                 *)
(***************************************************************************)
SlotsOf(p) == {s \in Slots : slot[s].exists /\ slot[s].PageNum = p}

View ==
  [p \in Pages |->
     IF SlotsOf(p) # {} THEN slot[CHOOSE s \in SlotsOf(p) : TRUE].data
     ELSE IF phase = "program" /\ Block(p) = BlockNum THEN BlockBuffer[p % BlockSize]
     ELSE card[p]]

Unsaved == {p \in Pages : \E s \in DirtySlots : slot[s].PageNum = p}

Store == INSTANCE PageStore WITH store <- View, unsaved <- Unsaved

(* The promise of PageStore: reads answer the last write through fills, flushes
   and retries, and only a failure loses pages, within the blocks at risk. *)
ImplementsStore == Store!Spec

-----------------------------------------------------------------------------
(***************************************************************************)
(* What every step keeps, from which UniquePages, Coherent and the         *)
(* refinement follow.                                                      *)
(***************************************************************************)
Flushing == phase \in {"block", "erase", "program"}
Writing == phase \in {"erase", "program"}
PageIn(s) == slot[s].PageNum

(* An empty slot carries page number 0, which no caller asks for. *)
SlotsOK ==
  /\ \A s \in Slots : IF slot[s].exists THEN PageIn(s) \in CallerPages
                                       ELSE slot[s] = EmptySlot
  /\ ~CacheInitialized => phase = "idle" /\ \A s \in Slots : ~slot[s].exists

(* The page a call is to fill a slot with is in none. *)
RequestOK ==
  /\ phase = "idle" => request = FlushRequest
  /\ phase = "fill" => request.op # "flush"
  /\ request.op = "write" => request.data \in Data
  /\ request.op # "flush" => request.page \in CallerPages /\ Hits(request.page) = {}

(* Where a flush is, and that it reports a success if nothing has failed. *)
FlushOK ==
  /\ Writing => BlockNum < NumBlocks /\ DirtyIn(BlockNum) # {}
  /\ Flushing /\ ~failed => result

(* A clean page whose block is not to be written stays what the card holds. *)
SafePagesOK ==
  Flushing =>
    \A s \in Slots :
      slot[s].exists /\ DirtyIn(Block(PageIn(s))) = {} => slot[s].data = card[PageIn(s)]

(* The buffer holds the block's dirty pages, and the card's content of the others. *)
BufferOK ==
  Writing =>
    \A p \in Pages : Block(p) = BlockNum =>
      /\ phase = "erase" /\ SlotsOf(p) = {} => BlockBuffer[p % BlockSize] = card[p]
      /\ phase = "program" /\ p % BlockSize < offset => BlockBuffer[p % BlockSize] = card[p]

(* In a flush that has met no failure a cached page is on the card when its
   block has been passed, in the buffer when its block is being programmed,
   and on the card also while it is clean and its block is still to come. *)
CleanFlushOK ==
  Flushing /\ ~failed =>
    \A s \in Slots : slot[s].exists =>
      LET p == PageIn(s)
      IN  /\ Block(p) < BlockNum => slot[s].data = card[p]
          /\ Block(p) > BlockNum /\ ~slot[s].dirty => slot[s].data = card[p]
          /\ Block(p) = BlockNum /\ phase = "block" /\ ~slot[s].dirty => slot[s].data = card[p]
          /\ Block(p) = BlockNum /\ Writing => slot[s].data = BlockBuffer[p % BlockSize]

IInv ==
  /\ TypeOK /\ SlotsOK /\ RequestOK /\ UniquePages /\ Coherent
  /\ FlushOK /\ SafePagesOK /\ BufferOK /\ CleanFlushOK
=============================================================================
