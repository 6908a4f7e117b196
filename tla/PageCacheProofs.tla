--------------------------- MODULE PageCacheProofs ---------------------------
(***************************************************************************)
(* Proofs about PageCache, for every size of the card, of its blocks and   *)
(* of the cache, any set of contents and any number of failures: the       *)
(* inductive invariant, and that the cache implements PageStore.           *)
(***************************************************************************)
EXTENDS PageCache, TLAPS

-----------------------------------------------------------------------------
(* Arithmetic of pages and blocks *)

(* Multiplication by a natural number is monotonic. *)
LEMMA MulMonotonic ==
  ASSUME NEW a \in Nat, NEW b \in Nat, NEW c \in Nat, a <= b
  PROVE  a * c <= b * c
  OBVIOUS

(* The pages WriteBlock programs belong to the card and to the block it erased. *)
LEMMA PageOfBlock ==
  ASSUME NEW b \in 0 .. NumBlocks - 1, NEW o \in Offsets
  PROVE  /\ b * BlockSize + o \in Pages
         /\ Block(b * BlockSize + o) = b
         /\ (b * BlockSize + o) % BlockSize = o
<1>1. b + 1 \in Nat /\ b + 1 <= NumBlocks /\ NumBlocks \in Nat /\ BlockSize \in Nat \ {0}
  BY CacheAssumption
<1>2. (b + 1) * BlockSize <= NumBlocks * BlockSize
  BY <1>1, MulMonotonic
<1>3. (b + 1) * BlockSize = b * BlockSize + BlockSize
  BY <1>1
<1>4. b * BlockSize \in Nat /\ NumBlocks * BlockSize \in Nat
  BY <1>1
<1>5. b * BlockSize + o \in Pages
  BY <1>1, <1>2, <1>3, <1>4 DEF Pages, Offsets
<1>6. (b * BlockSize + o) \div BlockSize = b /\ (b * BlockSize + o) % BlockSize = o
  BY <1>1, Z3 DEF Offsets
<1> QED
  BY <1>5, <1>6 DEF Block

(* Every page is one of the offsets of one of the blocks. *)
LEMMA BlockOfPage ==
  ASSUME NEW p \in Pages
  PROVE  /\ Block(p) \in 0 .. NumBlocks - 1
         /\ p % BlockSize \in Offsets
         /\ p = Block(p) * BlockSize + (p % BlockSize)
<1>1. p \in Nat /\ p < NumBlocks * BlockSize /\ NumBlocks \in Nat /\ BlockSize \in Nat \ {0}
  BY CacheAssumption DEF Pages
<1>2. /\ p \div BlockSize \in Nat
      /\ p % BlockSize \in 0 .. BlockSize - 1
      /\ p = (p \div BlockSize) * BlockSize + (p % BlockSize)
  BY <1>1, Z3
<1>3. ASSUME NumBlocks <= p \div BlockSize PROVE FALSE
  <2>1. NumBlocks * BlockSize <= (p \div BlockSize) * BlockSize
    BY <1>1, <1>2, <1>3, MulMonotonic
  <2>2. (p \div BlockSize) * BlockSize \in Nat /\ NumBlocks * BlockSize \in Nat
    BY <1>1, <1>2
  <2> QED
    BY <1>1, <1>2, <2>1, <2>2
<1> QED
  BY <1>1, <1>2, <1>3 DEF Block, Offsets

(* Two pages of one block with the same offset are the same page. *)
LEMMA SamePage ==
  ASSUME NEW p \in Pages, NEW q \in Pages,
         Block(p) = Block(q), p % BlockSize = q % BlockSize
  PROVE  p = q
  BY BlockOfPage

LEMMA ZeroInPages == 0 \in Pages /\ 0 \in Offsets
<1>1. 1 * 1 <= NumBlocks * 1 /\ NumBlocks * 1 = NumBlocks /\ BlockSize * NumBlocks >= 1 * NumBlocks
  BY CacheAssumption, MulMonotonic
<1> QED
  BY <1>1, CacheAssumption DEF Pages, Offsets

(* The block FlushBlock assembles is made of contents. *)
LEMMA MergedType ==
  ASSUME TypeOK, NEW b \in 0 .. NumBlocks - 1
  PROVE  Merged(b) \in [Offsets -> Contents]
<1>1. ASSUME NEW i \in Offsets PROVE b * BlockSize + i \in Pages
  BY PageOfBlock
<1> QED
  BY <1>1 DEF Merged, TypeOK, DirtyIn, DirtySlots

-----------------------------------------------------------------------------
(* The invariant *)

LEMMA InitInv == Init => IInv
<1> SUFFICES ASSUME Init PROVE IInv
  OBVIOUS
<1>1. FlushRequest \in Requests /\ Done("flush", TRUE) \in Replies
  BY ZeroInPages DEF FlushRequest, Requests, Done, Answer, Replies, Contents
<1>2. TypeOK
  <2>1. card \in [Pages -> Contents] /\ BlankBuffer \in [Offsets -> Contents]
    BY DEF Init, Contents, BlankBuffer
  <2>2. 0 \in 0 .. NumBlocks /\ 0 \in 0 .. MaxFaults
    BY CacheAssumption
  <2>3. slot \in [Slots -> [PageNum : Pages, data : Contents, exists : BOOLEAN, dirty : BOOLEAN]]
    BY ZeroInPages DEF Init, Contents, EmptySlot
  <2> QED
    BY <1>1, <2>1, <2>2, <2>3, ZeroInPages DEF Init, TypeOK
<1>3. SlotsOK /\ RequestOK /\ UniquePages /\ Coherent
  BY DEF Init, SlotsOK, RequestOK, UniquePages, Coherent, EmptySlot, PageIn, FlushRequest
<1>4. FlushOK /\ SafePagesOK /\ BufferOK /\ CleanFlushOK
  BY DEF Init, FlushOK, SafePagesOK, BufferOK, CleanFlushOK, Flushing, Writing
<1> QED
  BY <1>2, <1>3, <1>4 DEF IInv

(* What the actions share: the types of the constants they assign, of an
   answer, of the failure count and of the state a failed block leaves. *)
LEMMA ConstantTypes ==
  /\ FlushRequest \in Requests
  /\ EmptySlot \in [PageNum : Pages, data : Contents, exists : BOOLEAN, dirty : BOOLEAN]
  /\ BlankBuffer \in [Offsets -> Contents]
  /\ 0 \in 0 .. NumBlocks
  /\ Blank \in Contents /\ Data \subseteq Contents
  /\ \A op \in {"read", "write", "flush"}, p \in Pages, d \in Contents, ok \in BOOLEAN :
       Answer(op, p, d, ok) \in Replies
  /\ \A op \in {"read", "write", "flush"}, ok \in BOOLEAN : Done(op, ok) \in Replies
<1>1. 0 \in 0 .. NumBlocks
  BY CacheAssumption
<1> QED
  BY <1>1, ZeroInPages
  DEF FlushRequest, Requests, EmptySlot, BlankBuffer, Answer, Done, Replies, Contents

LEMMA FaultType == ASSUME TypeOK, Fault PROVE faults' \in 0 .. MaxFaults
  BY CacheAssumption DEF Fault, TypeOK

LEMMA NextBlockType ==
  ASSUME TypeOK, NEW ok \in BOOLEAN, NextBlock(ok), BlockNum < NumBlocks
  PROVE  /\ phase' \in {"idle", "fill", "block", "erase", "program"}
         /\ BlockNum' \in 0 .. NumBlocks
         /\ offset' \in Offsets
         /\ BlockBuffer' \in [Offsets -> Contents]
         /\ result' \in BOOLEAN
<1>1. BlockNum' \in 0 .. NumBlocks
  BY CacheAssumption DEF NextBlock, TypeOK
<1> QED
  BY <1>1, ZeroInPages, ConstantTypes DEF NextBlock

LEMMA BlockFailsType ==
  ASSUME TypeOK, BlockFails, BlockNum < NumBlocks, card' \in [Pages -> Contents]
  PROVE  TypeOK'
<1>1. NextBlock(FALSE) /\ Fault
  BY DEF BlockFails
<1>2. /\ phase' \in {"idle", "fill", "block", "erase", "program"}
      /\ BlockNum' \in 0 .. NumBlocks
      /\ offset' \in Offsets
      /\ BlockBuffer' \in [Offsets -> Contents]
      /\ result' \in BOOLEAN
  BY <1>1, NextBlockType
<1>3. faults' \in 0 .. MaxFaults
  BY <1>1, FaultType
<1> QED
  BY <1>2, <1>3 DEF BlockFails, TypeOK

LEMMA ReturnType ==
  ASSUME TypeOK, NEW r \in Replies, Return(r)
  PROVE  /\ phase' \in {"idle", "fill", "block", "erase", "program"}
         /\ request' \in Requests
         /\ reply' \in Replies
         /\ CacheInitialized' \in BOOLEAN
         /\ BlockNum' \in 0 .. NumBlocks
         /\ offset' \in Offsets
         /\ BlockBuffer' \in [Offsets -> Contents]
         /\ result' \in BOOLEAN
  BY ConstantTypes DEF Return, flushVars, TypeOK

(* The type invariant, one action at a time. *)
LEMMA TypeStep == TypeOK /\ FlushOK /\ [Next]_vars => TypeOK'
<1> SUFFICES ASSUME TypeOK, FlushOK, [Next]_vars
             PROVE  TypeOK'
  OBVIOUS
<1> DEFINE SlotType == [PageNum : Pages, data : Contents, exists : BOOLEAN, dirty : BOOLEAN]
<1>1. CASE InitPageCache
  BY <1>1, ConstantTypes DEF InitPageCache, TypeOK, flushVars
<1>2. ASSUME NEW p \in CallerPages, Call(p) PROVE TypeOK'
  <2>0. p \in Pages
    BY CacheAssumption
  <2>1. CASE ReadHit(p)
    <3>1. PICK s \in Slots : Return(Answer("read", p, slot[s].data, TRUE))
      BY <2>1 DEF ReadHit, IsFirst, Hits
    <3>2. Answer("read", p, slot[s].data, TRUE) \in Replies
      BY <2>0, ConstantTypes DEF TypeOK
    <3> QED
      BY <2>1, <3>1, <3>2, ReturnType DEF ReadHit, TypeOK
  <2>2. CASE ReadDirect(p)
    <3>1. Answer("read", p, card[p], TRUE) \in Replies /\ Done("read", FALSE) \in Replies
      BY <2>0, ConstantTypes DEF TypeOK
    <3>2. faults' \in 0 .. MaxFaults
      BY <2>2, FaultType DEF ReadDirect, TypeOK
    <3> QED
      BY <2>2, <3>1, <3>2, ReturnType DEF ReadDirect, TypeOK
  <2>3. CASE ReadMiss(p)
    BY <2>3, <2>0 DEF ReadMiss, Miss, flushVars, TypeOK, Requests, Contents
  <2>4. ASSUME NEW d \in Data, WriteHit(p, d) PROVE TypeOK'
    <3>1. PICK s \in Slots : slot' = [slot EXCEPT ![s].data = d, ![s].dirty = TRUE]
      BY <2>4 DEF WriteHit, IsFirst, Hits
    <3>2. slot' \in [Slots -> SlotType]
      BY <3>1, ConstantTypes DEF TypeOK
    <3>3. Done("write", TRUE) \in Replies
      BY ConstantTypes
    <3> QED
      BY <2>4, <3>2, <3>3, ReturnType DEF WriteHit, TypeOK
  <2>5. ASSUME NEW d \in Data, WriteMiss(p, d) PROVE TypeOK'
    BY <2>5, <2>0 DEF WriteMiss, Miss, flushVars, TypeOK, Requests, Contents
  <2> QED
    BY <1>2, <2>1, <2>2, <2>3, <2>4, <2>5 DEF Call
<1>3. CASE WriteUninitialized
  BY <1>3, ConstantTypes, ReturnType DEF WriteUninitialized, TypeOK
<1>4. CASE FlushUninitialized
  BY <1>4, ConstantTypes, ReturnType DEF FlushUninitialized, TypeOK
<1>5. CASE FillRead
  <2>1. request.page \in Pages /\ card[request.page] \in Contents
    BY DEF TypeOK, Requests
  <2>2. Answer("read", request.page, card[request.page], TRUE) \in Replies /\ Done("read", FALSE) \in Replies
    BY <2>1, ConstantTypes
  <2>3. PICK s \in Slots :
          \/ /\ slot' = [slot EXCEPT ![s] = [PageNum |-> request.page, data |-> card[request.page],
                                             exists |-> TRUE, dirty |-> FALSE]]
             /\ Return(Answer("read", request.page, card[request.page], TRUE))
             /\ UNCHANGED faults
          \/ Return(Done("read", FALSE)) /\ Fault /\ UNCHANGED slot
    BY <1>5 DEF FillRead
  <2>4. slot' \in [Slots -> SlotType]
    <3>1. CASE slot' = [slot EXCEPT ![s] = [PageNum |-> request.page, data |-> card[request.page],
                                            exists |-> TRUE, dirty |-> FALSE]]
      BY <2>1, <3>1 DEF TypeOK
    <3>2. CASE UNCHANGED slot
      BY <3>2 DEF TypeOK
    <3> QED
      BY <2>3, <3>1, <3>2
  <2>5. faults' \in 0 .. MaxFaults
    BY <2>3, FaultType DEF TypeOK
  <2> QED
    BY <1>5, <2>2, <2>3, <2>4, <2>5, ReturnType DEF FillRead, TypeOK
<1>6. CASE FillWrite
  <2>1. request.page \in Pages /\ request.data \in Contents
    BY DEF TypeOK, Requests
  <2>2. slot' \in [Slots -> SlotType]
    BY <1>6, <2>1 DEF FillWrite, TypeOK, IsFirst, Free
  <2> QED
    BY <1>6, <2>2, ConstantTypes, ReturnType DEF FillWrite, TypeOK
<1>7. CASE BeginFlush
  BY <1>7, ConstantTypes DEF BeginFlush, TypeOK
<1>8. CASE FlushNoMemory
  <2>1. Done(request.op, FALSE) \in Replies
    BY ConstantTypes DEF TypeOK, Requests
  <2>2. faults' \in 0 .. MaxFaults
    BY <1>8, FaultType DEF FlushNoMemory
  <2> QED
    BY <1>8, <2>1, <2>2, ReturnType DEF FlushNoMemory, TypeOK
<1>9. CASE SkipBlock
  BY <1>9, NextBlockType DEF SkipBlock, TypeOK
<1>10. CASE ReadBlock
  <2>1. BlockNum \in 0 .. NumBlocks - 1 /\ BlockNum < NumBlocks
    BY <1>10, CacheAssumption DEF ReadBlock, TypeOK
  <2>2. Merged(BlockNum) \in [Offsets -> Contents]
    BY <2>1, MergedType
  <2>3. CASE BlockFails
    BY <1>10, <2>1, <2>3, BlockFailsType DEF ReadBlock, TypeOK
  <2> QED
    BY <1>10, <2>2, <2>3 DEF ReadBlock, TypeOK
<1>11. CASE EraseBlock
  <2>1. BlockNum < NumBlocks
    BY <1>11 DEF EraseBlock, FlushOK, Writing
  <2>2. card' \in [Pages -> Contents]
    BY <1>11, ConstantTypes DEF EraseBlock, Erased, TypeOK
  <2>3. CASE BlockFails
    BY <2>1, <2>2, <2>3, BlockFailsType
  <2> QED
    BY <1>11, <2>2, <2>3, ZeroInPages DEF EraseBlock, TypeOK
<1>12. CASE ProgramPage
  <2>1. BlockNum < NumBlocks
    BY <1>12 DEF ProgramPage, FlushOK, Writing
  <2>2. card' \in [Pages -> Contents]
    BY <1>12 DEF ProgramPage, TypeOK
  <2>3. CASE BlockFails
    BY <2>1, <2>2, <2>3, BlockFailsType
  <2>4. CASE NextBlock(TRUE) /\ UNCHANGED <<CacheInitialized, slot, request, failed, faults, reply>>
    BY <2>1, <2>2, <2>4, NextBlockType DEF TypeOK
  <2>5. CASE /\ offset + 1 < BlockSize /\ offset' = offset + 1
             /\ UNCHANGED <<phase, BlockNum, BlockBuffer, result>>
             /\ UNCHANGED <<CacheInitialized, slot, request, failed, faults, reply>>
    <3>1. offset' \in Offsets
      BY <2>5, CacheAssumption DEF TypeOK, Offsets
    <3> QED
      BY <2>2, <2>5, <3>1 DEF TypeOK
  <2> QED
    BY <1>12, <2>3, <2>4, <2>5 DEF ProgramPage
<1>13. CASE EndFlush
  <2>1. Done(request.op, result) \in Replies
    BY ConstantTypes DEF TypeOK, Requests
  <2> QED
    BY <1>13, <2>1, ConstantTypes DEF EndFlush, TypeOK
<1>14. CASE Reboot
  <2>1. faults' \in 0 .. MaxFaults /\ failed' \in BOOLEAN
    BY <1>14, FaultType DEF Reboot, TypeOK
  <2> QED
    BY <1>14, <2>1, ConstantTypes, ZeroInPages DEF Reboot, TypeOK
<1>15. CASE UNCHANGED vars
  BY <1>15 DEF vars, TypeOK
<1> QED
  BY <1>1, <1>2, <1>3, <1>4, <1>5, <1>6, <1>7, <1>8, <1>9, <1>10, <1>11, <1>12, <1>13,
     <1>14, <1>15 DEF Next, FlushStep

(* The page of a block's offset, and a dirty page in the buffer, which FlushBlock
   copies over what it has read; the pages without one stay as the card has them. *)
LEMMA MergedAt ==
  ASSUME TypeOK, UniquePages, NEW p \in Pages
  PROVE  /\ \A s \in Slots : slot[s].exists /\ slot[s].PageNum = p =>
              Merged(Block(p))[p % BlockSize] = IF slot[s].dirty THEN slot[s].data ELSE card[p]
         /\ SlotsOf(p) = {} => Merged(Block(p))[p % BlockSize] = card[p]
<1> DEFINE b == Block(p)
           D == {s \in DirtyIn(b) : slot[s].PageNum = p}
<1>1. p % BlockSize \in Offsets /\ p = b * BlockSize + (p % BlockSize)
  BY BlockOfPage
<1>2. Merged(b)[p % BlockSize] = IF D = {} THEN card[p] ELSE slot[CHOOSE s \in D : TRUE].data
  <2> DEFINE q == b * BlockSize + (p % BlockSize)
             E == {s \in DirtyIn(b) : slot[s].PageNum = q}
  <2>1. Merged(b)[p % BlockSize] = IF E = {} THEN card[q] ELSE slot[CHOOSE s \in E : TRUE].data
    BY <1>1 DEF Merged
  <2>2. p = q
    BY <1>1
  <2> HIDE DEF q
  <2> QED
    BY <2>1, <2>2
<1>3. D = {s \in Slots : slot[s].exists /\ slot[s].dirty /\ slot[s].PageNum = p}
  BY DEF DirtyIn, DirtySlots
<1>4. ASSUME NEW s \in Slots, slot[s].exists, slot[s].PageNum = p
      PROVE  Merged(b)[p % BlockSize] = IF slot[s].dirty THEN slot[s].data ELSE card[p]
  <2>1. D \subseteq {s}
    BY <1>3, <1>4 DEF UniquePages
  <2>2. CASE slot[s].dirty
    <3>1. D = {s}
      BY <1>3, <1>4, <2>1, <2>2
    <3>2. (CHOOSE t \in D : TRUE) = s
      BY <3>1
    <3> QED
      BY <1>2, <2>2, <3>1, <3>2
  <2>3. CASE ~slot[s].dirty
    <3>1. D = {}
      BY <1>3, <2>1, <2>3
    <3> QED
      BY <1>2, <2>3, <3>1
  <2> QED
    BY <2>2, <2>3
<1>5. SlotsOf(p) = {} => D = {}
  BY <1>3 DEF SlotsOf
<1> QED
  BY <1>2, <1>4, <1>5

(* A page a slot holds is a page of the card, in one of its blocks. *)
LEMMA SlotPage ==
  ASSUME TypeOK, NEW s \in Slots
  PROVE  PageIn(s) \in Pages /\ Block(PageIn(s)) \in 0 .. NumBlocks - 1
<1>1. PageIn(s) \in Pages
  BY DEF TypeOK, PageIn
<1> QED
  BY <1>1, BlockOfPage

LEMMA NotDirty ==
  ASSUME NEW s \in Slots, slot[s].exists, DirtyIn(Block(PageIn(s))) = {}
  PROVE  ~slot[s].dirty
  BY DEF DirtyIn, DirtySlots, PageIn

(* Everything of the invariant but the types. *)
Parts ==
  /\ SlotsOK /\ RequestOK /\ UniquePages /\ Coherent
  /\ FlushOK /\ SafePagesOK /\ BufferOK /\ CleanFlushOK

LEMMA PartsStep == IInv /\ [Next]_vars => Parts'
<1> SUFFICES ASSUME IInv, [Next]_vars PROVE Parts'
  OBVIOUS
<1>0. /\ TypeOK /\ SlotsOK /\ RequestOK /\ UniquePages /\ Coherent
      /\ FlushOK /\ SafePagesOK /\ BufferOK /\ CleanFlushOK
  BY DEF IInv
<1>1. CASE InitPageCache
  BY <1>0, <1>1, CacheAssumption
  DEF Parts, InitPageCache, EmptySlot, flushVars, TypeOK, SlotsOK, PageIn, RequestOK, Hits,
      UniquePages, Coherent, FlushOK, Flushing, Writing, DirtyIn, DirtySlots, SafePagesOK,
      BufferOK, SlotsOf, CleanFlushOK
<1>2. ASSUME NEW p \in CallerPages, ReadHit(p) PROVE Parts'
  BY <1>0, <1>2, CacheAssumption
  DEF Parts, ReadHit, Return, flushVars, IsFirst, Hits, TypeOK, SlotsOK, EmptySlot, PageIn, RequestOK, Hits,
      UniquePages, Coherent, FlushOK, Flushing, Writing, DirtyIn, DirtySlots, SafePagesOK,
      BufferOK, SlotsOf, CleanFlushOK
<1>3. ASSUME NEW p \in CallerPages, ReadDirect(p) PROVE Parts'
  <2>1. phase' = "idle" /\ request' = FlushRequest
    BY <1>3 DEF ReadDirect, Return
  <2>2. UNCHANGED <<card, slot, CacheInitialized, failed, flushVars>>
    BY <1>3 DEF ReadDirect, Return
  <2> QED
    BY <1>0, <1>3, <2>1, <2>2, CacheAssumption
    DEF Parts, ReadDirect, flushVars, TypeOK, SlotsOK, EmptySlot, PageIn, RequestOK, Hits, UniquePages,
        Coherent, FlushOK, Flushing, Writing, DirtyIn, DirtySlots, SafePagesOK, BufferOK,
        SlotsOf, CleanFlushOK
<1>4. ASSUME NEW p \in CallerPages, ReadMiss(p) PROVE Parts'
  BY <1>0, <1>4, CacheAssumption
  DEF Parts, ReadMiss, Miss, flushVars, TypeOK, SlotsOK, EmptySlot, PageIn, RequestOK, Hits, UniquePages,
      Coherent, FlushOK, Flushing, Writing, DirtyIn, DirtySlots, SafePagesOK, BufferOK,
      SlotsOf, CleanFlushOK
<1>5. ASSUME NEW p \in CallerPages, NEW d \in Data, WriteHit(p, d) PROVE Parts'
  <2>1. PICK s \in Slots : slot[s].PageNum = p /\ slot' = [slot EXCEPT ![s].data = d, ![s].dirty = TRUE]
    BY <1>5 DEF WriteHit, IsFirst, Hits
  <2>2. slot[s].exists
    BY <1>0, <2>1, CacheAssumption DEF SlotsOK, EmptySlot
  <2>3. SlotsOK' /\ RequestOK'
    BY <1>0, <1>5, <2>1, <2>2 DEF WriteHit, Return, flushVars, SlotsOK, PageIn, RequestOK, FlushRequest, TypeOK
  <2> QED
    BY <1>0, <1>5, <2>1, <2>2, <2>3
    DEF Parts, WriteHit, Return, flushVars, TypeOK, PageIn, UniquePages, Coherent, FlushOK,
        Flushing, Writing, DirtyIn, DirtySlots, SafePagesOK, BufferOK, SlotsOf, CleanFlushOK
<1>6. ASSUME NEW p \in CallerPages, NEW d \in Data, WriteMiss(p, d) PROVE Parts'
  BY <1>0, <1>6, CacheAssumption
  DEF Parts, WriteMiss, Miss, flushVars, TypeOK, SlotsOK, EmptySlot, PageIn, RequestOK, Hits, UniquePages,
      Coherent, FlushOK, Flushing, Writing, DirtyIn, DirtySlots, SafePagesOK, BufferOK,
      SlotsOf, CleanFlushOK
<1>7. CASE WriteUninitialized
  BY <1>0, <1>7, CacheAssumption
  DEF Parts, WriteUninitialized, Return, flushVars, TypeOK, SlotsOK, EmptySlot, PageIn, RequestOK, Hits,
      UniquePages, Coherent, FlushOK, Flushing, Writing, DirtyIn, DirtySlots, SafePagesOK,
      BufferOK, SlotsOf, CleanFlushOK
<1>8. CASE FlushUninitialized
  BY <1>0, <1>8, CacheAssumption
  DEF Parts, FlushUninitialized, Return, flushVars, TypeOK, SlotsOK, EmptySlot, PageIn, RequestOK, Hits,
      UniquePages, Coherent, FlushOK, Flushing, Writing, DirtyIn, DirtySlots, SafePagesOK,
      BufferOK, SlotsOf, CleanFlushOK
<1>9. CASE FillRead
  <2>20. FlushOK' /\ SafePagesOK' /\ BufferOK' /\ CleanFlushOK'
    BY <1>0, <1>9, CacheAssumption
    DEF FillRead, Return, flushVars, Free, IsFirst, Answer, TypeOK, FlushOK, Flushing, Writing,
        DirtyIn, DirtySlots, SafePagesOK, PageIn, BufferOK, SlotsOf, CleanFlushOK
  <2>0. request.page \in CallerPages /\ Hits(request.page) = {}
    BY <1>0, <1>9 DEF FillRead, RequestOK
  <2>9. PICK s \in Slots :
          \/ /\ slot' = [slot EXCEPT ![s] = [PageNum |-> request.page, data |-> card[request.page],
                                             exists |-> TRUE, dirty |-> FALSE]]
          \/ UNCHANGED slot
    BY <1>9 DEF FillRead
  <2>10. phase' = "idle" /\ request' = FlushRequest /\ UNCHANGED CacheInitialized
    BY <1>9 DEF FillRead, Return
  <2>1. SlotsOK'
    BY <1>0, <1>9, <2>0, <2>9, <2>10 DEF FillRead, SlotsOK, PageIn, TypeOK
  <2>2. RequestOK'
    BY <2>10 DEF RequestOK, FlushRequest
  <2>3. UniquePages'
    BY <1>0, <2>0, <2>9 DEF UniquePages, Hits, TypeOK
  <2>4. Coherent'
    BY <1>0, <1>9, <2>9 DEF FillRead, Coherent, TypeOK
  <2> QED
    BY <2>20, <2>1, <2>2, <2>3, <2>4 DEF Parts
<1>10. CASE FillWrite
  <2>20. FlushOK' /\ SafePagesOK' /\ BufferOK' /\ CleanFlushOK'
    BY <1>0, <1>10, CacheAssumption
    DEF FillWrite, Return, flushVars, Free, IsFirst, TypeOK, FlushOK, Flushing, Writing,
        DirtyIn, DirtySlots, SafePagesOK, PageIn, BufferOK, SlotsOf, CleanFlushOK
  <2>0. request.page \in CallerPages /\ Hits(request.page) = {}
    BY <1>0, <1>10 DEF FillWrite, RequestOK
  <2>9. PICK s \in Slots :
          slot' = [slot EXCEPT ![s] = [PageNum |-> request.page, data |-> request.data,
                                             exists |-> TRUE, dirty |-> TRUE]]
    BY <1>10 DEF FillWrite
  <2>1. SlotsOK'
    BY <1>0, <1>10, <2>0, <2>9 DEF FillWrite, Return, SlotsOK, EmptySlot, PageIn, TypeOK
  <2>2. RequestOK'
    BY <1>10 DEF FillWrite, Return, RequestOK, FlushRequest
  <2>3. UniquePages'
    BY <1>0, <2>0, <2>9 DEF UniquePages, Hits, TypeOK
  <2>4. Coherent'
    BY <1>0, <1>10, <2>9 DEF FillWrite, Coherent, TypeOK
  <2> QED
    BY <2>20, <2>1, <2>2, <2>3, <2>4 DEF Parts
<1>11. CASE BeginFlush
  <2>20. SlotsOK' /\ RequestOK' /\ UniquePages' /\ Coherent' /\ FlushOK' /\ BufferOK'
    BY <1>0, <1>11, CacheAssumption
    DEF BeginFlush, CallsFlush, TypeOK, SlotsOK, EmptySlot, PageIn, RequestOK, Hits, UniquePages,
        Coherent, FlushOK, Flushing, Writing, DirtyIn, DirtySlots, BufferOK, SlotsOf
  <2>0. \A s \in Slots : slot[s].exists /\ ~slot[s].dirty => slot[s].data = card[PageIn(s)]
    BY <1>0, <1>11 DEF BeginFlush, CallsFlush, Coherent, PageIn
  <2>6. SafePagesOK'
    <3> SUFFICES ASSUME NEW s \in Slots', slot'[s].exists, (DirtyIn(Block(PageIn(s))))' = {}
                 PROVE  slot'[s].data = card'[(PageIn(s))']
      BY DEF SafePagesOK
    <3> QED
      BY <1>11, <2>0, NotDirty DEF BeginFlush, PageIn, DirtyIn, DirtySlots, Slots
  <2>8. CleanFlushOK'
    BY <1>0, <1>11, <2>0, SlotPage DEF BeginFlush, CleanFlushOK, PageIn, Writing, Slots
  <2> QED
    BY <2>20, <2>6, <2>8 DEF Parts
<1>12. CASE FlushNoMemory
  <2>20. SlotsOK' /\ UniquePages' /\ Coherent' /\ FlushOK' /\ SafePagesOK' /\ BufferOK' /\ CleanFlushOK'
    BY <1>0, <1>12, CacheAssumption
    DEF FlushNoMemory, Return, flushVars, CallsFlush, TypeOK, SlotsOK, EmptySlot, PageIn, UniquePages,
        Coherent, FlushOK, Flushing, Writing, DirtyIn, DirtySlots, SafePagesOK, BufferOK,
        SlotsOf, CleanFlushOK
  <2>2. RequestOK'
    BY <1>12 DEF FlushNoMemory, Return, RequestOK, FlushRequest
  <2> QED
    BY <2>20, <2>2 DEF Parts
<1>13. CASE SkipBlock
  <2>20. SlotsOK' /\ RequestOK' /\ UniquePages' /\ Coherent' /\ FlushOK' /\ SafePagesOK' /\ BufferOK'
    BY <1>0, <1>13, CacheAssumption
    DEF SkipBlock, NextBlock, TypeOK, SlotsOK, EmptySlot, PageIn, RequestOK, Hits, UniquePages, Coherent,
        FlushOK, Flushing, Writing, DirtyIn, DirtySlots, SafePagesOK, BufferOK, SlotsOf
  <2>8. CleanFlushOK'
    <3>1. \A s \in Slots : slot[s].exists /\ Block(PageIn(s)) = BlockNum => ~slot[s].dirty
      BY <1>13, NotDirty DEF SkipBlock
    <3>2. BlockNum \in Int /\ \A s \in Slots : Block(PageIn(s)) \in Int
      BY <1>0, SlotPage DEF TypeOK
    <3> QED
      BY <1>0, <1>13, <3>1, <3>2 DEF SkipBlock, NextBlock, CleanFlushOK, PageIn, Writing, Flushing, Slots
  <2> QED
    BY <2>20, <2>8 DEF Parts
<1>14. CASE ReadBlock
  <2>20. SlotsOK' /\ RequestOK' /\ UniquePages' /\ Coherent' /\ FlushOK' /\ SafePagesOK'
    BY <1>0, <1>14, CacheAssumption
    DEF ReadBlock, BlockFails, NextBlock, TypeOK, SlotsOK, PageIn, RequestOK, Hits,
        UniquePages, Coherent, FlushOK, Flushing, Writing, DirtyIn, DirtySlots, SafePagesOK
  <2>1. CASE BlockFails
    BY <2>1, <2>20 DEF BlockFails, NextBlock, BufferOK, CleanFlushOK, Writing, Parts
  <2>2. CASE /\ BlockBuffer' = Merged(BlockNum) /\ phase' = "erase" 
             /\ UNCHANGED <<slot, card, BlockNum, failed>>
    <3>1. BufferOK'
      BY <1>0, <2>2, MergedAt DEF BufferOK, SlotsOf
    <3>2. CleanFlushOK'
      BY <1>0, <1>14, <2>2, MergedAt, SlotPage DEF ReadBlock, CleanFlushOK, PageIn, Flushing, Writing, Slots
    <3> QED
      BY <2>20, <3>1, <3>2 DEF Parts
  <2> QED
    BY <1>14, <2>1, <2>2 DEF ReadBlock
<1>15. CASE EraseBlock
  <2>20. SlotsOK' /\ RequestOK' /\ UniquePages' /\ Coherent' /\ FlushOK' /\ CleanFlushOK'
    BY <1>0, <1>15, CacheAssumption
    DEF EraseBlock, BlockFails, NextBlock, Erased, TypeOK, SlotsOK, PageIn, RequestOK, Hits,
        UniquePages, Coherent, FlushOK, Flushing, Writing, DirtyIn, DirtySlots, CleanFlushOK
  <2>0. \A p \in Pages : Block(p) # BlockNum => card'[p] = card[p]
    BY <1>0, <1>15 DEF EraseBlock, Erased, TypeOK
  <2>6. SafePagesOK'
    BY <1>0, <1>15, <2>0, SlotPage DEF EraseBlock, BlockFails, NextBlock, SafePagesOK, PageIn, Flushing, Slots, DirtyIn, DirtySlots, FlushOK, Writing
  <2>7. BufferOK'
    <3>1. \A p \in Pages : p % BlockSize \in Nat
      BY BlockOfPage DEF Offsets
    <3> QED 
      BY <1>15, <3>1 DEF EraseBlock, BlockFails, NextBlock, BufferOK, Writing, Offsets
  <2> QED
    BY <2>20, <2>6, <2>7 DEF Parts
<1>16. CASE ProgramPage
  <2>20. SlotsOK' /\ RequestOK' /\ UniquePages' /\ Coherent' /\ FlushOK'
    BY <1>0, <1>16, CacheAssumption
    DEF ProgramPage, BlockFails, NextBlock, TypeOK, SlotsOK, PageIn, RequestOK, Hits,
        UniquePages, Coherent, FlushOK, Flushing, Writing, DirtyIn, DirtySlots
  <2>0. BlockNum \in 0 .. NumBlocks-1
    BY <1>0, <1>16, CacheAssumption DEF ProgramPage, FlushOK, TypeOK, Writing
  <2>1. offset \in Offsets /\ BlockBuffer[offset] \in Contents
    BY <1>0 DEF TypeOK
  <2>2. \A p \in Pages : Block(p) # BlockNum => card'[p] = card[p]
    BY <1>0, <1>16, <2>0, <2>1, PageOfBlock DEF ProgramPage, TypeOK
  <2>3. SafePagesOK'
    BY <1>0, <1>16, <2>2, SlotPage DEF ProgramPage, BlockFails, NextBlock, SafePagesOK, PageIn, Flushing, Slots, DirtyIn, DirtySlots, FlushOK, Writing
  <2>5. CASE BlockFails
    BY <2>20, <2>3, <2>5 DEF BlockFails, NextBlock, BufferOK, CleanFlushOK, Writing, Parts
  <2>4. CASE ~BlockFails
    <3>1. card' = [card EXCEPT ![BlockNum * BlockSize + offset] = BlockBuffer[offset]]
      BY <1>16, <2>4 DEF ProgramPage
    <3>2. \A p \in Pages : Block(p) = BlockNum /\ p % BlockSize < offset + 1 => card'[p] = BlockBuffer[p % BlockSize]
      <4> SUFFICES ASSUME NEW p \in Pages, Block(p) = BlockNum, p % BlockSize < offset + 1
                   PROVE  card'[p] = BlockBuffer[p % BlockSize]
        OBVIOUS
      <4>1. p % BlockSize \in Offsets /\ p = BlockNum * BlockSize + (p % BlockSize)
        BY BlockOfPage
      <4>2. CASE p % BlockSize = offset
        BY <1>0, <3>1, <4>1, <4>2 DEF TypeOK
      <4>3. CASE p % BlockSize # offset
        <5>1. p % BlockSize < offset
          BY <4>1, <4>3, <2>1 DEF Offsets
        <5>2. BlockBuffer[p % BlockSize] = card[p]
          BY <1>0, <1>16, <5>1 DEF BufferOK, ProgramPage, Writing
        <5>3. p # BlockNum * BlockSize + offset
          BY <4>3, <2>0, <2>1, PageOfBlock
        <5> QED
          BY <1>0, <3>1, <5>2, <5>3 DEF TypeOK
      <4> QED
        BY <4>2, <4>3
    <3>7. BufferOK'
      BY <1>16, <2>4, <3>2 DEF ProgramPage, NextBlock, BufferOK, Writing
    <3>8. CleanFlushOK'
      <4>1. CASE offset + 1 < BlockSize
        BY <1>0, <1>16, <2>2, <2>4, <4>1, <2>0, SlotPage DEF ProgramPage, CleanFlushOK, Writing, Flushing, PageIn, Slots
      <4>2. CASE ~(offset + 1 < BlockSize)
        <5>1. \A p \in Pages : Block(p) = BlockNum => card'[p] = BlockBuffer[p % BlockSize]
          <6>1. \A p \in Pages : p % BlockSize < offset + 1
            BY <4>2, <2>1, BlockOfPage, CacheAssumption DEF Offsets
          <6> QED
            BY <6>1, <3>2
        <5> QED
          BY <1>0, <1>16, <2>2, <2>4, <4>2, <5>1, <2>0, SlotPage DEF ProgramPage, NextBlock, CleanFlushOK, Writing, Flushing, PageIn, Slots
      <4> QED
        BY <4>1, <4>2
    <3> QED
      BY <2>20, <2>3, <3>7, <3>8 DEF Parts
  <2> QED
    BY <2>4, <2>5
<1>17. CASE EndFlush
  <2>20. SlotsOK' /\ UniquePages' /\ Coherent' /\ FlushOK' /\ SafePagesOK' /\ BufferOK' /\ CleanFlushOK'
    BY <1>0, <1>17, CacheAssumption
    DEF EndFlush, EmptySlot, TypeOK, SlotsOK, EmptySlot, PageIn, UniquePages, Coherent, FlushOK, Flushing,
        Writing, DirtyIn, DirtySlots, SafePagesOK, BufferOK, SlotsOf, CleanFlushOK
  <2>2. RequestOK'
    BY <1>0, <1>17, CacheAssumption DEF EndFlush, RequestOK, FlushRequest, Hits, EmptySlot
  <2> QED
    BY <2>20, <2>2 DEF Parts
<1>18. CASE Reboot
  BY <1>0, <1>18, CacheAssumption
  DEF Parts, Reboot, EmptySlot, FlushRequest, TypeOK, SlotsOK, EmptySlot, PageIn, RequestOK, Hits, UniquePages,
      Coherent, FlushOK, Flushing, Writing, DirtyIn, DirtySlots, SafePagesOK, BufferOK,
      SlotsOf, CleanFlushOK
<1>19. CASE UNCHANGED vars
  <2>1. SlotsOK' /\ RequestOK' /\ UniquePages' /\ Coherent'
    BY <1>0, <1>19
    DEF vars, SlotsOK, EmptySlot, PageIn, RequestOK, Hits, UniquePages, Coherent, Slots, FlushRequest
  <2>2. FlushOK' /\ SafePagesOK'
    BY <1>0, <1>19
    DEF vars, FlushOK, SafePagesOK, Flushing, Writing, DirtyIn, DirtySlots, PageIn, Slots
  <2>3. BufferOK' /\ CleanFlushOK'
    BY <1>0, <1>19
    DEF vars, BufferOK, CleanFlushOK, Flushing, Writing, PageIn, SlotsOf, Slots
  <2> QED
    BY <2>1, <2>2, <2>3 DEF Parts
<1> QED
  BY <1>1, <1>2, <1>3, <1>4, <1>5, <1>6, <1>7, <1>8, <1>9, <1>10, <1>11, <1>12, <1>13, <1>14, <1>15, <1>16, <1>17, <1>18, <1>19
  DEF Parts, Next, Call, FlushStep

LEMMA InvStep == IInv /\ [Next]_vars => IInv'
<1> SUFFICES ASSUME IInv, [Next]_vars PROVE IInv'
  OBVIOUS
<1>1. TypeOK'
  BY TypeStep DEF IInv
<1>2. Parts'
  BY PartsStep
<1> QED
  BY <1>1, <1>2 DEF IInv, Parts

(* The inductive invariant holds in every reachable state. *)
THEOREM Invariance == Spec => []IInv
<1>1. Init => IInv
  BY InitInv
<1>2. IInv /\ [Next]_vars => IInv'
  BY InvStep
<1> QED
  BY <1>1, <1>2, PTL DEF Spec

(* Every variable keeps to its type (PageCache.tla, TypeOK), however many slots,
   blocks and failures there are. *)
THEOREM TypeCorrect == Spec => []TypeOK
<1>1. IInv => TypeOK
  BY DEF IInv
<1> QED
  BY <1>1, Invariance, PTL

(* No page ever occupies two slots: the "fact" of cache.c:32. *)
THEOREM PagesAreUnique == Spec => []UniquePages
<1>1. IInv => UniquePages
  BY DEF IInv
<1> QED
  BY <1>1, Invariance, PTL

(* Outside a flush every clean page of the cache equals the card's, also after
   flushes that failed half way (FlushPageCache empties the slots regardless). *)
THEOREM CacheIsCoherent == Spec => []Coherent
<1>1. IInv => Coherent
  BY DEF IInv
<1> QED
  BY <1>1, Invariance, PTL

(* The card is only ever changed in blocks that hold a dirty page. *)
THEOREM OnlyDirtyBlocks == Spec => OnlyDirtyBlocksChange
<1>1. IInv /\ [Next]_vars => [\A p \in Pages : card'[p] # card[p] => DirtyIn(Block(p)) # {}]_vars
  <2> SUFFICES ASSUME IInv, Next, NEW p \in Pages, card'[p] # card[p]
               PROVE  DirtyIn(Block(p)) # {}
    BY DEF vars
  <2>0. TypeOK /\ FlushOK
    BY DEF IInv
  <2>1. CASE EraseBlock
    <3>1. Block(p) = BlockNum
      BY <2>0, <2>1 DEF EraseBlock, Erased, TypeOK
    <3> QED
      BY <2>0, <2>1, <3>1 DEF FlushOK, Writing, EraseBlock
  <2>2. CASE ProgramPage
    <3>1. BlockNum \in 0 .. NumBlocks - 1 /\ offset \in Offsets
      BY <2>0, <2>2, CacheAssumption DEF FlushOK, Writing, ProgramPage, TypeOK
    <3>2. p = BlockNum * BlockSize + offset
      BY <2>0, <2>2 DEF ProgramPage, TypeOK
    <3>3. Block(p) = BlockNum
      BY <3>1, <3>2, PageOfBlock
    <3> QED
      BY <2>0, <2>2, <3>3 DEF FlushOK, Writing, ProgramPage
  <2>3. CASE ~EraseBlock /\ ~ProgramPage
    <3>1. UNCHANGED card
      BY <2>3 DEF Next, Call, FlushStep, InitPageCache, ReadHit, ReadDirect, ReadMiss, Miss, WriteHit,
         WriteMiss, WriteUninitialized, FlushUninitialized, FillRead, FillWrite, BeginFlush,
         FlushNoMemory, SkipBlock, ReadBlock, EndFlush, Reboot
    <3> QED
      BY <3>1
  <2> QED
    BY <2>1, <2>2, <2>3
<1> QED
  BY <1>1, Invariance, PTL DEF Spec, OnlyDirtyBlocksChange
=============================================================================
