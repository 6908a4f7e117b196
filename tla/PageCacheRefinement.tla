------------------------ MODULE PageCacheRefinement ------------------------
(***************************************************************************)
(* The page cache implements PageStore, for every card, cache size and     *)
(* number of failures.  The lemmas say what a step does to the view of a   *)
(* page (View) and to the pages not yet saved (Unsaved); RefStep maps each *)
(* step of the cache to a step of the store or to none.                    *)
(***************************************************************************)
EXTENDS PageCacheProofs

(* A cached page is seen as its slot has it; another as the block being
   programmed or the card has it. *)
LEMMA ViewCached ==
  UniquePages => \A s \in Slots : slot[s].exists /\ PageIn(s) \in Pages => View[PageIn(s)] = slot[s].data
<1> SUFFICES ASSUME UniquePages, NEW s \in Slots, slot[s].exists, PageIn(s) \in Pages
             PROVE  View[PageIn(s)] = slot[s].data
  OBVIOUS
<1>1. SlotsOf(PageIn(s)) = {s}
  BY DEF SlotsOf, PageIn, UniquePages
<1>2. (CHOOSE t \in SlotsOf(PageIn(s)) : TRUE) = s
  BY <1>1
<1> QED
  BY <1>1, <1>2 DEF View

LEMMA ViewUncached ==
  \A p \in Pages : SlotsOf(p) = {} =>
    View[p] = IF phase = "program" /\ Block(p) = BlockNum THEN BlockBuffer[p % BlockSize] ELSE card[p]
  BY DEF View

(* The view, page by page, is what decides equality of views. *)
LEMMA ViewEqual == (\A p \in Pages : View'[p] = View[p]) => View' = View
  BY DEF View

LEMMA ViewType == TypeOK => View \in [Pages -> Contents]
<1> SUFFICES ASSUME TypeOK, NEW p \in Pages PROVE View[p] \in Contents
  BY DEF View
<1>1. CASE SlotsOf(p) = {}
  BY <1>1, ViewUncached, BlockOfPage DEF TypeOK
<1>2. CASE SlotsOf(p) # {}
  <2>1. (CHOOSE s \in SlotsOf(p) : TRUE) \in Slots
    BY <1>2 DEF SlotsOf
  <2> QED
    BY <1>2, <2>1 DEF View, TypeOK
<1> QED
  BY <1>1, <1>2

(* The same facts about the state after a step. *)
LEMMA ViewCachedNext ==
  UniquePages' =>
    \A s \in Slots : slot'[s].exists /\ slot'[s].PageNum \in Pages => View'[slot'[s].PageNum] = slot'[s].data
<1>1. (UniquePages => \A s \in Slots : slot[s].exists /\ slot[s].PageNum \in Pages =>
                       View[slot[s].PageNum] = slot[s].data)'
  BY ViewCached, PTL DEF PageIn
<1> QED
  BY <1>1 DEF Slots, Pages

LEMMA ViewUncachedNext ==
  \A p \in Pages : (SlotsOf(p))' = {} =>
    View'[p] = IF phase' = "program" /\ Block(p) = BlockNum' THEN BlockBuffer'[p % BlockSize] ELSE card'[p]
  BY DEF View

LEMMA ViewTypeNext == TypeOK' => View' \in [Pages -> Contents]
<1>1. (TypeOK => View \in [Pages -> Contents])'
  BY ViewType, PTL
<1> QED
  BY <1>1 DEF Pages, Contents

(* A cached page keeps its view while the slots are unchanged. *)
LEMMA SlotView ==
  ASSUME slot' = slot, NEW p \in Pages, SlotsOf(p) # {}
  PROVE  View'[p] = View[p]
<1>1. (SlotsOf(p))' = SlotsOf(p)
  BY DEF SlotsOf, Slots
<1> QED
  BY <1>1 DEF View, Pages

(* With slots and card unchanged outside the programming of a block, so is the view. *)
LEMMA SameView ==
  ASSUME slot' = slot, card' = card, phase # "program", phase' # "program"
  PROVE  View' = View /\ Unsaved' = Unsaved
  BY DEF View, SlotsOf, Unsaved, DirtySlots, Slots

(* A failed card operation does not change the view of the other blocks. *)
LEMMA FailedView ==
  ASSUME BlockFails, NEW p \in Pages, Block(p) # BlockNum, card'[p] = card[p]
  PROVE  View'[p] = View[p]
<1>1. slot' = slot /\ phase' = "block"
  BY DEF BlockFails, NextBlock
<1>2. CASE SlotsOf(p) # {}
  BY <1>1, <1>2, SlotView
<1>3. CASE SlotsOf(p) = {}
  <2>1. (SlotsOf(p))' = {}
    BY <1>1, <1>3 DEF SlotsOf, Slots
  <2> QED
    BY <1>1, <1>3, <2>1, ViewUncached, ViewUncachedNext
<1> QED
  BY <1>2, <1>3

LEMMA RefInit == Init => Store!Init
<1> SUFFICES ASSUME Init PROVE Store!Init
  OBVIOUS
<1>1. IInv
  BY InitInv
<1>2. View \in [Pages -> Contents]
  BY <1>1, ViewType DEF IInv
<1>3. Unsaved = {}
  BY DEF Init, Unsaved, DirtySlots, EmptySlot
<1>4. reply \in Replies /\ failed = FALSE
  BY <1>1 DEF Init, IInv, TypeOK
<1> QED
  BY <1>2, <1>3, <1>4 DEF Store!Init, Contents, Store!Contents, Replies, Store!Replies

(* A failure during a flush, or a reboot, that leaves the pages whose block
   holds no dirty page as they were is a Lose step of the store. *)
LEMMA LoseStep ==
  ASSUME TypeOK, TypeOK', failed' = TRUE,
         \A p \in Pages : DirtyIn(Block(p)) = {} => View'[p] = View[p],
         Unsaved' \subseteq Unsaved,
         reply' = reply \/ reply'.op = "flush" \/ ~reply'.ok
  PROVE  Store!Lose
<1>1. View' \in [Pages -> Contents]
  BY ViewTypeNext
<1>2. ASSUME NEW p \in Pages \ Store!AtRisk PROVE View'[p] = View[p]
  <2>1. ASSUME NEW s \in DirtyIn(Block(p)) PROVE FALSE
    <3>1. PageIn(s) \in Unsaved /\ Block(PageIn(s)) = Block(p)
      BY <2>1 DEF DirtyIn, DirtySlots, Unsaved, PageIn, TypeOK
    <3> QED
      BY <1>2, <3>1 DEF Store!AtRisk, Block
  <2> QED
    BY <2>1
<1>3. reply' \in Replies
  BY DEF TypeOK
<1> QED
  BY <1>1, <1>2, <1>3 DEF Store!Lose, Contents, Store!Contents, Replies, Store!Replies

(* Filling a free slot with a page no slot has changes the view of that page
   alone, and not even that when the slot takes the card's content. *)
LEMMA FillView ==
  ASSUME IInv, NEW s \in Slots, ~slot[s].exists, NEW q \in CallerPages, Hits(q) = {},
         NEW d \in Contents, NEW w \in BOOLEAN,
         slot' = [slot EXCEPT ![s] = [PageNum |-> q, data |-> d, exists |-> TRUE, dirty |-> w]],
         card' = card, phase = "fill", phase' = "idle"
  PROVE  /\ View' = [View EXCEPT ![q] = d]
         /\ View[q] = card[q]
         /\ Unsaved' = IF w THEN Unsaved \cup {q} ELSE Unsaved
<1>0. TypeOK /\ UniquePages /\ q \in Pages
  BY CacheAssumption DEF IInv
<1>1. SlotsOf(q) = {} /\ (SlotsOf(q))' = {s}
  BY <1>0 DEF SlotsOf, Hits, TypeOK, Slots
<1>2. View[q] = card[q]
  BY <1>0, <1>1, ViewUncached
<1>3. View'[q] = d
  <2>1. (CHOOSE t \in {s} : TRUE) = s
    OBVIOUS
  <2> QED
    BY <1>0, <1>1, <2>1 DEF View, TypeOK
<1>4. ASSUME NEW p \in Pages, p # q PROVE View'[p] = View[p]
  <2>1. (SlotsOf(p))' = SlotsOf(p)
    BY <1>0, <1>4 DEF SlotsOf, TypeOK, Slots
  <2>2. CASE SlotsOf(p) = {}
    BY <2>1, <2>2, ViewUncached, ViewUncachedNext
  <2>3. CASE SlotsOf(p) # {}
    <3> DEFINE t == CHOOSE t \in SlotsOf(p) : TRUE
    <3>1. t \in Slots /\ t # s
      BY <2>3 DEF SlotsOf
    <3>2. View'[p] = slot'[t].data /\ View[p] = slot[t].data
      BY <2>1, <2>3 DEF View
    <3> QED
      BY <1>0, <3>1, <3>2 DEF TypeOK
  <2> QED
    BY <2>2, <2>3
<1>5. Unsaved' = IF w THEN Unsaved \cup {q} ELSE Unsaved
  BY <1>0 DEF Unsaved, DirtySlots, TypeOK, Slots, Pages
<1>6. View' = [View EXCEPT ![q] = d]
  BY <1>3, <1>4 DEF View
<1> QED
  BY <1>2, <1>5, <1>6

(* Every step of the cache is a step of the store or leaves it as it is. *)
LEMMA RefStep == IInv /\ IInv' /\ [Next]_vars => [Store!Next]_(Store!vars)
<1> SUFFICES ASSUME IInv, IInv', [Next]_vars PROVE [Store!Next]_(Store!vars)
  OBVIOUS
<1>0. /\ TypeOK /\ SlotsOK /\ RequestOK /\ UniquePages /\ Coherent
      /\ FlushOK /\ SafePagesOK /\ BufferOK /\ CleanFlushOK
      /\ TypeOK' /\ UniquePages'
  BY DEF IInv
<1>r. reply' \in Store!Replies
  BY <1>0 DEF TypeOK, Replies, Store!Replies, Contents, Store!Contents
<1>n. ASSUME NEW p \in CallerPages
      PROVE  p \in Pages
  BY CacheAssumption
<1>q. /\ request.page \in Pages /\ request.data \in Contents
  BY <1>0 DEF TypeOK, Requests
<1>1. CASE InitPageCache
  <2>1. slot' = slot
    BY <1>0, <1>1 DEF InitPageCache, SlotsOK, TypeOK
  <2> QED
    BY <1>1, <2>1, SameView DEF InitPageCache, Store!vars
<1>2. ASSUME NEW p \in CallerPages, ReadHit(p) PROVE Store!Next
  <2>1. PICK s \in Slots : slot[s].PageNum = p /\ Return(Answer("read", p, slot[s].data, TRUE))
    BY <1>2 DEF ReadHit, IsFirst, Hits
  <2>2. View[p] = slot[s].data
    <3>1. slot[s].exists
      BY <1>0, <2>1, CacheAssumption DEF SlotsOK, EmptySlot
    <3> QED
      BY <1>0, <1>n, <2>1, <3>1, ViewCached DEF PageIn
  <2>3. UNCHANGED <<View, Unsaved, failed>>
    BY <1>2, <2>1, SameView DEF ReadHit, Return
  <2> QED
    BY <1>n, <2>1, <2>2, <2>3 DEF Store!Next, Store!Read, Return, Answer
<1>3. ASSUME NEW p \in CallerPages, ReadDirect(p) PROVE Store!Next
  <2>1. UNCHANGED <<View, Unsaved, failed>>
    BY <1>3, SameView DEF ReadDirect, Return
  <2>2. View[p] = card[p]
    BY <1>0, <1>3, <1>n, ViewUncached DEF ReadDirect, SlotsOK, SlotsOf
  <2>3. CASE Return(Answer("read", p, card[p], TRUE))
    BY <1>n, <2>1, <2>2, <2>3 DEF Store!Next, Store!Read, Return, Answer
  <2>4. CASE Return(Done("read", FALSE))
    BY <1>r, <2>1, <2>4 DEF Store!Next, Store!Refuse, Return, Done, Answer
  <2> QED
    BY <1>3, <2>3, <2>4 DEF ReadDirect
<1>4. ASSUME NEW p \in CallerPages, NEW d, ReadMiss(p) \/ WriteMiss(p, d)
      PROVE  UNCHANGED Store!vars
  BY <1>4, SameView DEF ReadMiss, WriteMiss, Miss, Store!vars
<1>5. ASSUME NEW p \in CallerPages, NEW d \in Data, WriteHit(p, d) PROVE Store!Next
  <2>1. PICK s \in Slots : slot[s].PageNum = p /\ slot' = [slot EXCEPT ![s].data = d, ![s].dirty = TRUE]
    BY <1>5 DEF WriteHit, IsFirst, Hits
  <2>2. slot[s].exists
    BY <1>0, <2>1, CacheAssumption DEF SlotsOK, EmptySlot
  <2>3. \A q \in Pages : (SlotsOf(q))' = SlotsOf(q)
    BY <1>0, <2>1 DEF SlotsOf, TypeOK, Slots
  <2>4. SlotsOf(p) = {s}
    BY <1>0, <2>1, <2>2 DEF SlotsOf, UniquePages
  <2>5. ASSUME NEW q \in Pages PROVE View'[q] = [View EXCEPT ![p] = d][q]
    <3>0. card' = card /\ phase # "program" /\ phase' # "program"
      BY <1>5 DEF WriteHit, Return
    <3>1. CASE q = p
      <4>1. (CHOOSE t \in {s} : TRUE) = s
        OBVIOUS
      <4>2. View'[p] = slot'[s].data
        BY <1>n, <2>3, <2>4, <4>1 DEF View
      <4> QED
        BY <1>0, <1>n, <2>1, <3>1, <4>2 DEF View, TypeOK
    <3>2. CASE q # p /\ SlotsOf(q) = {}
      BY <2>3, <3>0, <3>2 DEF View
    <3>3. CASE q # p /\ SlotsOf(q) # {}
      <4> DEFINE t == CHOOSE t \in SlotsOf(q) : TRUE
      <4>1. t \in Slots /\ t # s
        BY <2>1, <3>3 DEF SlotsOf
      <4>2. View'[q] = slot'[t].data /\ View[q] = slot[t].data
        BY <2>3, <3>3 DEF View
      <4> QED
        BY <1>0, <2>1, <3>3, <4>1, <4>2 DEF TypeOK, View
    <3> QED
      BY <3>1, <3>2, <3>3
  <2>6. View' = [View EXCEPT ![p] = d]
    BY <2>5 DEF View
  <2>7. Unsaved' = Unsaved \cup {p}
    BY <1>0, <1>n, <2>1, <2>2 DEF Unsaved, DirtySlots, TypeOK, Slots
  <2>8. reply'.op = "write" /\ reply'.ok /\ UNCHANGED failed
    BY <1>5 DEF WriteHit, Return, Done, Answer
  <2> QED
    BY <1>n, <1>r, <2>6, <2>7, <2>8 DEF Store!Next, Store!Write
<1>6. CASE WriteUninitialized \/ FlushUninitialized
  <2>1. UNCHANGED <<View, Unsaved, failed>>
    BY <1>6, SameView DEF WriteUninitialized, FlushUninitialized, Return
  <2>2. CASE WriteUninitialized
    BY <1>r, <2>1, <2>2 DEF WriteUninitialized, Store!Next, Store!Refuse, Return, Done, Answer
  <2>3. CASE FlushUninitialized
    <3>1. Unsaved = {}
      BY <1>0, <2>3 DEF FlushUninitialized, SlotsOK, Unsaved, DirtySlots
    <3>2. reply'.op = "flush" /\ reply'.ok
      BY <2>3 DEF FlushUninitialized, Return, Done, Answer
    <3>3. CASE ~failed
      BY <1>r, <2>1, <3>1, <3>2, <3>3 DEF Store!Next, Store!Save
    <3>4. CASE failed
      BY <1>0, <2>1, <3>1, <3>2, <3>4, LoseStep DEF Store!Next, TypeOK
    <3> QED
      BY <3>3, <3>4
  <2> QED
    BY <1>6, <2>2, <2>3
<1>7. CASE FillRead
  <2>0. request.page \in CallerPages /\ Hits(request.page) = {}
    BY <1>0, <1>7 DEF FillRead, RequestOK
  <2>1. card' = card /\ failed' = failed /\ phase = "fill"
    BY <1>7 DEF FillRead
  <2>2. PICK s \in Slots :
          /\ ~slot[s].exists
          /\ \/ /\ slot' = [slot EXCEPT ![s] = [PageNum |-> request.page, data |-> card[request.page],
                                                exists |-> TRUE, dirty |-> FALSE]]
                /\ Return(Answer("read", request.page, card[request.page], TRUE))
             \/ Return(Done("read", FALSE)) /\ UNCHANGED slot
    BY <1>7 DEF FillRead, IsFirst, Free
  <2>3. phase' = "idle"
    BY <2>2 DEF Return
  <2>4. CASE Return(Done("read", FALSE)) /\ UNCHANGED slot
    <3>1. UNCHANGED <<View, Unsaved, failed>>
      BY <2>1, <2>3, <2>4, SameView
    <3> QED
      BY <1>r, <2>4, <3>1 DEF Store!Next, Store!Refuse, Return, Done, Answer
  <2>5. CASE /\ slot' = [slot EXCEPT ![s] = [PageNum |-> request.page, data |-> card[request.page],
                                             exists |-> TRUE, dirty |-> FALSE]]
             /\ Return(Answer("read", request.page, card[request.page], TRUE))
    <3>1. card[request.page] \in Contents
      BY <1>0, <1>q DEF TypeOK
    <3>2. /\ View' = [View EXCEPT ![request.page] = card[request.page]]
          /\ View[request.page] = card[request.page]
          /\ Unsaved' = Unsaved
      <4>1. ~slot[s].exists
        BY <2>2
      <4>2. slot' = [slot EXCEPT ![s] = [PageNum |-> request.page, data |-> card[request.page],
                                         exists |-> TRUE, dirty |-> FALSE]]
        BY <2>5
      <4> QED
        BY <2>0, <2>1, <2>3, <3>1, <4>1, <4>2, FillView
    <3>3. View' = View
      BY <3>2 DEF View
    <3> QED
      BY <1>q, <2>1, <2>5, <3>2, <3>3 DEF Store!Next, Store!Read, Return, Answer
  <2> QED
    BY <2>2, <2>4, <2>5
<1>8. CASE FillWrite
  <2>0. request.page \in CallerPages /\ Hits(request.page) = {} /\ request.data \in Data
    BY <1>0, <1>8 DEF FillWrite, RequestOK
  <2>1. card' = card /\ failed' = failed /\ phase = "fill" /\ phase' = "idle"
    BY <1>8 DEF FillWrite, Return
  <2>2. PICK s \in Slots :
          /\ ~slot[s].exists
          /\ slot' = [slot EXCEPT ![s] = [PageNum |-> request.page, data |-> request.data,
                                          exists |-> TRUE, dirty |-> TRUE]]
    BY <1>8 DEF FillWrite, IsFirst, Free
  <2>3. /\ View' = [View EXCEPT ![request.page] = request.data]
        /\ Unsaved' = Unsaved \cup {request.page}
    <3>1. ~slot[s].exists
      BY <2>2
    <3>2. slot' = [slot EXCEPT ![s] = [PageNum |-> request.page, data |-> request.data,
                                       exists |-> TRUE, dirty |-> TRUE]]
      BY <2>2
    <3>3. /\ View' = [View EXCEPT ![request.page] = request.data]
          /\ View[request.page] = card[request.page]
          /\ Unsaved' = IF TRUE THEN Unsaved \cup {request.page} ELSE Unsaved
      BY <1>q, <2>0, <2>1, <3>1, <3>2, FillView
    <3> QED
      BY <3>3
  <2>4. reply'.op = "write" /\ reply'.ok
    BY <1>8 DEF FillWrite, Return, Done, Answer
  <2> QED
    BY <1>q, <1>r, <2>0, <2>1, <2>3, <2>4 DEF Store!Next, Store!Write
<1>9. CASE BeginFlush
  <2>1. UNCHANGED <<View, Unsaved>>
    BY <1>9, SameView DEF BeginFlush, CallsFlush
  <2> QED
    BY <1>9, <2>1 DEF BeginFlush, Store!Next, Store!Begin
<1>10. CASE FlushNoMemory
  <2>1. UNCHANGED <<View, Unsaved>>
    BY <1>10, SameView DEF FlushNoMemory, CallsFlush, Return
  <2> QED
    BY <1>10, <1>r, <2>1 DEF FlushNoMemory, Return, Done, Answer, Store!Next, Store!Refuse
<1>11. CASE SkipBlock
  BY <1>11, SameView DEF SkipBlock, NextBlock, Store!vars

<1>12. CASE ReadBlock
  <2>1. CASE BlockFails
    <3>1. View' = View /\ Unsaved' = Unsaved
      BY <1>12, <2>1, SameView DEF ReadBlock, BlockFails, NextBlock
    <3> QED
      BY <1>0, <2>1, <3>1, LoseStep DEF BlockFails, Store!Next
  <2>2. CASE phase' = "erase" /\ UNCHANGED <<slot, failed, reply>>
    BY <1>12, <2>2, SameView DEF ReadBlock, Store!vars
  <2> QED
    BY <1>12, <2>1, <2>2 DEF ReadBlock
<1>13. CASE EraseBlock
  <2>0. /\ \A p \in Pages : Block(p) # BlockNum => card'[p] = card[p]
        /\ slot' = slot /\ reply' = reply
    BY <1>0, <1>13 DEF EraseBlock, BlockFails, Erased, TypeOK
  <2>1. Unsaved' = Unsaved /\ \A p \in Pages : (SlotsOf(p))' = SlotsOf(p)
    BY <2>0 DEF Unsaved, DirtySlots, SlotsOf, Slots, Pages
  <2>2. CASE BlockFails
    <3>1. ASSUME NEW p \in Pages, DirtyIn(Block(p)) = {} PROVE View'[p] = View[p]
      <4>1. Block(p) # BlockNum
        BY <1>0, <1>13, <3>1 DEF EraseBlock, FlushOK, Writing
      <4> QED
        BY <1>13, <2>0, <2>1, <2>2, <4>1, FailedView DEF EraseBlock
    <3> QED
      BY <1>0, <2>0, <2>1, <2>2, <3>1, LoseStep DEF BlockFails, Store!Next
  <2>3. CASE card' = Erased(BlockNum) /\ phase' = "program" /\ UNCHANGED <<BlockNum, BlockBuffer, failed>>
    <3>1. ASSUME NEW p \in Pages PROVE View'[p] = View[p]
      <4>1. CASE SlotsOf(p) # {}
        BY <2>0, <4>1, SlotView
      <4>2. CASE SlotsOf(p) = {} /\ Block(p) = BlockNum
        BY <1>0, <1>13, <2>1, <2>3, <4>2, ViewUncached, ViewUncachedNext DEF BufferOK, Writing, EraseBlock
      <4>3. CASE SlotsOf(p) = {} /\ Block(p) # BlockNum
        BY <2>0, <2>1, <2>3, <4>3, ViewUncached, ViewUncachedNext
      <4> QED
        BY <4>1, <4>2, <4>3
    <3> QED
      BY <2>0, <2>1, <2>3, <3>1, ViewEqual DEF Store!vars
  <2> QED
    BY <1>13, <2>2, <2>3 DEF EraseBlock
<1>14. CASE ProgramPage
  <2>0. BlockNum \in 0 .. NumBlocks - 1 /\ offset \in Offsets /\ slot' = slot /\ reply' = reply
    <3>1. slot' = slot /\ reply' = reply
      BY <1>14 DEF ProgramPage, BlockFails
    <3>2. BlockNum < NumBlocks /\ BlockNum \in 0 .. NumBlocks /\ offset \in Offsets
      BY <1>0, <1>14 DEF ProgramPage, FlushOK, TypeOK, Writing
    <3> QED
      BY <3>1, <3>2, CacheAssumption
  <2>1. Unsaved' = Unsaved /\ \A p \in Pages : (SlotsOf(p))' = SlotsOf(p)
    BY <2>0 DEF Unsaved, DirtySlots, SlotsOf, Slots, Pages
  <2>2. \A p \in Pages : Block(p) # BlockNum => card'[p] = card[p]
    BY <1>0, <1>14, <2>0, PageOfBlock DEF ProgramPage, TypeOK
  <2>3. CASE BlockFails
    <3>1. ASSUME NEW p \in Pages, DirtyIn(Block(p)) = {} PROVE View'[p] = View[p]
      <4>1. Block(p) # BlockNum
        BY <1>0, <1>14, <3>1 DEF ProgramPage, FlushOK, Writing
      <4> QED
        BY <1>14, <2>0, <2>1, <2>2, <2>3, <4>1, FailedView DEF ProgramPage
    <3> QED
      BY <1>0, <2>0, <2>1, <2>3, <3>1, LoseStep DEF BlockFails, Store!Next
  <2>4. CASE ~BlockFails
    <3>0. /\ card' = [card EXCEPT ![BlockNum * BlockSize + offset] = BlockBuffer[offset]]
          /\ failed' = failed
      BY <1>14, <2>4 DEF ProgramPage
    <3>1. ASSUME NEW p \in Pages PROVE View'[p] = View[p]
      <4>1. CASE SlotsOf(p) # {}
        BY <2>0, <4>1, SlotView
      <4>2. CASE SlotsOf(p) = {} /\ Block(p) # BlockNum
        <5>1. phase = "program" /\ (phase' = "program" => BlockNum' = BlockNum)
          BY <1>14, <2>4 DEF ProgramPage, NextBlock
        <5> QED
          BY <2>1, <2>2, <4>2, <5>1, ViewUncached, ViewUncachedNext
      <4>3. CASE SlotsOf(p) = {} /\ Block(p) = BlockNum /\ offset + 1 < BlockSize
        <5>1. phase = "program" /\ phase' = "program" /\ UNCHANGED <<BlockNum, BlockBuffer>>
          BY <1>14, <2>4, <4>3 DEF ProgramPage
        <5> QED
          BY <2>1, <4>3, <5>1, ViewUncached, ViewUncachedNext
      <4>4. CASE SlotsOf(p) = {} /\ Block(p) = BlockNum /\ ~(offset + 1 < BlockSize)
        <5>1. phase = "program" /\ phase' = "block"
          BY <1>14, <2>4, <4>4 DEF ProgramPage, NextBlock
        <5>2. p % BlockSize \in Offsets /\ p = BlockNum * BlockSize + (p % BlockSize)
          BY <4>4, BlockOfPage
        <5>3. card'[p] = BlockBuffer[p % BlockSize]
          <6>1. CASE p % BlockSize = offset
            BY <1>0, <3>0, <5>2, <6>1 DEF TypeOK
          <6>2. CASE p % BlockSize # offset
            <7>1. p % BlockSize < offset
              BY <2>0, <4>4, <5>2, <6>2, CacheAssumption DEF Offsets
            <7>2. BlockBuffer[p % BlockSize] = card[p]
              BY <1>0, <4>4, <5>1, <7>1 DEF BufferOK, Writing
            <7>3. p # BlockNum * BlockSize + offset
              BY <2>0, <6>2, PageOfBlock
            <7> QED
              BY <1>0, <3>0, <7>2, <7>3 DEF TypeOK
          <6> QED
            BY <6>1, <6>2
        <5> QED
          BY <2>1, <4>4, <5>1, <5>3, ViewUncached, ViewUncachedNext
      <4> QED
        BY <4>1, <4>2, <4>3, <4>4
    <3> QED
      BY <2>0, <2>1, <3>0, <3>1, ViewEqual DEF Store!vars
  <2> QED
    BY <2>3, <2>4
<1>15. CASE EndFlush
  <2>0. /\ card' = card /\ failed' = failed /\ phase = "block" /\ phase' # "program"
        /\ BlockNum = NumBlocks
    BY <1>15 DEF EndFlush
  <2>1. \A p \in Pages : View'[p] = card[p]
    BY <1>15, <2>0, ViewUncachedNext DEF EndFlush, EmptySlot, SlotsOf, Slots
  <2>2. Unsaved' = {}
    BY <1>15 DEF EndFlush, EmptySlot, Unsaved, DirtySlots, Slots
  <2>3. ASSUME NEW p \in Pages, \A s \in SlotsOf(p) : slot[s].data = card[p]
        PROVE  View'[p] = View[p]
    <3>1. CASE SlotsOf(p) = {}
      BY <2>0, <2>1, <3>1, ViewUncached
    <3>2. CASE SlotsOf(p) # {}
      BY <2>1, <2>3, <3>2 DEF View
    <3> QED
      BY <3>1, <3>2
  <2>4. reply' = reply \/ (reply'.op = request.op /\ reply'.ok = result)
    BY <1>15 DEF EndFlush, Done, Answer
  <2>5. CASE failed
    <3>1. ASSUME NEW p \in Pages, DirtyIn(Block(p)) = {} PROVE View'[p] = View[p]
      BY <1>0, <2>0, <2>3, <3>1 DEF SafePagesOK, Flushing, SlotsOf, PageIn
    <3>2. reply' = reply \/ reply'.op = "flush" \/ ~reply'.ok
      BY <1>15, <2>4 DEF EndFlush, Done, Answer
    <3> QED
      BY <1>0, <2>0, <2>2, <2>5, <3>1, <3>2, LoseStep DEF Store!Next
  <2>6. CASE ~failed
    <3>1. ASSUME NEW p \in Pages, NEW s \in SlotsOf(p) PROVE slot[s].data = card[p]
      <4>1. s \in Slots /\ slot[s].exists /\ PageIn(s) = p
        BY DEF SlotsOf, PageIn
      <4>2. Block(p) < BlockNum
        BY <2>0, BlockOfPage, CacheAssumption
      <4> QED
        BY <1>0, <2>0, <2>6, <4>1, <4>2 DEF CleanFlushOK, Flushing
    <3>2. View' = View
      BY <2>3, <3>1, ViewEqual
    <3>3. result
      BY <1>0, <2>0, <2>6 DEF FlushOK, Flushing
    <3>4. reply' = reply \/ (reply'.op = "flush" /\ reply'.ok)
      BY <1>15, <3>3 DEF EndFlush, Done, Answer
    <3> QED
      BY <1>r, <2>0, <2>2, <2>6, <3>2, <3>4 DEF Store!Next, Store!Save
  <2> QED
    BY <2>5, <2>6
<1>16. CASE Reboot
  <2>0. card' = card /\ reply' = reply /\ phase' = "idle"
    BY <1>16 DEF Reboot
  <2>1. \A p \in Pages : View'[p] = card[p]
    BY <1>16, <2>0, ViewUncachedNext DEF Reboot, EmptySlot, SlotsOf, Slots
  <2>2. Unsaved' = {}
    BY <1>16 DEF Reboot, EmptySlot, Unsaved, DirtySlots, Slots
  <2>3. ASSUME NEW p \in Pages, DirtyIn(Block(p)) = {} PROVE View'[p] = View[p]
    <3>1. ~(phase = "program" /\ Block(p) = BlockNum)
      BY <1>0, <2>3 DEF FlushOK, Writing
    <3>2. CASE SlotsOf(p) = {}
      BY <2>0, <2>1, <3>1, <3>2, ViewUncached
    <3>3. CASE SlotsOf(p) # {}
      <4>1. \A s \in SlotsOf(p) : slot[s].exists /\ ~slot[s].dirty /\ PageIn(s) = p /\ s \in Slots
        BY <2>3, NotDirty DEF SlotsOf, PageIn
      <4>2. \A s \in SlotsOf(p) : slot[s].data = card[p]
        BY <1>0, <2>3, <4>1 DEF SafePagesOK, Flushing, Coherent, PageIn, TypeOK
      <4> QED
        BY <2>1, <3>3, <4>2 DEF View
    <3> QED
      BY <3>2, <3>3
  <2>4. CASE phase # "idle" \/ DirtySlots # {}
    BY <1>0, <1>16, <2>0, <2>2, <2>3, <2>4, LoseStep DEF Reboot, Store!Next
  <2>5. CASE phase = "idle" /\ DirtySlots = {}
    <3>1. View' = View
      BY <2>3, <2>5, ViewEqual DEF DirtyIn
    <3>2. Unsaved = {} /\ failed' = failed
      BY <1>16, <2>5 DEF Unsaved, Reboot
    <3> QED
      BY <2>0, <2>2, <3>1, <3>2 DEF Store!vars
  <2> QED
    BY <2>4, <2>5
<1>17. CASE UNCHANGED vars
  <2>1. View' = View /\ Unsaved' = Unsaved
    BY <1>17 DEF vars, View, Unsaved, SlotsOf, DirtySlots, Slots, Pages, Block
  <2> QED
    BY <1>17, <2>1 DEF vars, Store!vars
<1> QED
  BY <1>1, <1>2, <1>3, <1>4, <1>5, <1>6, <1>7, <1>8, <1>9, <1>10, <1>11, <1>12, <1>13,
     <1>14, <1>15, <1>16, <1>17 DEF Next, Call, FlushStep

(* The page cache implements the page store: every read answers what was last
   written, through fills, flushes and retries, unless a failure lost it, and a
   failure loses nothing outside the erase blocks that hold unsaved pages. *)
THEOREM CacheImplementsStore == Spec => ImplementsStore
<1>1. Init => Store!Init
  BY RefInit
<1>2. IInv /\ IInv' /\ [Next]_vars => [Store!Next]_(Store!vars)
  BY RefStep
<1> QED
  BY <1>1, <1>2, Invariance, PTL DEF Spec, ImplementsStore, Store!Spec
=============================================================================
