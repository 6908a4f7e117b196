------------------------------ MODULE PageStore ------------------------------
(***************************************************************************)
(* What the page cache of MCTOOLS promises its callers: a store of pages.  *)
(* A read answers the content last written; pages written since the last   *)
(* flush are unsaved; and only a failure may lose anything, never outside  *)
(* the erase blocks that hold an unsaved page.                             *)
(***************************************************************************)
EXTENDS Integers

CONSTANTS
  Pages,        \* page numbers of the card
  BlockSize,    \* pages of one erase block
  Data,         \* contents a caller can write
  Blank         \* content of a page erased and not programmed again

VARIABLES
  store,        \* what a read of each page answers
  unsaved,      \* pages written and not yet saved to the card
  failed,       \* the flush in progress, or the last one, met a failure
  reply         \* the last answer given to the caller

vars == <<store, unsaved, failed, reply>>

Contents == Data \cup {Blank}

Replies == [op : {"read", "write", "flush"}, page : Pages, data : Contents, ok : BOOLEAN]

(* The pages that share an erase block with an unsaved one. *)
AtRisk == {p \in Pages : \E q \in unsaved : p \div BlockSize = q \div BlockSize}

Init ==
  /\ store \in [Pages -> Contents]
  /\ unsaved = {}
  /\ failed = FALSE
  /\ reply \in Replies

Read(p) ==
  /\ reply' = [op |-> "read", page |-> p, data |-> store[p], ok |-> TRUE]
  /\ UNCHANGED <<store, unsaved, failed>>

Write(p, d) ==
  /\ store' = [store EXCEPT ![p] = d]
  /\ unsaved' = unsaved \cup {p}
  /\ \E r \in Replies : r.op = "write" /\ r.ok /\ reply' = r
  /\ UNCHANGED failed

(* A call that fails changes nothing. *)
Refuse ==
  /\ reply' \in Replies /\ ~reply'.ok
  /\ UNCHANGED <<store, unsaved, failed>>

(* A flush starts: what failed before it is forgotten. *)
Begin ==
  /\ failed' = FALSE
  /\ UNCHANGED <<store, unsaved, reply>>

(* A flush without a failure saves every page and changes the content of none. *)
Save ==
  /\ ~failed
  /\ unsaved' = {}
  /\ \/ UNCHANGED reply
     \/ reply' \in Replies /\ reply'.op = "flush" /\ reply'.ok
  /\ UNCHANGED <<store, failed>>

(* A failure: pages at risk may have any content afterwards, no other page changes. *)
Lose ==
  /\ failed' = TRUE
  /\ store' \in [Pages -> Contents]
  /\ \A p \in Pages \ AtRisk : store'[p] = store[p]
  /\ unsaved' \in SUBSET unsaved
  /\ \/ UNCHANGED reply
     \/ reply' \in Replies /\ (reply'.op = "flush" \/ ~reply'.ok)

Next ==
  \/ \E p \in Pages : Read(p)
  \/ \E p \in Pages, d \in Data : Write(p, d)
  \/ Refuse \/ Begin \/ Save \/ Lose

Spec == Init /\ [][Next]_vars
=============================================================================
