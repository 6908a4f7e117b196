---------------------------- MODULE MCPageCache ----------------------------
(* PageCache on a card of two blocks of two pages with two slots: a third
   page forces a flush; pages 2 and 3 share a block, page 1 shares one with page 0. *)
EXTENDS PageCache

MCCallerPages == {1, 2, 3}
=============================================================================
