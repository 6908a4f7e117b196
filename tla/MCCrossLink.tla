---------------------------- MODULE MCCrossLink ----------------------------
(***************************************************************************)
(* CrossLink for TLC: the system folders of two regions.  Folder A holds   *)
(* the executable and has a free page; folder B is full up to its cluster, *)
(* or has a deleted entry.  Page contents behind the records are left over *)
(* from other files.                                                       *)
(***************************************************************************)
EXTENDS CrossLink, TLC

Name(d, n) == [dir |-> d, name |-> n]
AliasTable == <<Name("A", "x"), Name("A", "osd"), Name("B", "x"), Name("B", "y"), Name("B", "z")>>
AllNames == {".", "..", "A", "B", "osd", "x", "y", "z", "old"}

Ent(n, c, len) == [name |-> n, live |-> TRUE, cluster |-> c, length |-> len]
Gone == [Ent("old", Nil, 0) EXCEPT !.live = FALSE]

(* Clusters 0, 1 are the root, 2, 3 folder A, 4 folder B, 5 the executable. *)
Pages(lengthB, c, entry) ==
  LET used == << <<Ent(".", 0, 4), Ent("..", 0, 0)>>, <<Ent("A", 2, 3), Ent("B", 4, lengthB)>>,
                 <<Ent(".", 0, 0), Ent("..", 0, 0)>>, <<Ent("osd", 5, 1), Ent("old", Nil, 0)>>,
                 <<Ent(".", 0, 0), Ent("..", 0, 0)>> >>
      all  == [p \in Clusters \X Slots |-> IF p[1] <= 4 THEN used[p[1] + 1][p[2] + 1] ELSE Ent("old", Nil, 0)]
  IN [all EXCEPT ![<<c, 0>>] = entry]

Fat(free, last) ==
  [c \in Clusters |->
     IF c \in free THEN [used |-> FALSE, next |-> Nil]
     ELSE IF c = 0 THEN LinkTo(1) ELSE IF c = 2 THEN LinkTo(3)
     ELSE IF c = 4 /\ last # 4 THEN LinkTo(last) ELSE EndOfChain]

(* Where everything is on a card, folder B having these clusters. *)
Card(table, pages, clustersB) ==
  [fat |-> table, page |-> pages, root |-> <<0, 1>>, chain |-> ("A" :> <<2, 3>> @@ "B" :> clustersB),
   record |-> ("A" :> 2 @@ "B" :> 3), executable |-> 2]

Empty   == Card(Fat({6, 7, 8}, 4), Pages(2, 5, Ent("old", Nil, 0)), <<4>>)
Reused  == Card(Fat({7, 8}, 6), Pages(3, 6, Gone), <<4, 6>>)
Crowded == Card(Fat({8}, 4), Pages(2, 5, Ent("old", Nil, 0)), <<4>>)

MCCards == {Empty, Reused, Crowded}
=============================================================================
