----------------------------- MODULE MCLeafPage -----------------------------
(***************************************************************************)
(* The inserts the runs of LeafPage.tla begin with.                        *)
(***************************************************************************)
EXTENDS LeafPage

Of(first, last, size) == [i \in 1 .. last - first + 1 |-> [key |-> first + i - 1, size |-> size]]

Nothing == <<>>

\* Sixteen small records in the front page, three large ones in the back page.
SmallAndLarge ==
    Of(1, 9, 8)
      \o <<[key |-> 21, size |-> 96], [key |-> 22, size |-> 72], [key |-> 23, size |-> 96]>>
      \o Of(10, 16, 8)

\* The last insert splits: two records in the front page, four in the back page,
\* which a delete in front may leave to merge or to balance.
TwoLeaves ==
    <<[key |-> 2, size |-> 104], [key |-> 3, size |-> 167], [key |-> 5, size |-> 167],
      [key |-> 6, size |-> 167], [key |-> 7, size |-> 104], [key |-> 8, size |-> 167]>>
=============================================================================
