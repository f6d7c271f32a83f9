---------------------------- MODULE MCMemoryCard ----------------------------
(* Small instances of MemoryCard.                                           *)
EXTENDS MemoryCard, TLC

\* A card of three blocks of two pages, and one of a block of four.
TwoKinds == (0 :> [ppb |-> 2, pages |-> 6]) @@ (1 :> [ppb |-> 4, pages |-> 4])

\* Nothing; the end of a block, a whole one and the beginning of the next; the last page
\* of a block and of the second card; all of the second card; a block and a half.
MCRanges == {<<0, 0>>, <<1, 4>>, <<3, 1>>, <<0, 4>>, <<0, 3>>}
=============================================================================
