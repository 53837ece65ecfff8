----------------------------- MODULE MCBootMenu ------------------------------
(***************************************************************************)
(* BootMenu with pages of four rows: an empty store, one of less than a    *)
(* page, and one of more than two pages.                                   *)
(***************************************************************************)
EXTENDS BootMenu, FiniteSets

MCGames == 1..9
MCStores == {<<>>, <<3, 2>>, [i \in 1..9 |-> i]}
\* No more than two keys at a time.
MCKeySets == {keys \in SUBSET Keys : Cardinality(keys) <= 2}
=============================================================================
