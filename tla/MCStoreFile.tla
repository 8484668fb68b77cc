------------------------------ MODULE MCStoreFile -----------------------------
(***************************************************************************)
(* An object shorter than the tail window and one that is longer, whose    *)
(* bytes are all different, with two windows primed.                       *)
(***************************************************************************)
EXTENDS StoreFile

MCObjects == {<<1>>, <<1, 2, 3, 4, 5>>}
MCPlaces == {-2, 0, 1, 3, 9}
MCCounts == {-1, 0, 1, 2, 9}
===============================================================================
