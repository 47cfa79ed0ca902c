---------------------------- MODULE MCCatalogSync ----------------------------
(* Two coins; a list that has both, one that renames one and gives the     *)
(* other a name that does not fit, and one without a row that passes; the  *)
(* worker and the command of a deployment.                                 *)
EXTENDS CatalogSync, TLC

CONSTANTS a, b, n1, n2

MCCoins == {a, b}
MCNames == {n1, n2}

Both == (a :> n1) @@ (b :> n1)
Renamed == (a :> n2) @@ (b :> Oversized)
Garbled == (a :> Malformed) @@ (b :> Absent)

MCLists == {Both, Renamed, Garbled}
=============================================================================
