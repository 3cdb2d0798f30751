------------------------------ MODULE MCSrcMap ------------------------------
(***************************************************************************)
(* Names whose hashes collide in tables of every size or in some, and lead *)
(* past a table's end.                                                     *)
(***************************************************************************)
EXTENDS SrcMapRefinement, TLC

CONSTANTS a, b, c, d, e

MCHash == a :> 7 @@ b :> 7 @@ c :> 3 @@ d :> 0 @@ e :> 3
=============================================================================
