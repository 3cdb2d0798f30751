---------------------------- MODULE MCTypeContext ----------------------------
(***************************************************************************)
(* Names of one word, in either order, and a longer one that takes two.    *)
(***************************************************************************)
EXTENDS TypeContextRefinement, TLC

CONSTANTS a, b, long, int, bool

MCLength == a :> 1 @@ b :> 1 @@ long :> 9
MCRank   == a :> 2 @@ b :> 1 @@ long :> 3
=============================================================================
