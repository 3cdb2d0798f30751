---------------------------- MODULE MCEntryPoint ----------------------------
(***************************************************************************)
(* Names and types for EntryPoint.                                         *)
(***************************************************************************)
EXTENDS EntryPoint, TLC

SomeNames == {"f", "g"}

Scalar(tag)  == [depth |-> 0, base |-> tag]
List(type)   == [type EXCEPT !.depth = @ + 1]

\* int, string, array<array<int>>
SomeTypes == {Scalar("i"), List(Scalar("c")), List(List(Scalar("i")))}

SomeSegments == {"string", "int", "bool", "other"}

SomeReturnTypes == {<<"v">>, <<"l", "c">>}
=============================================================================
