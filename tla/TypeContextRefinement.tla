------------------------ MODULE TypeContextRefinement ------------------------
(***************************************************************************)
(* TypeContext implements Scopes: what is known in a scope is what its     *)
(* table says, wherever that is.                                           *)
(***************************************************************************)
EXTENDS TypeContext

NamesIn(ar, c) == {NameAt(ar, c, i) : i \in Entries(c)}

Known(ar, c) ==
  [n \in NamesIn(ar, c) |-> TypeAt(ar, c, CHOOSE i \in Entries(c) : NameAt(ar, c, i) = n)]

AllKnown(ar, cs) == [d \in DOMAIN cs |-> Known(ar, cs[d])]

ScopesOf == INSTANCE Scopes WITH known <- AllKnown(arena, contexts)

\* Neither halving, moving, copied tables nor the arena ever show: a lookup answers
\* what its scope was told first, or what the scopes around it were told before it
\* was entered, and an insertion is refused only if the name is bound or memory ran out.
ImplementsScopes == ScopesOf!Spec
=============================================================================
