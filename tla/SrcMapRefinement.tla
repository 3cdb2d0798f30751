-------------------------- MODULE SrcMapRefinement --------------------------
(***************************************************************************)
(* SrcMap implements SymbolMap: what is bound is what the slots hold,      *)
(* wherever they are.                                                      *)
(***************************************************************************)
EXTENDS SrcMap

SlotOf(t, k) == CHOOSE s \in Used(t) : t.keys[s] = k

Bound(t) == [k \in {t.keys[s] : s \in Used(t)} |-> t.vals[SlotOf(t, k)]]

Symbols == INSTANCE SymbolMap WITH bound <- Bound(map)

\* Probing, growth and moving never show: a lookup answers what was bound first
\* since the last clearing, an insertion is refused only if its key is bound or
\* memory ran out.
ImplementsSymbolMap == Symbols!Spec
=============================================================================
