----------------------------- MODULE ArrayStore -----------------------------
(***************************************************************************)
(* What the VM's array memory promises: arrays are values.  A program and  *)
(* its host hold scalars, arrays and iterators over arrays; making an      *)
(* array may fail, but no array ever changes, moves or disappears while it *)
(* is held.  There is no heap here, no address and no collector.           *)
(* VmHeapRefinement shows that VmHeap implements this specification.       *)
(***************************************************************************)
EXTENDS Integers, Sequences

CONSTANTS Scalars, Lengths, StackSize, MaxHostArgs

VARIABLES
  held,     \* the values on the stack, the entry frame first
  given,    \* arguments the host has prepared for its next call
  mode      \* "idle", "run", "dead"

storeVars == <<held, given, mode>>

-----------------------------------------------------------------------------
(* An array or an iterator is the sequence of its (remaining) elements.    *)

Item(kind, items) == [kind |-> kind, items |-> items]
ScalarItem(x)     == Item("scalar", <<x>>)
FrameItem         == Item("frame", <<>>)

Last(k)     == held[Len(held) - k + 1]
Under(k)    == SubSeq(held, 1, Len(held) - k)
Over(k)     == SubSeq(held, Len(held) - k + 1, Len(held))
Becomes(s)  == /\ mode = "run" /\ Len(s) <= StackSize
               /\ held' = s
               /\ UNCHANGED <<given, mode>>

PushScalar == \E x \in Scalars : Becomes(Append(held, ScalarItem(x)))

Copy  == \E i \in 2 .. Len(held) : Becomes(Append(held, held[i]))

Store == /\ Len(held) > 2
         /\ \E i \in 2 .. (Len(held) - 1) : Becomes([Under(1) EXCEPT ![i] = Last(1)])

Drop  == \E k \in 1 .. (Len(held) - 1) : Becomes(Under(k))

Return == \E k \in 2 .. (Len(held) - 1) : Becomes(Append(Under(k), Last(1)))

Length == /\ Len(held) > 1 /\ Last(1).kind = "array"
          /\ \E x \in Scalars : Becomes(Append(Under(1), ScalarItem(x)))

Make(n) ==
  /\ Len(held) > n
  /\ \A i \in 1 .. n : Over(n)[i].kind = "scalar"
  /\ Becomes(Append(Under(n), Item("array", [i \in 1 .. n |-> Over(n)[i].items[1]])))

Spell(n) ==
  /\ Len(held) > 1 /\ Last(1).kind = "scalar"
  /\ \E x \in Scalars : Becomes(Append(Under(1), Item("array", [i \in 1 .. n |-> x])))

Concat ==
  /\ Len(held) > 2
  /\ Last(1).kind = "array" /\ Last(2).kind = "array"
  /\ Becomes(Append(Under(2), Item("array", Last(2).items \o Last(1).items)))

Iterate == /\ Len(held) > 1 /\ Last(1).kind = "array"
           /\ Becomes(Append(Under(1), Item("iter", Last(1).items)))

Advance ==
  /\ Len(held) > 1 /\ Last(1).kind = "iter"
  /\ IF Last(1).items = <<>>
     THEN Becomes(Under(1))
     ELSE Becomes(Under(1) \o << Item("iter", Tail(Last(1).items)),
                                 ScalarItem(Head(Last(1).items)) >>)

\* A call ends: with a result, or because an array cannot be made.
End == /\ mode = "run"
       /\ mode' \in {"idle", "dead"}
       /\ held' \in {SubSeq(held, 1, 1), held}
       /\ UNCHANGED given

Give(n) ==
  /\ mode = "idle" /\ Len(given) < MaxHostArgs
  /\ \/ /\ \E x \in Scalars : given' = Append(given, Item("array", [i \in 1 .. n |-> x]))
        /\ UNCHANGED <<held, mode>>
     \/ mode' = "dead" /\ UNCHANGED <<held, given>>

Call ==
  /\ mode = "idle" /\ Len(given) < StackSize
  /\ held' = <<FrameItem>> \o given
  /\ given' = <<>>
  /\ mode' = "run"

StoreInit == held = <<>> /\ given = <<>> /\ mode = "idle"

StoreNext ==
  \/ PushScalar \/ Copy \/ Store \/ Drop \/ Return \/ Length
  \/ Concat \/ Iterate \/ Advance \/ End \/ Call
  \/ \E n \in Lengths : Make(n) \/ Spell(n) \/ Give(n)

StoreSpec == StoreInit /\ [][StoreNext]_storeVars
=============================================================================
