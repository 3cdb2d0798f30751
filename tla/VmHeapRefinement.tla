-------------------------- MODULE VmHeapRefinement --------------------------
(***************************************************************************)
(* VmHeap implements ArrayStore: read every array and iterator through the *)
(* heap, and what remains is a store of immutable values.  Arrays hold     *)
(* scalars here (Nested is FALSE).                                         *)
(***************************************************************************)
EXTENDS VmHeap

\* What a program reads in the cells a value refers to.
Deref(v) ==
  [kind |-> v.kind,
   items |-> CASE v.kind \in {"array", "iter"} -> [i \in 1 .. v.len |-> cells[v.at + i - 1].at]
               [] v.kind = "scalar" -> <<v.at>>
               [] OTHER -> <<>>]

DerefAll(s) == [i \in 1 .. Len(s) |-> Deref(s[i])]

Abstract == INSTANCE ArrayStore
  WITH held  <- DerefAll(stack),
       given <- DerefAll(args),
       mode  <- CASE status = "run"             -> "run"
                  [] status \in {"idle", "oom"} -> "idle"
                  [] OTHER                      -> "dead"

\* Every step of the VM, the native functions and the host is a step of a store
\* whose arrays are values: no allocation, collection, reuse of a cell or copy of
\* an array by reference shows (OP_MAKE_ARRAY, OP_MAKE_ITER, OP_ITER_NEXT, stradd).
ImplementsArrayStore == Abstract!StoreSpec
=============================================================================
