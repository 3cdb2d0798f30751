------------------------------- MODULE Values -------------------------------
(***************************************************************************)
(* The values of the virtual machine, val_t (adder/shared/sh_types.h), as  *)
(* the compiler and the interpreter make them.  A frame keeps its return   *)
(* address in num and its counts in items; an array and an iterator keep   *)
(* (what remains of) their elements there, numbers all.                    *)
(***************************************************************************)
EXTENDS Integers, Sequences

Val(type, num, items) == [type |-> type, num |-> num, items |-> items]

None    == Val("none", 0, <<>>)
Num(n)  == Val("num", n, <<>>)
Bool(b) == Val("bool", IF b THEN 1 ELSE 0, <<>>)
Arr(s)  == Val("array", 0, s)
Iter(s) == Val("iter", 0, s)

\* What the heap's cells hold at first is none of the interpreter's business.
HeapVal == Val("heap", 0, <<>>)

Types == {"none", "num", "bool", "array", "iter", "frame", "heap"}
=============================================================================
