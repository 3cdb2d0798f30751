------------------------------- MODULE Source -------------------------------
(***************************************************************************)
(* Source programs as the parser hands them on (adder/compiler/co_ast.h).  *)
(* A binary or unary operator is named by the instruction it becomes.  A   *)
(* block is the sequence of its statements; an if chain is the sequence of *)
(* its conditions and blocks, with a last block that may be empty.  Types  *)
(* are named by the values they have: "num" for int, "array" for           *)
(* array<int>, "none" for void.                                            *)
(***************************************************************************)
EXTENDS Values

\* Expressions.
Lit(v)        == [tag |-> "value", val |-> v]
Var(x)        == [tag |-> "var", name |-> x]
Un(op, e)     == [tag |-> "unop", op |-> op, inner |-> e]
Bin(op, l, r) == [tag |-> "binop", op |-> op, left |-> l, right |-> r]
List(es)      == [tag |-> "array", content |-> es]
CallOf(f, es) == [tag |-> "call", name |-> f, args |-> es]

\* Statements; a call is one, too.
Declare(x, ty, e)    == [tag |-> "assign", name |-> x, type |-> ty, value |-> e]
Assign(x, e)         == [tag |-> "assign", name |-> x, type |-> "", value |-> e]
Branch(cond, body)   == [cond |-> cond, iftrue |-> body]
If(branches, last)   == [tag |-> "if", branches |-> branches, last |-> last]
For(x, ty, coll, body) ==
  [tag |-> "foreach", name |-> x, type |-> ty, collection |-> coll, during |-> body]
Return(e)            == [tag |-> "return", result |-> <<e>>]
JustReturn           == [tag |-> "return", result |-> <<>>]
Break                == [tag |-> "break"]

\* Top-level definitions.
Param(x, ty) == [name |-> x, type |-> ty]
Fun(ret, f, params, body) ==
  [tag |-> "fundecl", ret |-> ret, name |-> f, params |-> params, body |-> body]
Import(ret, f, params) == [tag |-> "funexdecl", ret |-> ret, name |-> f, params |-> params]
=============================================================================
