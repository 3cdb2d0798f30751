----------------------------- MODULE Typecheck -----------------------------
(***************************************************************************)
(* The type checker (adder/compiler/co_bty.c) for numbers, booleans and    *)
(* arrays of numbers: which programs gvm_compile goes on to translate.     *)
(*                                                                         *)
(* A context has the types of the variables and of the functions known;    *)
(* a name is one or the other.  "error" is the type of an expression about *)
(* which a message is reported, now or where it is used: the program is    *)
(* refused.  Only functions are called; bty_synth_funcall asserts it.      *)
(***************************************************************************)
EXTENDS Source, SequencesExt

Known(c, x) == x \in DOMAIN c.vars \union DOMAIN c.funs

Bind(c, x, ty) == [c EXCEPT !.vars = (x :> ty) @@ @]

Arithmetic2 == {"add", "sub", "mul", "mod"}
Comparison2 == {"less", "more", "less-eq", "more-eq", "equal", "not-equal"}

\* bty_synth_binop: of two equal types
BinopType(op, ty) ==
  CASE op \in Arithmetic2   -> IF ty = "num" THEN "num" ELSE "error"
    [] op \in Comparison2   -> IF ty = "num" THEN "bool" ELSE "error"
    [] op \in {"and", "or"} -> IF ty = "bool" THEN "bool" ELSE "error"

RECURSIVE TypeOf(_, _)

\* Mutant: the types of arguments are not compared.
FuncallTypeByCount(c, n) ==
  IF n.name \in DOMAIN c.funs /\ Len(n.args) = Len(c.funs[n.name].params)
  THEN c.funs[n.name].ret ELSE "error"

\* bty_synth_funcall
FuncallType(c, n) ==
  IF /\ n.name \in DOMAIN c.funs
     /\ Len(n.args) = Len(c.funs[n.name].params)
     /\ \A i \in DOMAIN n.args : TypeOf(c, n.args[i]) = c.funs[n.name].params[i]
  THEN c.funs[n.name].ret ELSE "error"

\* bty_synthesize, of an expression
TypeOf(c, n) ==
  CASE n.tag = "value" -> n.val.type
    [] n.tag = "var"   -> IF n.name \in DOMAIN c.vars THEN c.vars[n.name] ELSE "error"
    [] n.tag = "unop"  ->
         LET ty == TypeOf(c, n.inner)
         IN  IF ty = (IF n.op = "neg" THEN "num" ELSE "bool") THEN ty ELSE "error"
    [] n.tag = "binop" ->
         LET ty == TypeOf(c, n.left)
         IN  IF ty = TypeOf(c, n.right) THEN BinopType(n.op, ty) ELSE "error"
    [] n.tag = "array" ->
         IF n.content # <<>> /\ \A i \in DOMAIN n.content : TypeOf(c, n.content[i]) = "num"
         THEN "array" ELSE "error"
    [] n.tag = "call"  -> FuncallType(c, n)

-----------------------------------------------------------------------------
(* Statements.  kind says whether one returns a value: bty_always and      *)
(* bty_return are "always", bty_sometimes is "sometimes", the rest "never". *)
(* types are those of the returned values, ok that no message is reported. *)

Finding(c, kind, types, ok) == [ctx |-> c, kind |-> kind, types |-> types, ok |-> ok]

RECURSIVE Check(_, _)

\* r, then what is found in the statement behind it
Joined(r, s) ==
  LET t == Check(r.ctx, s)
  IN  Finding(t.ctx, IF t.kind = "never" THEN r.kind ELSE t.kind,
              r.types \union t.types, r.ok /\ t.ok)

\* What follows a statement that always returns is not looked at (nor, here, what
\* follows an error).
RECURSIVE CheckAll(_, _)
CheckAll(r, stmts) ==
  IF stmts = <<>> \/ ~r.ok \/ r.kind = "always" THEN r ELSE CheckAll(Joined(r, Head(stmts)), Tail(stmts))

\* bty_synth_body
CheckBody(c, stmts) == CheckAll(Finding(c, "never", {}, TRUE), stmts)

\* The declared variable is known before its value is checked.
CheckAssign(c, n) ==
  IF n.type # ""
  THEN LET d == Bind(c, n.name, n.type)
       IN  Finding(d, "never", {}, ~Known(c, n.name) /\ TypeOf(d, n.value) = n.type)
  ELSE Finding(c, "never", {}, /\ n.name \in DOMAIN c.vars
                               /\ TypeOf(c, n.value) = c.vars[n.name])

CheckReturn(c, n) ==
  LET ty == IF n.result = <<>> THEN "none" ELSE TypeOf(c, n.result[1])
  IN  Finding(c, IF ty = "none" THEN "never" ELSE "always", {ty} \ {"none"}, ty # "error")

\* bty_synth_if: every block has a context of its own; without a last block no
\* chain returns always.
CheckIf(c, n) ==
  LET bodies == [i \in DOMAIN n.branches |-> n.branches[i].iftrue]
                \o (IF n.last = <<>> THEN <<>> ELSE <<n.last>>)
      found  == {CheckBody(c, bodies[i]) : i \in DOMAIN bodies}
  IN  Finding(c,
              CASE n.last # <<>> /\ \A r \in found : r.kind = "always" -> "always"
                [] \A r \in found : r.kind = "never" -> "never"
                [] OTHER -> "sometimes",
              UNION {r.types : r \in found},
              /\ \A r \in found : r.ok
              /\ \A i \in DOMAIN n.branches : TypeOf(c, n.branches[i].cond) = "bool")

\* Mutant: the loop's variable is known in the collection.
CheckForeachEarly(c, n) ==
  LET d == Bind(c, n.name, n.type)
      r == CheckBody(d, n.during)
  IN  Finding(c, r.kind, r.types, /\ r.ok /\ ~Known(c, n.name) /\ n.type = "num"
                                  /\ TypeOf(d, n.collection) = "array")

\* bty_synth_foreach: the loop returns what its body does, were it entered.
CheckForeach(c, n) ==
  LET r == CheckBody(Bind(c, n.name, n.type), n.during)
  IN  Finding(c, r.kind, r.types, /\ r.ok /\ ~Known(c, n.name) /\ n.type = "num"
                                  /\ TypeOf(c, n.collection) = "array")

\* Types that differ are reported where they meet.
Check(c, n) ==
  LET r == CASE n.tag = "assign"  -> CheckAssign(c, n)
             [] n.tag = "return"  -> CheckReturn(c, n)
             [] n.tag = "if"      -> CheckIf(c, n)
             [] n.tag = "foreach" -> CheckForeach(c, n)
             [] n.tag = "call"    -> Finding(c, "never", {}, TypeOf(c, n) # "error")
             [] n.tag = "break"   -> Finding(c, "never", {}, TRUE)
  IN  [r EXCEPT !.ok = @ /\ Cardinality(r.types) <= 1]

-----------------------------------------------------------------------------
\* bty_extract_type and bty_check_fundecl
CheckDefinition(c, n) ==
  LET names  == [i \in DOMAIN n.params |-> n.params[i].name]
      types  == [i \in DOMAIN n.params |-> n.params[i].type]
      known  == [c EXCEPT !.funs = (n.name :> [params |-> types, ret |-> n.ret]) @@ @]
      inside == [known EXCEPT !.vars = [x \in ToSet(names) |-> types[CHOOSE i \in DOMAIN names : names[i] = x]]]
      body   == CheckBody(inside, n.body)
  IN  [known EXCEPT !.ok =
         /\ @
         /\ ~Known(c, n.name)
         /\ n.tag = "fundecl" =>
              /\ IsInjective(names)
              /\ \A i \in DOMAIN names : ~Known(known, names[i])
              /\ body.ok
              /\ body.kind = (IF n.ret = "none" THEN "never" ELSE "always")
              /\ body.types \subseteq {n.ret}]

RECURSIVE CheckDefinitions(_, _)
CheckDefinitions(c, defs) ==
  IF defs = <<>> \/ ~c.ok THEN c ELSE CheckDefinitions(CheckDefinition(c, Head(defs)), Tail(defs))

\* bty_typecheck: an exported function is among the definitions.
Accepted(source) ==
  /\ \E i \in DOMAIN source : source[i].tag = "fundecl" /\ source[i].name = "main"
  /\ CheckDefinitions([vars |-> <<>>, funs |-> <<>>, ok |-> TRUE], source).ok
=============================================================================
