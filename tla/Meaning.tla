------------------------------ MODULE Meaning ------------------------------
(***************************************************************************)
(* What a source program means, read off the text: no stack, no slots, no  *)
(* jumps.  The reference that compiled programs are compared with.         *)
(***************************************************************************)
EXTENDS Source, SequencesExt

CONSTANT Answers   \* numbers that host functions return

Operate(op, x, y) ==
  CASE op = "add"       -> Num(x.num + y.num)
    [] op = "sub"       -> Num(x.num - y.num)
    [] op = "mul"       -> Num(x.num * y.num)
    [] op = "less"      -> Bool(x.num < y.num)
    [] op = "more"      -> Bool(x.num > y.num)
    [] op = "less-eq"   -> Bool(x.num <= y.num)
    [] op = "more-eq"   -> Bool(x.num >= y.num)
    [] op = "equal"     -> Bool(x.num = y.num)
    [] op = "not-equal" -> Bool(x.num # y.num)
    [] op = "and"       -> Bool(x.num = 1 /\ y.num = 1)
    [] op = "or"        -> Bool(x.num = 1 \/ y.num = 1)

Definition(source, f) == source[CHOOSE i \in DOMAIN source : source[i].name = f]

RECURSIVE Apply(_, _, _), Run(_, _, _)

\* The value of e where env gives the variables theirs.
RECURSIVE Eval(_, _, _)
Eval(e, env, source) ==
  CASE e.tag = "value" -> e.val
    [] e.tag = "var"   -> env[e.name]
    [] e.tag = "unop"  -> LET x == Eval(e.inner, env, source)
                          IN  IF e.op = "neg" THEN Num(-x.num) ELSE Bool(x.num = 0)
    [] e.tag = "binop" -> Operate(e.op, Eval(e.left, env, source), Eval(e.right, env, source))
    [] e.tag = "array" -> Arr([i \in DOMAIN e.content |-> Eval(e.content[i], env, source).num])
    [] e.tag = "call"  -> Apply(source, e.name,
                                [i \in DOMAIN e.args |-> Eval(e.args[i], env, source)])

\* A statement goes on with the variables env, or stops with the value ret.
GoesOn(env)       == [env |-> env, ret |-> <<>>]
StopsWith(env, v) == [env |-> env, ret |-> <<v>>]

RECURSIVE RunAll(_, _, _)
RunAll(stmts, env, source) ==
  IF stmts = <<>> THEN GoesOn(env)
  ELSE LET r == Run(Head(stmts), env, source)
       IN  IF r.ret # <<>> THEN r ELSE RunAll(Tail(stmts), r.env, source)

RunIf(s, env, source) ==
  LET taken == {i \in DOMAIN s.branches : Eval(s.branches[i].cond, env, source).num = 1}
  IN  IF taken = {} THEN RunAll(s.last, env, source)
      ELSE RunAll(s.branches[CHOOSE i \in taken : \A j \in taken : i <= j].iftrue, env, source)

\* One round for each of the elements xs.
RECURSIVE Rounds(_, _, _, _)
Rounds(xs, s, env, source) ==
  IF xs = <<>> THEN GoesOn(env)
  ELSE LET r == RunAll(s.during, (s.name :> Num(Head(xs))) @@ env, source)
       IN  IF r.ret # <<>> THEN r ELSE Rounds(Tail(xs), s, r.env, source)

Run(s, env, source) ==
  CASE s.tag = "assign"  -> GoesOn((s.name :> Eval(s.value, env, source)) @@ env)
    [] s.tag = "call"    -> GoesOn(env)
    [] s.tag = "if"      -> RunIf(s, env, source)
    [] s.tag = "foreach" -> Rounds(Eval(s.collection, env, source).items, s, env, source)
    [] s.tag = "return"  -> StopsWith(env, IF s.result = <<>> THEN None
                                           ELSE Eval(s.result[1], env, source))

\* The value of a call; None if the function ends without one.
Apply(source, f, args) ==
  LET fun == Definition(source, f)
      names == [i \in DOMAIN args |-> fun.params[i].name]
      env == [x \in ToSet(names) |-> args[CHOOSE i \in DOMAIN names : names[i] = x]]
      end == RunAll(fun.body, env, source)
  IN  CASE fun.tag = "funexdecl" -> IF fun.ret = "none" THEN None
                                    ELSE Num(CHOOSE x \in Answers : TRUE)
        [] end.ret # <<>> -> end.ret[1]
        [] OTHER -> None
=============================================================================
