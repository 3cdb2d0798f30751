------------------------------ MODULE TypedCode ------------------------------
(***************************************************************************)
(* What bytecode has to keep to, beside Discipline, for its operands to    *)
(* have the types that the instructions expect: the interpreter itself     *)
(* looks at some of them when it comes to them (PreValid), at others not   *)
(* at all.  The type checker and the code generator keep to it together    *)
(* (adder/compiler/co_bty.c, co_compiler.c); nothing in the code states or *)
(* checks it.                                                              *)
(*                                                                         *)
(* It is stated by a second note on every instruction that can be reached: *)
(* how many cells there are above the frame, variables and operands, and   *)
(* the types each of them may have.  At a function's first instruction     *)
(* these are its arguments.                                                *)
(***************************************************************************)
EXTENDS Discipline, FiniteSets

\* The n-th from the top.
FromTop(s, n) == s[Len(s) - n + 1]

\* The n topmost cells have the type.
Topmost(s, n, type) == \A i \in 1 .. n : FromTop(s, i) \subseteq {type}

\* How many variables the function of the instruction at k has.
Variables(p, d, k) == At0(p, d[k].fun).a + At0(p, d[k].fun).b

\* The types of what the function at f leaves its caller.
LeftBy(p, d, t, f) ==
  UNION {FromTop(t[k], 1) : k \in {j \in DOMAIN t : d[j].fun = f /\ At0(p, j).op = "return-value"}}

\* The instruction at k finds what it expects.
Expects(p, d, t, k) ==
  LET i == At0(p, k)
      s == t[k]
  IN  /\ i.op \in Arith \union Compare \union {"neg", "array"} => Topmost(s, Takes(p, k), "num")
      /\ i.op \in Logic \union {"not", "if-false"} => Topmost(s, Takes(p, k), "bool")
      /\ i.op \in {"len", "iter"}   => Topmost(s, 1, "array")
      /\ i.op = "iter-next"         => Topmost(s, 1, "iter")
      /\ i.op \in {"load", "store"} => i.a < Variables(p, d, k)
      /\ i.op = "call"  => /\ Len(t[i.a]) = Takes(p, k)
                           /\ \A n \in 1 .. Takes(p, k) : FromTop(s, n) \subseteq FromTop(t[i.a], n)
      /\ i.op = "frame" => Len(s) = i.a
      /\ i.op = "return-value" /\ d[k].result = 0 =>
           Len(s) = Variables(p, d, k) /\ d[k].fun # p.entry

\* The types of the values that an instruction puts in the place of its operands.
Gives(p, d, t, k, e) ==
  LET i   == At0(p, k)
      one == FromTop(t[k], 1)
      two == FromTop(t[k], 2)
  IN  CASE i.op \in Arith \union {"neg", "len"}  -> <<{"num"}>>
        [] i.op \in Compare \union Logic \union {"not"} -> <<{"bool"}>>
        [] i.op = "push"      -> <<{p.cons[i.a + 1].type}>>
        [] i.op = "load"      -> <<t[k][i.a + 1]>>
        [] i.op = "array"     -> <<{"array"}>>
        [] i.op = "iter"      -> <<{"iter"}>>
        [] i.op = "iter-next" -> IF e.gives = 0 THEN <<>> ELSE <<{"iter"}, {"num"}>>
        [] i.op = "native"    -> IF i.b = 0 THEN <<>> ELSE <<{"num"}>>
        [] i.op = "call"      -> IF d[i.a].result = 0 THEN <<>> ELSE <<LeftBy(p, d, t, i.a)>>
        [] i.op = "dup1"      -> <<one, one>>
        [] i.op = "dup2"      -> <<two, one, two, one>>
        [] i.op = "rot2"      -> <<one, two>>
        [] i.op = "frame"     -> [n \in 1 .. i.b |-> {"none"}]
        [] OTHER              -> <<>>

\* The i-th cell, if the instruction leaves it there: a store changes one.
Stays(p, t, k, i) ==
  IF At0(p, k).op = "store" /\ i = At0(p, k).a + 1 THEN FromTop(t[k], 1) ELSE t[k][i]

\* The note where an instruction goes on allows for what is there then.
Allows(p, d, t, k, e) ==
  LET stay == Len(t[k]) - Takes(p, k)
      new  == Gives(p, d, t, k, e)
      next == t[e.to]
  IN  /\ Len(next) = stay + Len(new)
      /\ \A i \in 1 .. stay : Stays(p, t, k, i) \subseteq next[i]
      /\ \A i \in 1 .. Len(new) : new[i] \subseteq next[stay + i]

\* The notes t fit the program p, which begins with the arguments p.args and is
\* declared to answer with a value of type p.answer.
Typed(p, d, t) ==
  /\ DOMAIN t = DOMAIN d
  /\ \A k \in DOMAIN t : /\ t[k] \in Seq(SUBSET Types)
                         /\ Expects(p, d, t, k)
                         /\ \A e \in Exits(p, d, k) : Allows(p, d, t, k, e)
  /\ \A i \in DOMAIN p.args : p.args[i].type \in t[p.entry][i]
  /\ IF d[p.entry].result = 0 THEN p.answer = "none"
     ELSE LeftBy(p, d, t, p.entry) \subseteq {p.answer}

\* The loops that the instruction at k lies in, by their OP_ITER_NEXT.
Around(p, k) ==
  {i \in DOMAIN p.inst : p.inst[i].op = "iter-next" /\ i - 1 <= k /\ k < p.inst[i].a}

\* Where a round begins, the iterators of the loops it lies in are the only operands.
LoopsTyped(p, d, t) ==
  \A k \in DOMAIN t : At0(p, k).op = "iter-next" =>
    LET loops == Cardinality(Around(p, k))
    IN  Len(t[k]) = Variables(p, d, k) + loops /\ Topmost(t[k], loops, "iter")

-----------------------------------------------------------------------------
(* The cells of a typed program.                                           *)

\* The cells of the call at j below i, and what the one on top of it leaves, are
\* what is expected at r, where it goes on.
Holds(p, d, t, m, j, i, r) ==
  /\ i - 1 + d[p.inst[r].a].result = j + Len(t[r])
  /\ \A h \in (j + 1) .. (i - 1) : m[h].type \in t[r][h - j]

\* All calls at and below f that wait for another will find what they expect.
CallersTyped(p, d, t, m, f) ==
  \A i \in 1 .. f : \A j \in 0 .. (i - 1) :
    m[i].type = "frame" /\ Awaits(p, d, m, j, i) => Holds(p, d, t, m, j, i, m[i].num)

\* A function runs.
InsideTyped(t) ==
  /\ top = frame + Len(t[pc])
  /\ \A n \in 1 .. Len(t[pc]) : mem[frame + n].type \in t[pc][n]

\* A function's frame is still to be made.
EnteringTyped(d, t) ==
  /\ \A n \in 1 .. Inst.a : mem[top - Inst.a + n - 1].type \in t[pc][n]
  /\ frame # -1 => Holds(program, d, t, mem, frame, top - Inst.a, Arg(1).num)

-----------------------------------------------------------------------------
(* Properties.                                                             *)

\* The next instruction finds operands of the types it needs, whether or not the
\* interpreter looks at them.
OperandsTyped ==
  /\ PreValid
  /\ Inst.op = "array"          => HasTypes(Arg(1).num + 1, "num")
  /\ Inst.op \in {"len", "iter"} => HasTypes(1, "array")
  /\ Inst.op = "iter-next"      => HasTypes(1, "iter")

\* "Strongly typed": a program never has an operand of the wrong type when it runs,
\* so that only a stack overflow can stop it, and its answer has the type it is
\* declared to have.  Bytecode that no declaration goes with has "" for it.
StronglyTyped ==
  program.answer # "" =>
    /\ Running => OperandsTyped
    /\ outcome.why = "invalid" => top >= StackSize
    /\ outcome.why # "misread"
    /\ outcome.why = "return" => outcome.val.type = program.answer

\* Every round of a loop begins with the same stack: above the call's variables
\* there are the iterators of the loops the instruction is in, and nothing else.
LoopsKeepTheirStack ==
  program.answer # "" /\ Running /\ Inst.op = "iter-next" =>
    LET base == frame + Reserved(frame)
    IN  /\ top = base + Cardinality(Around(program, pc))
        /\ \A i \in (base + 1) .. top : mem[i].type = "iter"

\* The inductive invariant: VmExecTypingProofs.
TypingInv(d, t) ==
  /\ StackInv(d)
  /\ Typed(program, d, t) /\ CountsFit(program)
  /\ Running =>
       /\ lastOp = "call" => Inst.op = "frame"
       /\ CallersTyped(program, d, t, mem, frame)
       /\ IF Inst.op = "frame" THEN EnteringTyped(d, t) ELSE InsideTyped(t)
  /\ outcome.why = "invalid" => top >= StackSize
  /\ outcome.why # "misread"
  /\ outcome.why = "return" => outcome.val.type = program.answer
=============================================================================
