------------------------------ MODULE Codegen ------------------------------
(***************************************************************************)
(* The code generator (adder/compiler/co_compiler.c): one operator for each *)
(* codegen_* function.  It takes a node and compiler_state_t and gives the *)
(* state it leaves.                                                        *)
(*                                                                         *)
(* The state's locals are the variables' names in the order of their slots *)
(* (srcmap_t numbers them by its count), funs the addresses of functions,  *)
(* imports the host's functions, inst the instructions, cons the pool of   *)
(* constants.  made is false once an assert fails or an error is reported: *)
(* then there is no program, and nothing said of the rest matters.         *)
(***************************************************************************)
EXTENDS Source, SequencesExt

Emit(st, op, a) == [st EXCEPT !.inst = Append(@, [op |-> op, a |-> a, b |-> 0])]

\* The index the next instruction will have; a later change of an operand.
Here(st)        == Len(st.inst)
Patch(st, i, a) == [st EXCEPT !.inst[i + 1].a = a]

RECURSIVE PatchAll(_, _, _)
PatchAll(st, is, a) ==
  IF is = <<>> THEN st ELSE PatchAll(Patch(st, Head(is), a), Tail(is), a)

Index(s, x) == (CHOOSE i \in DOMAIN s : s[i] = x) - 1

\* A name has one slot in its function, in whichever blocks it is declared.
AddLocal(st, x) == IF Contains(st.locals, x) THEN st
                   ELSE [st EXCEPT !.locals = Append(@, x)]

\* An assert fails, or an error is reported and nothing more is generated.  (A build
\* without asserts goes on with the first variable's slot.)
Abort(st) == [st EXCEPT !.made = FALSE]

\* An instruction on the variable x, which an assert expects to be known.
EmitLocal(st, op, x) == IF Contains(st.locals, x) THEN Emit(st, op, Index(st.locals, x))
                        ELSE Abort(st)

\* Equal constants share a place in the pool.
EmitValue(st, v) ==
  LET pool == IF Contains(st.cons, v) THEN st.cons ELSE Append(st.cons, v)
  IN  Emit([st EXCEPT !.cons = pool], "push", Index(pool, v))

-----------------------------------------------------------------------------
RECURSIVE Gen(_, _), GenAll(_, _)

GenAll(nodes, st) ==
  IF nodes = <<>> \/ ~st.made THEN st ELSE GenAll(Tail(nodes), Gen(Head(nodes), st))

\* Mutant: the left operand first.
GenBinopLeftFirst(n, st) == Emit(Gen(n.right, Gen(n.left, st)), n.op, 0)

\* The right operand first: the left one is to be on top.
GenBinop(n, st) == Emit(Gen(n.left, Gen(n.right, st)), n.op, 0)

GenUnop(n, st) == Emit(Gen(n.inner, st), n.op, 0)

GenArray(n, st) ==
  Emit(EmitValue(GenAll(n.content, st), Num(Len(n.content))), "array", 0)

GenFuncall(n, st) ==
  LET s == GenAll(n.args, st)
  IN  CASE n.name \in DOMAIN s.funs     -> Emit(s, "call", s.funs[n.name])
        [] Contains(s.imports, n.name)  -> Emit(s, "native", Index(s.imports, n.name))
        [] OTHER                        -> Abort(s)

\* The value is generated before the variable is known.
GenAssignment(n, st) ==
  LET s == Gen(n.value, st)
  IN  EmitLocal(IF n.type # "" THEN AddLocal(s, n.name) ELSE s, "store", n.name)

\* Mutant: every round makes a new iterator.
GenForeachAnew(n, st) ==
  LET start == Emit(Gen(n.collection, st), "iter", 0)
      loop  == Here(start)
      var   == AddLocal(Emit(start, "iter-next", 0), n.name)
      body  == GenAll(n.during, EmitLocal(var, "store", n.name))
      back  == Emit(body, "jump", Here(st))
  IN  Patch(back, loop, Here(back))

\* Mutant: a loop is left to the jump back instead of behind it.
GenForeachShort(n, st) ==
  LET start == Emit(Gen(n.collection, st), "iter", 0)
      loop  == Here(start)
      var   == AddLocal(Emit(start, "iter-next", 0), n.name)
      body  == GenAll(n.during, EmitLocal(var, "store", n.name))
  IN  Patch(Emit(body, "jump", loop), loop, Here(body))

GenForeach(n, st) ==
  LET start == Emit(Gen(n.collection, st), "iter", 0)
      loop  == Here(start)
      var   == AddLocal(Emit(start, "iter-next", 0), n.name)
      body  == GenAll(n.during, EmitLocal(var, "store", n.name))
      back  == Emit(body, "jump", loop)
  IN  Patch(back, loop, Here(back))

\* The k-th link of an if chain: its condition, the jump past its block, and
\* behind the block, unless nothing follows, a jump to the chain's end.  exits
\* are the indices of those jumps.
GenLink(n, k, acc) ==
  LET cond == Gen(n.branches[k].cond, acc.st)
      body == GenAll(n.branches[k].iftrue, Emit(cond, "if-false", 0))
      more == k < Len(n.branches) \/ n.last # <<>>
      done == IF more THEN Emit(body, "jump", 0) ELSE body
  IN  [st    |-> Patch(done, Here(cond), Here(done)),
       exits |-> IF more THEN Append(acc.exits, Here(body)) ELSE acc.exits]

RECURSIVE GenLinks(_, _, _)
GenLinks(n, k, acc) ==
  IF k > Len(n.branches) THEN acc ELSE GenLinks(n, k + 1, GenLink(n, k, acc))

GenIfChain(n, st) ==
  LET links == GenLinks(n, 1, [st |-> st, exits |-> <<>>])
      all   == GenAll(n.last, links.st)
  IN  PatchAll(all, links.exits, Here(all))

GenReturn(n, st) ==
  IF n.result = <<>> THEN Emit(st, "return-nothing", 0)
  ELSE Emit(Gen(n.result[1], st), "return-value", 0)

\* Nothing is generated any more once something has gone wrong.
Gen(n, st) ==
  IF ~st.made THEN st
  ELSE
  CASE n.tag = "value"   -> EmitValue(st, n.val)
    [] n.tag = "var"     -> EmitLocal(st, "load", n.name)
    [] n.tag = "unop"    -> GenUnop(n, st)
    [] n.tag = "binop"   -> GenBinop(n, st)
    [] n.tag = "array"   -> GenArray(n, st)
    [] n.tag = "call"    -> GenFuncall(n, st)
    [] n.tag = "assign"  -> GenAssignment(n, st)
    [] n.tag = "if"      -> GenIfChain(n, st)
    [] n.tag = "foreach" -> GenForeach(n, st)
    [] n.tag = "return"  -> GenReturn(n, st)
    [] n.tag = "break"   -> Abort(st)

-----------------------------------------------------------------------------
Names(params) == [i \in DOMAIN params |-> params[i].name]

\* The locals are the variables that are no parameters.
FrameOf(n, st) ==
  [op |-> "frame", a |-> Len(n.params), b |-> Len(st.locals) - Len(n.params)]

\* Mutant: nothing is put behind a body.
GenFundeclOpen(n, st) ==
  LET at   == Here(st)
      head == [Emit(st, "frame", 0) EXCEPT !.funs = (n.name :> at) @@ @,
                                           !.locals = Names(n.params)]
      body == GenAll(n.body, head)
  IN  [body EXCEPT !.inst[at + 1] = FrameOf(n, body), !.locals = <<>>]

\* The function is known in its own body.  If the last instruction is not a
\* return, a return follows it.
GenFundecl(n, st) ==
  LET at   == Here(st)
      head == [Emit(st, "frame", 0) EXCEPT !.funs = (n.name :> at) @@ @,
                                           !.locals = Names(n.params)]
      body == GenAll(n.body, head)
      all  == IF Last(body.inst).op \in {"return-value", "return-nothing"} THEN body
              ELSE Emit(body, "return-nothing", 0)
  IN  [all EXCEPT !.inst[at + 1] = FrameOf(n, all), !.locals = <<>>]

GenImport(n, st) == [st EXCEPT !.imports = Append(@, n.name)]

RECURSIVE GenDefinitions(_, _)
GenDefinitions(defs, st) ==
  IF defs = <<>> \/ ~st.made THEN st
  ELSE GenDefinitions(Tail(defs), IF Head(defs).tag = "fundecl" THEN GenFundecl(Head(defs), st)
                                  ELSE GenImport(Head(defs), st))

\* gvm_compile, after the type check
Generate(source) ==
  Emit(GenDefinitions(source, [locals |-> <<>>, funs |-> <<>>, imports |-> <<>>, inst |-> <<>>,
                               cons |-> <<>>, made |-> TRUE]),
       "halt", 0)

-----------------------------------------------------------------------------
(* Bytecode.  Opcodes are numbered as in vm_op_t.                          *)

Opcodes == <<"halt", "and", "or", "not", "mul", "div", "mod", "add", "sub", "neg", "dup1",
             "dup2", "rot2", "equal", "not-equal", "less", "more", "less-eq", "more-eq",
             "push", "pop1", "pop2", "jump", "if-false", "exit", "call", "frame",
             "return-nothing", "return-value", "store", "load", "print", "array", "len",
             "iter", "iter-next", "native">>

ArgCount(op) ==
  CASE op = "frame" -> 2
    [] op \in {"push", "jump", "if-false", "exit", "call", "store", "load", "iter-next",
               "native"} -> 1
    [] OTHER -> 0

Jumps == {"call", "iter-next", "jump", "if-false"}

\* Mutant: OP_MAKE_FRAME has one operand like the others.
AddressesNarrow(inst) ==
  LET at[k \in 1 .. Len(inst) + 1] ==
        IF k = 1 THEN 0 ELSE at[k - 1] + (IF ArgCount(inst[k - 1].op) > 0 THEN 5 ELSE 1)
  IN  at

\* The address of every instruction, and of what comes behind the last.
Addresses(inst) ==
  LET at[k \in 1 .. Len(inst) + 1] ==
        IF k = 1 THEN 0 ELSE at[k - 1] + ArgCount(inst[k - 1].op) * 4 + 1
  IN  at

Bytes(n) == [k \in 1 .. 4 |-> (n \div 256 ^ (k - 1)) % 256]

\* write_program: jumps take addresses for indices.
Write(inst) ==
  LET addr == Addresses(inst)
      Arg1(i) == IF i.op \in Jumps THEN addr[i.a + 1] ELSE i.a
      Code(i) == <<Index(Opcodes, i.op)>>
                 \o (IF ArgCount(i.op) > 0 THEN Bytes(Arg1(i)) ELSE <<>>)
                 \o (IF ArgCount(i.op) > 1 THEN Bytes(i.b) ELSE <<>>)
  IN  FlattenSeq([k \in DOMAIN inst |-> Code(inst[k])])
=============================================================================
