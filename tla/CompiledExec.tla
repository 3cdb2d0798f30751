---------------------------- MODULE CompiledExec ----------------------------
(***************************************************************************)
(* Compiled programs on the virtual machine: the type checker, the code    *)
(* generator, the bytecode and the interpreter together, from the source   *)
(* to the answer (gvm_compile, then vm_execute).                           *)
(***************************************************************************)
EXTENDS TypedCode, Codegen, Typecheck

Reference == INSTANCE Meaning

\* vm_env_setup: instructions as the interpreter meets them, with a host
\* function's number of arguments, and whether it answers, for its index.
Link(inst, source) ==
  LET imports == SelectSeq(source, LAMBDA d : d.tag = "funexdecl")
      Native(i) == [i EXCEPT !.a = Len(imports[i.a + 1].params),
                             !.b = IF imports[i.a + 1].ret = "none" THEN 0 ELSE 1]
  IN  [k \in DOMAIN inst |-> IF inst[k].op = "native" THEN Native(inst[k]) ELSE inst[k]]

MainType(source) == Reference!Definition(source, "main").ret

\* The program VmExec runs: main, called with args.  made is false where the
\* compiler aborts on an accepted source; there is nothing to run then.
Compile(source, args) ==
  LET st == Generate(source)
  IN  [source |-> source, args |-> args, made |-> st.made, answer |-> MainType(source),
       entry |-> IF st.made THEN st.funs["main"] ELSE 0,
       cons |-> st.cons,
       inst |-> IF st.made THEN Link(st.inst, source) ELSE <<[op |-> "halt", a |-> 0, b |-> 0]>>]

-----------------------------------------------------------------------------
\* READ_U32, and the instruction vm_execute reads at an address, with the
\* address it goes on at.
ReadU32(code, at) == code[at + 1] + 256 * code[at + 2] + 65536 * code[at + 3]
                     + 16777216 * code[at + 4]

Fetch(code, at) ==
  LET op == Opcodes[code[at + 1] + 1]
  IN  CASE op = "frame" -> [op |-> op, a |-> ReadU32(code, at + 1), b |-> ReadU32(code, at + 5),
                            next |-> at + 9]
        [] op \in {"push", "jump", "if-false", "exit", "call", "store", "load", "iter-next",
                   "native"} ->
             [op |-> op, a |-> ReadU32(code, at + 1), b |-> 0, next |-> at + 5]
        [] OTHER -> [op |-> op, a |-> 0, b |-> 0, next |-> at + 1]

-----------------------------------------------------------------------------
(* Properties.                                                             *)

\* The program was compiled; bytecode from elsewhere has no source.
FromSource == program.source # <<>>

\* What the type checker accepts the code generator translates: no assert about
\* an unknown variable fails.
AcceptedCompiles == program.made

\* A program that compiled runs to its end, unless the heap is full, and answers
\* what its source means, whatever of calls, loops and branches lies one inside
\* the other.
ComputesMeaning ==
  FromSource /\ program.made /\ ~Running /\ outcome.why # "oom" =>
    outcome = [why |-> "return", val |-> Reference!Apply(program.source, "main", program.args)]

\* Before the program runs: the bytes at the address of an instruction are that
\* instruction, with addresses for the indices it was generated with, and the next
\* one follows where the interpreter goes on reading.
BytecodeAgrees ==
  FromSource /\ program.made /\ Running /\ lastOp = "none" =>
    LET all  == Generate(program.source).inst
        addr == Addresses(all)
        code == Write(all)
    IN  \A k \in DOMAIN all :
          LET inst == Fetch(code, addr[k])
              gen  == all[k]
          IN  /\ inst.op = gen.op
              /\ inst.a = IF gen.op \in Jumps THEN addr[gen.a + 1] ELSE gen.a
              /\ inst.b = gen.b
              /\ inst.next = addr[k + 1]
-----------------------------------------------------------------------------
(* The notes that the discipline asks for, by following the code from the  *)
(* entries of its functions.                                               *)

\* The notes d with what the instruction at k makes known where it goes on.
Spread(p, d, k) ==
  LET exits == Exits(p, d, k)
      Left(count, e) == Max({0, count - Takes(p, k) + e.gives})
      Note(e) ==
        LET low  == Left(d[k].low, e)
            high == IF At0(p, k).op \in Checked THEN 0 ELSE Min({Left(d[k].high, e), Behind + 1})
        IN  IF e.to \in DOMAIN d
            THEN [d[e.to] EXCEPT !.low = Min({@, low}), !.high = Max({@, high})]
            ELSE [d[k] EXCEPT !.low = low, !.high = high]
  IN  [to \in {e.to : e \in exits} |-> Note(CHOOSE e \in exits : e.to = to)] @@ d

RECURSIVE SpreadFrom(_, _, _)
SpreadFrom(p, d, k) ==
  CASE k = Len(p.inst)  -> d
    [] k \in DOMAIN d   -> SpreadFrom(p, Spread(p, d, k), k + 1)
    [] OTHER            -> SpreadFrom(p, d, k + 1)

RECURSIVE Settled(_, _)
Settled(p, d) ==
  LET next == SpreadFrom(p, d, 0) IN IF next = d THEN d ELSE Settled(p, next)

\* The functions begin in the order of their declarations; one with a return type
\* leaves its caller a value.
NotesOf(p) ==
  LET decls == SelectSeq(p.source, LAMBDA d : d.tag = "fundecl")
      Nth(k) == Cardinality({j \in 0 .. k : At0(p, j).op = "frame"})
  IN  Settled(p, [k \in {j \in 0 .. (Len(p.inst) - 1) : At0(p, j).op = "frame"} |->
                    [low |-> 0, high |-> 0, fun |-> k,
                     result |-> IF decls[Nth(k)].ret = "none" THEN 0 ELSE 1]])

-----------------------------------------------------------------------------
(* The types of cells, in the same way: every path adds its own.           *)

SpreadTypes(p, d, t, k) ==
  LET After(e) == [i \in 1 .. Len(t[k]) - Takes(p, k) |-> Stays(p, t, k, i)] \o Gives(p, d, t, k, e)
      Join(s, new) == [i \in DOMAIN s |-> IF i \in DOMAIN new THEN s[i] \union new[i] ELSE s[i]]
      Note(e) == IF e.to \in DOMAIN t THEN Join(t[e.to], After(e)) ELSE After(e)
      exits == Exits(p, d, k)
  IN  [to \in {e.to : e \in exits} |-> Note(CHOOSE e \in exits : e.to = to)] @@ t

RECURSIVE SpreadTypesFrom(_, _, _, _)
SpreadTypesFrom(p, d, t, k) ==
  CASE k = Len(p.inst)  -> t
    [] k \in DOMAIN t   -> SpreadTypesFrom(p, d, SpreadTypes(p, d, t, k), k + 1)
    [] OTHER            -> SpreadTypesFrom(p, d, t, k + 1)

RECURSIVE SettledTypes(_, _, _)
SettledTypes(p, d, t) ==
  LET next == SpreadTypesFrom(p, d, t, 0) IN IF next = t THEN t ELSE SettledTypes(p, d, next)

\* Arguments have the types that are declared.
TypesFor(p, d) ==
  LET decls == SelectSeq(p.source, LAMBDA def : def.tag = "fundecl")
      Decl(k) == decls[Cardinality({j \in 0 .. k : At0(p, j).op = "frame"})]
  IN  SettledTypes(p, d, [k \in {j \in DOMAIN d : At0(p, j).op = "frame"} |->
                            [i \in DOMAIN Decl(k).params |-> {Decl(k).params[i].type}]])

\* When main has its frame: the code of an accepted source keeps to what the
\* interpreter relies on without looking, on every path through it -- also on
\* those these arguments do not take: it never takes an operand that is not the
\* running function's own, or not of the type it needs, never goes on past the last
\* cell that is there, calls nothing but a function's first instruction, and begins
\* the rounds of a loop with nothing but iterators (co_compiler.c, co_bty.c).
KeepsDiscipline ==
  FromSource /\ program.made /\ Running /\ cycles = CycleLimit - 1 =>
    LET d == NotesOf(program)
        t == TypesFor(program, d)
    IN  /\ Disciplined(program, d) /\ CountsFit(program)
        /\ Typed(program, d, t) /\ LoopsTyped(program, d, t)
=============================================================================
