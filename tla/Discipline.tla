------------------------------ MODULE Discipline ------------------------------
(***************************************************************************)
(* What bytecode has to keep to for VmExec's call stack to stay sound: the *)
(* interpreter itself looks at little of it (PreValid, StackValid).  The   *)
(* code generator keeps to it by its construction (adder/compiler/         *)
(* co_compiler.c); nothing in the code states or checks it.                *)
(*                                                                         *)
(* It is stated by a note on every instruction that can be reached, as of  *)
(* a bytecode verifier: how many operands there are at least above the     *)
(* variables of the call, how far the stack may already reach over its     *)
(* end, which function the instruction belongs to and how many values that *)
(* function leaves its caller.                                             *)
(***************************************************************************)
EXTENDS VmExec

Notes == [low : Nat, high : Nat, fun : Nat, result : {0, 1}]

\* The instruction at address k of the program p.
At0(p, k) == p.inst[k + 1]

\* What the push before the instruction at k leaves on the stack.
Pushed(p, k) == p.cons[p.inst[k].a + 1]

\* How many operands an instruction takes.
Takes(p, k) ==
  LET i == At0(p, k)
  IN  CASE i.op \in Arith \union Compare \union Logic \union {"dup2", "rot2", "pop2"} -> 2
        [] i.op \in {"neg", "not", "dup1", "pop1", "store", "if-false", "len", "iter",
                     "iter-next"} -> 1
        [] i.op = "array"  -> Pushed(p, k).num + 1
        [] i.op = "native" -> i.a
        [] i.op = "call"   -> At0(p, i.a).a
        [] OTHER           -> 0

Exit(to, gives) == [to |-> to, gives |-> gives]

\* Where the function goes on behind an instruction, with how many operands of its
\* making: behind a call when it has returned.
Exits(p, d, k) ==
  LET i == At0(p, k)
  IN  CASE i.op = "jump"      -> {Exit(i.a, 0)}
        [] i.op = "if-false"  -> {Exit(i.a, 0), Exit(k + 1, 0)}
        [] i.op = "iter-next" -> {Exit(i.a, 0), Exit(k + 1, 2)}
        [] i.op = "native"    -> {Exit(k + 1, i.b)}
        [] i.op = "call"      -> {Exit(k + 1, d[i.a].result)}
        [] i.op = "dup2"      -> {Exit(k + 1, 4)}
        [] i.op \in {"dup1", "rot2"} -> {Exit(k + 1, 2)}
        [] i.op \in Arith \union Compare \union Logic \union
                    {"push", "load", "neg", "not", "array", "len", "iter"} -> {Exit(k + 1, 1)}
        [] i.op \in {"pop1", "pop2", "store", "frame"} -> {Exit(k + 1, 0)}
        [] OTHER -> {}

\* The note where an instruction goes on promises no more than there is.
Follows(p, d, k, e) ==
  LET left == d[k].low - Takes(p, k) + e.gives
      over == d[k].high - Takes(p, k) + e.gives
  IN  /\ e.to \in DOMAIN d
      /\ d[e.to].fun = d[k].fun
      /\ d[e.to].low <= left
      /\ over <= Behind
      /\ At0(p, k).op \notin Checked => d[e.to].high >= over
      /\ At0(p, e.to).op # "frame"
      /\ At0(p, e.to).op = "array" => At0(p, k).op = "push" /\ Pushed(p, e.to).num \in Nat

\* What an instruction needs beside its operands.
Stands(p, d, k) ==
  LET i == At0(p, k)
  IN  /\ i.op = "push"   => i.a + 1 \in DOMAIN p.cons
      /\ i.op = "native" => i.b \in {0, 1}
      /\ i.op = "call"   => /\ i.a \in DOMAIN d /\ At0(p, i.a).op = "frame"
                            /\ d[k].high + 1 <= Behind
      /\ i.op = "frame"  => d[k].fun = k /\ d[k].low = 0 /\ d[k].high + i.b <= Behind
      /\ i.op = "return-value"   => d[k].low >= d[k].result
      /\ i.op = "return-nothing" => d[k].result = 0

\* The notes d fit the program p, whose first instruction makes a frame for as many
\* arguments as the host passes.
Disciplined(p, d) ==
  /\ p.inst \in Seq([op : STRING, a : Nat, b : Nat])
  /\ p.cons \in Seq(Value) /\ \A i \in DOMAIN p.cons : p.cons[i].type # "frame"
  /\ p.args \in Seq(Value) /\ \A i \in DOMAIN p.args : p.args[i].type # "frame"
  /\ DOMAIN d \subseteq 0 .. (Len(p.inst) - 1)
  /\ \A k \in DOMAIN d : d[k] \in Notes
  /\ p.entry \in DOMAIN d
  /\ At0(p, p.entry).op = "frame" /\ At0(p, p.entry).a = Len(p.args)
  /\ Len(p.args) < StackSize
  /\ \A k \in DOMAIN d :
       /\ d[k].fun \in DOMAIN d /\ d[d[k].fun].result = d[k].result
       /\ Takes(p, k) <= d[k].low
       /\ \A e \in Exits(p, d, k) : Follows(p, d, k, e)
       /\ Stands(p, d, k)

\* The counts of every OP_MAKE_FRAME fit the bytes that a frame has for them.
CountsFit(p) ==
  \A k \in DOMAIN p.inst : p.inst[k].op = "frame" => p.inst[k].a < Byte /\ p.inst[k].b < Byte

-----------------------------------------------------------------------------
(* The call stack of a disciplined program, in the memory m.               *)

CountsOf(m, j) == m[j].items[1] + m[j].items[2]

\* The function whose call the frame at j belongs to.
FunctionOf(p, m, j) == IF j = 0 THEN p.entry ELSE p.inst[m[j].num].a

\* The function of the frame at j has called from before the address r: when the
\* call made on top of it from cell i on returns there, it has its variables, and
\* the operands that the note at r promises.
Resumes(p, d, m, j, i, r) ==
  /\ r - 1 \in DOMAIN d /\ r \in DOMAIN d
  /\ p.inst[r].op = "call"
  /\ d[r].fun = FunctionOf(p, m, j)
  /\ j + CountsOf(m, j) < i
  /\ j + CountsOf(m, j) + d[r].low <= i - 1 + d[p.inst[r].a].result

\* The frame at i has the counts of the function at address k.
Made(p, m, i, k) ==
  At0(p, k).op = "frame" /\ m[i].items = <<At0(p, k).a % Byte, At0(p, k).b % Byte>>

\* The frame at j is the one below the frame at i, and its call waits for that of i.
Awaits(p, d, m, j, i) ==
  /\ m[j].type = "frame"
  /\ \A h \in (j + 1) .. (i - 1) : m[h].type # "frame"
  /\ Resumes(p, d, m, j, i, m[i].num)
  /\ Made(p, m, i, p.inst[m[i].num].a)

\* The frames at and below f are those of calls that wait for one another, down to
\* the entry point's in cell 0.
Chain(p, d, m, f) ==
  /\ m[f].type = "frame"
  /\ m[0].type = "frame" /\ m[0].num = -1 /\ Made(p, m, 0, p.entry)
  /\ \A i \in 1 .. f : m[i].type = "frame" => \E j \in 0 .. (i - 1) : Awaits(p, d, m, j, i)

NoFrames(m, from, to) == \A i \in from .. to : m[i].type # "frame"

\* The entry point's frame is still to be made.
Starting ==
  /\ frame = -1 /\ pc = program.entry
  /\ top = Len(program.args) /\ mem[top] = Num(-1)
  /\ NoFrames(mem, 0, top)

\* A function runs.
Inside(d) ==
  /\ Inst.op # "frame"
  /\ d[pc].fun = FunctionOf(program, mem, frame)
  /\ top >= frame + Reserved(frame) + d[pc].low

\* A function has been called whose frame is still to be made.
Entering(d) ==
  /\ Inst.op = "frame"
  /\ Arg(1) = Num(Arg(1).num)
  /\ Resumes(program, d, mem, frame, top - Inst.a, Arg(1).num)
  /\ program.inst[Arg(1).num].a = pc

Calling(d) ==
  /\ frame \in 0 .. (StackSize - 1)
  /\ Chain(program, d, mem, frame)
  /\ NoFrames(mem, frame + 1, top)
  /\ Inside(d) \/ Entering(d)

\* The inductive invariant: VmExecProofs.
StackInv(d) ==
  /\ TypeOK
  /\ Disciplined(program, d)
  /\ Running => /\ pc \in DOMAIN d
                /\ top <= StackSize - 1 + d[pc].high
                /\ Inst.op = "array" => Arg(1) = Pushed(program, pc) /\ Arg(1).num \in Nat
                /\ Starting \/ Calling(d)
=============================================================================
