------------------------------- MODULE VmExec -------------------------------
(***************************************************************************)
(* The bytecode interpreter vm_execute (adder/vm/vm.c) with the runtime     *)
(* validation of adder/vm/vm_validate.h, which the default build has on:   *)
(* one action per opcode, on the memory the stack really lives in -- frames,*)
(* arguments, locals and operands one after the other, the heap's cells    *)
(* right behind.                                                           *)
(*                                                                         *)
(* Instructions are addressed by their number, not by their bytes.  Numbers *)
(* are integers (division is left out).  An array is the sequence of its   *)
(* elements, numbers all: VmHeap models where they are kept.  A program    *)
(* that takes a number for an iterator is followed up to there ("misread"). *)
(***************************************************************************)
EXTENDS Values

CONSTANTS
  Programs,     \* the programs, each with an entry point and its arguments
                \* and with an OP_HALT behind its last function
  StackSize,    \* vm->mem.stack.size
  Behind,       \* how many of the heap's cells are followed
  CycleLimit,   \* instructions one vm_execute may run (1000000 in the build)
  Byte,         \* values of a uint8_t (256 in the build)
  Answers       \* numbers that host functions return

ASSUME LimitsAssumption ==
  /\ StackSize \in Nat \ {0}
  /\ Behind \in Nat
  /\ CycleLimit \in Nat
  /\ Byte \in Nat \ {0}
  /\ Answers \subseteq Int

VARIABLES
  program,   \* the program that runs; it never changes
  mem,       \* the stack's values and the first of the heap's
  top,       \* stack.top: index of the topmost value, -1 when there is none
  frame,     \* stack.frame: index of the current call frame, -1 for none
  pc,        \* index of the next instruction
  cycles,    \* cycles_remaining
  lastOp,    \* validation->last_opcode
  outcome    \* why vm_execute returned, with its answer; "run" until it does

vars == <<program, mem, top, frame, pc, cycles, lastOp, outcome>>

-----------------------------------------------------------------------------
(* Memory.                                                                 *)

FrameVal(ret, nargs, nlocals) == Val("frame", ret, <<nargs % Byte, nlocals % Byte>>)

Memory == 0 .. (StackSize + Behind - 1)
IsHeap(i) == i >= StackSize

Reserved(f) == mem[f].items[1] + mem[f].items[2]     \* num_args + num_locals

-----------------------------------------------------------------------------
(* Instructions.                                                           *)

Inst     == program.inst[pc + 1]

Arith    == {"add", "sub", "mul", "mod"}
Compare  == {"less", "more", "less-eq", "more-eq", "equal", "not-equal"}
Logic    == {"and", "or"}

Running  == outcome.why = "run"

\* The k-th value from the top.
Arg(k) == mem[top - k + 1]

HasArgs(n)        == top + 1 >= n
HasTypes(n, type) == HasArgs(n) /\ \A k \in 1 .. n : Arg(k).type = type

\* validation_pre_exec
PreValid ==
  /\ lastOp = "call" => Inst.op = "frame"
  /\ Inst.op \in Arith \union Compare    => HasTypes(2, "num")
  /\ Inst.op \in Logic                   => HasTypes(2, "bool")
  /\ Inst.op \in {"dup1", "pop1", "return-value", "print"} => HasArgs(1)
  /\ Inst.op \in {"pop2", "dup2", "rot2"} => HasArgs(2)
  /\ Inst.op \in {"not", "if-false"}     => HasTypes(1, "bool")
  /\ Inst.op \in {"neg", "frame"}        => HasTypes(1, "num")
  /\ Inst.op \in {"store", "load"}       => Inst.a < Reserved(frame)

\* Opcodes after which validation_post_exec looks at the stack.
Checked == Arith \union Compare \union Logic \union
           {"push", "pop1", "pop2", "neg", "not", "dup1", "dup2", "if-false",
            "call", "frame", "store", "load"}

\* validation_check_stack
StackValid(m, t, f) ==
  /\ t < StackSize
  /\ t >= -1
  /\ f >= 0 => t >= f + m[f].items[1] + m[f].items[2]

\* Mutant: cycles are not counted.
AtForever(ops) ==
  /\ Running /\ cycles > 0
  /\ Inst.op \in ops /\ PreValid
  /\ lastOp' = Inst.op
  /\ UNCHANGED <<program, cycles>>

\* The next instruction is one of ops, it is let through and there is a cycle for it.
At(ops) == /\ Running /\ cycles > 0
           /\ Inst.op \in ops /\ PreValid
           /\ cycles' = cycles - 1
           /\ lastOp' = Inst.op
           /\ UNCHANGED program

\* The instruction leaves memory m, top t, frame f and goes on at p, unless the
\* check after it fails.
Leaves(m, t, f, p) ==
  /\ mem' = m /\ top' = t /\ frame' = f /\ pc' = p
  /\ outcome' = IF Inst.op \in Checked /\ ~StackValid(m, t, f)
                THEN [why |-> "invalid", val |-> Num(-9999)] ELSE outcome

Ends(why, val) ==
  /\ outcome' = [why |-> why, val |-> val]
  /\ UNCHANGED <<mem, frame, pc>>

Set(i, v) == [mem EXCEPT ![i] = v]

\* k values are popped and v is pushed.
Replaces(k, v) == Leaves(Set(top - k + 1, v), top - k + 1, frame, pc + 1)

-----------------------------------------------------------------------------
(* Operand instructions.                                                   *)

PushValue == At({"push"}) /\ Replaces(0, program.cons[Inst.a + 1])

Pop == \/ At({"pop1"}) /\ Leaves(mem, top - 1, frame, pc + 1)
       \/ At({"pop2"}) /\ Leaves(mem, top - 2, frame, pc + 1)

\* The remainder has the sign of the left operand.
Remainder(a, b) ==
  LET Abs(x) == IF x < 0 THEN -x ELSE x
  IN  IF a < 0 THEN -(Abs(a) % Abs(b)) ELSE a % Abs(b)

\* The value on top is the left operand, the one below it the right one.
Arithmetic ==
  /\ At(Arith)
  /\ ~(Inst.op = "mod" /\ Arg(2).num = 0)
  /\ Replaces(2, Num(CASE Inst.op = "add" -> Arg(1).num + Arg(2).num
                       [] Inst.op = "sub" -> Arg(1).num - Arg(2).num
                       [] Inst.op = "mul" -> Arg(1).num * Arg(2).num
                       [] Inst.op = "mod" -> Remainder(Arg(1).num, Arg(2).num)))

\* OP_MOD divides integers: by zero, the process is killed.
Trap ==
  /\ At({"mod"})
  /\ Arg(2).num = 0
  /\ Ends("trap", None)
  /\ UNCHANGED top

Comparison ==
  /\ At(Compare)
  /\ Replaces(2, Bool(CASE Inst.op = "less"      -> Arg(1).num < Arg(2).num
                        [] Inst.op = "more"      -> Arg(1).num > Arg(2).num
                        [] Inst.op = "less-eq"   -> Arg(1).num <= Arg(2).num
                        [] Inst.op = "more-eq"   -> Arg(1).num >= Arg(2).num
                        [] Inst.op = "equal"     -> Arg(1).num = Arg(2).num
                        [] Inst.op = "not-equal" -> Arg(1).num # Arg(2).num))

Logical ==
  /\ At(Logic)
  /\ Replaces(2, Bool(CASE Inst.op = "and" -> Arg(1).num = 1 /\ Arg(2).num = 1
                        [] Inst.op = "or"  -> Arg(1).num = 1 \/ Arg(2).num = 1))

Unary == \/ At({"neg"}) /\ Replaces(1, Num(-Arg(1).num))
         \/ At({"not"}) /\ Replaces(1, Bool(Arg(1).num = 0))

Duplicate ==
  \/ At({"dup1"}) /\ Replaces(0, Arg(1))
  \/ At({"dup2"}) /\ Leaves([mem EXCEPT ![top + 1] = Arg(2), ![top + 2] = Arg(1)],
                            top + 2, frame, pc + 1)

Rotate == /\ At({"rot2"})
          /\ Leaves([mem EXCEPT ![top - 1] = Arg(1), ![top] = Arg(2)], top, frame, pc + 1)

-----------------------------------------------------------------------------
(* Control.                                                                *)

Jump == At({"jump"}) /\ Leaves(mem, top, frame, Inst.a)

JumpIfFalse ==
  /\ At({"if-false"})
  /\ Leaves(mem, top - 1, frame, IF Arg(1).num = 0 THEN Inst.a ELSE pc + 1)

\* OP_HALT; OP_EXIT; and OP_PRINT, which has no case in the switch
Stop ==
  /\ At({"halt", "exit", "print"})
  /\ Ends(Inst.op, Num(CASE Inst.op = "halt"  -> -1002
                         [] Inst.op = "exit"  -> Inst.a
                         [] Inst.op = "print" -> -1003))
  /\ UNCHANGED top

\* Mutant: the return address is that of the call itself.
CallAgain == At({"call"}) /\ Leaves(Set(top + 1, Num(pc)), top + 1, frame, Inst.a)

\* The return address is pushed, as a number.
Call == At({"call"}) /\ Leaves(Set(top + 1, Num(pc + 1)), top + 1, frame, Inst.a)

\* The return address is popped, the arguments move up to make room for the
\* frame, the locals are zeroed behind them.
MakeFrame ==
  /\ At({"frame"})
  /\ LET nargs   == Inst.a
         nlocals == Inst.b
         start   == top - nargs
     IN  Leaves([i \in Memory |->
                   CASE i = start -> FrameVal(Arg(1).num, nargs, nlocals)
                     [] i \in (start + 1) .. (start + nargs) -> mem[i - 1]
                     [] i \in (start + nargs + 1) .. (start + nargs + nlocals) -> None
                     [] OTHER -> mem[i]],
                start + nargs + nlocals, start, pc + 1)

\* Mutant: the returning call's frame stays the current one.
FrameBelowStale(m, t) == frame

\* Mutant: the scan for the caller's frame starts one cell too low.
FrameBelowLate(m, t) ==
  IF \E i \in 0 .. (t - 1) : m[i].type = "frame"
  THEN CHOOSE i \in 0 .. (t - 1) :
         m[i].type = "frame" /\ \A j \in (i + 1) .. (t - 1) : m[j].type # "frame"
  ELSE -1

\* The topmost frame at or below t, -1 if there is none.
FrameBelow(m, t) ==
  IF \E i \in 0 .. t : m[i].type = "frame"
  THEN CHOOSE i \in 0 .. t : m[i].type = "frame" /\ \A j \in (i + 1) .. t : m[j].type # "frame"
  ELSE -1

Outermost == frame < 0 \/ mem[frame].num < 0

\* A call returns: its frame and all above it go, v stays if there is one.
ReturnsWith(v) ==
  LET t == frame - 1 + Len(v)
      m == IF v = <<>> THEN mem ELSE Set(frame, v[1])
  IN  Leaves(m, t, FrameBelow(m, t), mem[frame].num)

ReturnNothing ==
  /\ At({"return-nothing"})
  /\ \/ Outermost /\ Ends("return", None) /\ top' = 0
     \/ ~Outermost /\ ReturnsWith(<<>>)

\* Mutant: the top of the stack is returned even if it is the last local.
ReturnValueAlways ==
  /\ At({"return-value"})
  /\ \/ Outermost /\ Ends("return", Arg(1)) /\ top' = 0
     \/ ~Outermost /\ ReturnsWith(<<Arg(1)>>)

ReturnValue ==
  /\ At({"return-value"})
  /\ \/ Outermost /\ Ends("return", Arg(1)) /\ top' = 0
     \/ ~Outermost /\ ReturnsWith(IF top > frame + Reserved(frame) THEN <<Arg(1)>> ELSE <<>>)

-----------------------------------------------------------------------------
(* Locals, arrays, host functions.                                         *)

StoreLocal ==
  /\ At({"store"})
  /\ Leaves(Set(frame + 1 + Inst.a, Arg(1)), top - 1, frame, pc + 1)

LoadLocal == At({"load"}) /\ Replaces(0, mem[frame + 1 + Inst.a])

\* heap_array_alloc may find no room.
MakeArray ==
  /\ At({"array"})
  /\ LET n == Arg(1).num IN
     \/ Replaces(n + 1, Arr([i \in 1 .. n |-> mem[top - 1 - n + i].num]))
     \/ Ends("oom", Num(-1005)) /\ top' = top - 1

ArrayLength ==
  At({"len"}) /\ Arg(1).type = "array" /\ Replaces(1, Num(Len(Arg(1).items)))

MakeIter ==
  At({"iter"}) /\ Arg(1).type = "array" /\ Replaces(1, Iter(Arg(1).items))

IterNext ==
  /\ At({"iter-next"})
  /\ \/ /\ Arg(1).type = "iter" /\ Arg(1).items = <<>>
        /\ Leaves(mem, top - 1, frame, Inst.a)
     \/ /\ Arg(1).type = "iter" /\ Arg(1).items # <<>>
        /\ Leaves([mem EXCEPT ![top] = Iter(Tail(Arg(1).items)),
                              ![top + 1] = Num(Head(Arg(1).items))],
                  top + 1, frame, pc + 1)
     \/ Arg(1).type # "iter" /\ Ends("misread", None) /\ UNCHANGED top

\* ffi_invoke: a host action takes Inst.a arguments, a host function (Inst.b = 1)
\* also answers
CallNative ==
  /\ At({"native"})
  /\ \/ Inst.b = 0 /\ Leaves(mem, top - Inst.a, frame, pc + 1)
     \/ Inst.b = 1 /\ \E x \in Answers : Replaces(Inst.a, Num(x))

-----------------------------------------------------------------------------
(* Ends that no instruction asks for.                                      *)

OutOfCycles ==
  /\ Running /\ cycles = 0
  /\ Ends("cycles", Num(-1004))
  /\ UNCHANGED <<program, top, cycles, lastOp>>

Refuse ==
  /\ Running /\ cycles > 0 /\ ~PreValid
  /\ Ends("invalid", Num(-9999))
  /\ cycles' = cycles - 1
  /\ lastOp' = Inst.op
  /\ UNCHANGED <<program, top>>

\* vm_execute up to its loop, with vm_select_entry_point.
Init ==
  /\ program \in Programs
  /\ LET args  == program.args
         first == program.inst[program.entry + 1].op = "frame"
     IN  /\ top = Len(args) - 1 + (IF first THEN 1 ELSE 0)
         /\ mem = [i \in Memory |-> CASE i < Len(args) -> args[i + 1]
                                      [] i = Len(args) /\ first -> Num(-1)
                                      [] IsHeap(i) -> HeapVal
                                      [] OTHER -> None]
  /\ frame = -1
  /\ pc = program.entry
  /\ cycles = CycleLimit
  /\ lastOp = "none"
  /\ outcome = [why |-> "run", val |-> None]

Next ==
  \/ PushValue \/ Pop \/ Arithmetic \/ Comparison \/ Logical \/ Unary \/ Duplicate \/ Rotate
  \/ Trap \/ Jump \/ JumpIfFalse \/ Stop \/ Call \/ MakeFrame \/ ReturnNothing \/ ReturnValue
  \/ StoreLocal \/ LoadLocal \/ MakeArray \/ ArrayLength \/ MakeIter \/ IterNext \/ CallNative
  \/ OutOfCycles \/ Refuse

Spec == Init /\ [][Next]_vars

\* The loop of vm_execute goes on as long as the host's thread does.
FairSpec == Spec /\ WF_vars(Next)

-----------------------------------------------------------------------------
(* Properties.                                                             *)

Value == [type : Types, num : Int, items : Seq(Int)]

Outcomes ==
  {"run", "return", "halt", "exit", "print", "cycles", "oom", "invalid", "misread", "trap"}

\* Type invariant of the machine.
TypeOK ==
  /\ mem \in [Memory -> Value]
  /\ top \in -1 .. (StackSize + Behind - 1)
  /\ frame \in -1 .. top
  /\ pc \in Nat
  /\ cycles \in 0 .. CycleLimit
  /\ outcome.why \in Outcomes /\ outcome.val \in Value

Frames == {i \in 0 .. top : mem[i].type = "frame"}

\* The current frame is the topmost frame value on the stack, which is what the
\* scan in OP_RETURN_* takes the caller's frame to be.
FrameIsTopmost ==
  Running => /\ frame = -1 <=> Frames = {}
             /\ frame # -1 => frame \in Frames /\ \A i \in Frames : i <= frame

\* The frames form the chain of active calls: the lowest one ends vm_execute,
\* every other one returns right behind an OP_CALL of the function whose
\* OP_MAKE_FRAME made it, and has that function's counts.
MadeBy(i, addr) ==
  LET inst == program.inst[addr + 1]
  IN  inst.op = "frame" /\ mem[i].items = <<inst.a % Byte, inst.b % Byte>>

CallChain ==
  Running => \A i \in Frames :
    IF \E j \in Frames : j < i
    THEN LET call == program.inst[mem[i].num] IN call.op = "call" /\ MadeBy(i, call.a)
    ELSE mem[i].num = -1 /\ MadeBy(i, program.entry)

\* A function is entered by a call only: no function's code runs on into the
\* next one's.
EnteredByCall == Running /\ Inst.op = "frame" => lastOp \in {"none", "call"}

\* A program that returns an answer has not written over the heap: the check for
\* a "stack overflow" has stopped any that would.
OverflowStops == outcome.why = "return" => \A i \in Memory : IsHeap(i) => mem[i] = HeapVal

\* "Endless looping is not allowed": every execution ends.
Terminates == <>(~Running)
=============================================================================
