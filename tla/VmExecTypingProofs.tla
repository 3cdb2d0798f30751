-------------------------- MODULE VmExecTypingProofs --------------------------
(***************************************************************************)
(* Theorems about VmExec: the operands of every program that keeps to      *)
(* Discipline and TypedCode, for every size of the stack and every number  *)
(* of cycles.                                                              *)
(***************************************************************************)
EXTENDS TypedCode, VmExecProofs, FiniteSetTheorems

-----------------------------------------------------------------------------
(* Notes.                                                                  *)

LEMMA KindsTyped ==
  ASSUME NEW p, NEW d, NEW t, Typed(p, d, t), NEW k \in DOMAIN d
  PROVE  /\ t[k] \in Seq(SUBSET Types) /\ Len(t[k]) \in Nat /\ DOMAIN t[k] = 1 .. Len(t[k])
         /\ Expects(p, d, t, k)
         /\ \A e \in Exits(p, d, k) : Allows(p, d, t, k, e)
BY DEF Typed

LEMMA KindKnown ==
  ASSUME NEW p, NEW d, NEW t, Typed(p, d, t), NEW k \in DOMAIN d, NEW i \in 1 .. Len(t[k])
  PROVE  t[k][i] \in SUBSET Types
BY KindsTyped

-----------------------------------------------------------------------------
(* The running function.                                                   *)

LEMMA TypedFacts ==
  ASSUME NEW d, NEW t, TypingInv(d, t), Running, Inst.op # "frame"
  PROVE  /\ StackInv(d) /\ TypeOK /\ Disciplined(program, d) /\ Typed(program, d, t)
         /\ pc \in DOMAIN d /\ pc \in Nat /\ At0(program, pc) = Inst
         /\ frame \in 0 .. (StackSize - 1) /\ frame <= top /\ top \in Int
         /\ mem \in [Memory -> Value]
         /\ Len(t[pc]) \in Nat /\ top = frame + Len(t[pc])
         /\ \A n \in 1 .. Len(t[pc]) : mem[frame + n].type \in t[pc][n]
         /\ Expects(program, d, t, pc)
         /\ \A e \in Exits(program, d, pc) : Allows(program, d, t, pc, e)
         /\ CallersTyped(program, d, t, mem, frame)
         /\ d[pc].low \in Nat /\ Reserved(frame) \in Nat
         /\ Takes(program, pc) <= d[pc].low /\ top >= frame + Reserved(frame) + d[pc].low
<1>1. StackInv(d) /\ TypeOK /\ Disciplined(program, d) /\ Typed(program, d, t)
  BY DEF TypingInv, StackInv
<1>2. /\ pc \in DOMAIN d /\ frame \in 0 .. (StackSize - 1) /\ Inside(d)
      /\ Chain(program, d, mem, frame)
  BY <1>1, FunctionRuns
<1>3. /\ pc \in Nat /\ At0(program, pc) = Inst /\ frame <= top /\ top \in Int
      /\ mem \in [Memory -> Value]
  BY <1>1, InstAt, TypesNow
<1>4. InsideTyped(t) /\ CallersTyped(program, d, t, mem, frame)
  BY DEF TypingInv
<1>5. d[pc].low \in Nat /\ Takes(program, pc) <= d[pc].low
  BY <1>1, <1>2, NotesTyped
<1>6. Reserved(frame) \in Nat
  BY <1>1, <1>2, CountsNat DEF Reserved, CountsOf
<1>7. Len(t[pc]) \in Nat /\ Expects(program, d, t, pc)
      /\ \A e \in Exits(program, d, pc) : Allows(program, d, t, pc, e)
  BY <1>1, <1>2, KindsTyped
<1> QED BY <1>1, <1>2, <1>3, <1>4, <1>5, <1>6, <1>7 DEF InsideTyped, Inside

\* What an instruction takes lies above the variables.
LEMMA BelowOperands ==
  ASSUME NEW d, NEW t, TypingInv(d, t), Running, Inst.op # "frame",
         NEW k \in Nat, k = Takes(program, pc), NEW n \in Nat, n = Len(t[pc])
  PROVE  /\ top - k \in Nat /\ frame + Reserved(frame) <= top - k /\ frame <= top - k
         /\ k <= n /\ frame + (n - k) = top - k
<1>1. /\ frame \in Nat /\ top \in Int /\ top = frame + n
      /\ d[pc].low \in Nat /\ Reserved(frame) \in Nat
      /\ k <= d[pc].low /\ top >= frame + Reserved(frame) + d[pc].low
  BY TypedFacts
<1>2. PICK low \in Nat : low = d[pc].low
  BY <1>1
<1>3. PICK r \in Nat : r = Reserved(frame)
  BY <1>1
<1>4. PICK f \in Nat : f = frame
  BY <1>1
<1>5. top = f + n /\ k <= low /\ f + n >= f + r + low
  BY <1>1, <1>2, <1>3, <1>4
<1>6. f + n - k \in Nat /\ f + r <= f + n - k /\ f <= f + n - k /\ k <= n /\ f + (n - k) = f + n - k
  BY ONLY <1>5
<1>7. top - k = f + n - k
  BY <1>5
<1> QED BY <1>3, <1>4, <1>6, <1>7

\* An operand has one of the types that its note has for it.
LEMMA OperandTyped ==
  ASSUME NEW d, NEW t, TypingInv(d, t), Running, Inst.op # "frame",
         NEW k \in Nat \ {0}, k <= d[pc].low
  PROVE  Arg(k).type \in FromTop(t[pc], k) /\ k <= Len(t[pc])
<1>1. /\ Len(t[pc]) \in Nat /\ top = frame + Len(t[pc]) /\ frame \in Nat
      /\ \A n \in 1 .. Len(t[pc]) : mem[frame + n].type \in t[pc][n]
      /\ d[pc].low \in Nat /\ Reserved(frame) \in Nat
      /\ top >= frame + Reserved(frame) + d[pc].low
  BY TypedFacts
<1>2. PICK n \in Int : n = Len(t[pc]) - k + 1
  BY <1>1
<1>3. n \in 1 .. Len(t[pc]) /\ top - k + 1 = frame + n /\ k <= Len(t[pc])
  BY <1>1, <1>2
<1>4. mem[frame + n].type \in t[pc][n]
  BY <1>1, <1>3
<1> QED BY <1>2, <1>3, <1>4 DEF Arg, FromTop

LEMMA TopmostTyped ==
  ASSUME NEW d, NEW t, TypingInv(d, t), Running, Inst.op # "frame",
         NEW n \in Nat, n <= d[pc].low, NEW type, Topmost(t[pc], n, type)
  PROVE  HasTypes(n, type)
<1>1. /\ frame \in Nat /\ top \in Int /\ d[pc].low \in Nat /\ Reserved(frame) \in Nat
      /\ top >= frame + Reserved(frame) + d[pc].low
  BY TypedFacts
<1>2. HasArgs(n)
  BY <1>1 DEF HasArgs
<1>3. ASSUME NEW k \in 1 .. n
      PROVE  Arg(k).type = type
  <2>1. k \in Nat \ {0} /\ k <= d[pc].low
    BY <1>1
  <2>2. Arg(k).type \in FromTop(t[pc], k)
    BY <2>1, OperandTyped
  <2> QED BY <2>2 DEF Topmost
<1> QED BY <1>2, <1>3 DEF HasTypes

\* The frame is one that the function of the instruction has made.
LEMMA FrameMade ==
  ASSUME NEW d, StackInv(d), Running, Inst.op # "frame"
  PROVE  /\ d[pc].fun \in DOMAIN d /\ Made(program, mem, frame, d[pc].fun)
         /\ At0(program, d[pc].fun).a \in Nat /\ At0(program, d[pc].fun).b \in Nat
         /\ mem[frame].items[1] \in Nat /\ mem[frame].items[2] \in Nat
<1>1. /\ Disciplined(program, d) /\ frame \in Nat
      /\ Chain(program, d, mem, frame) /\ Inside(d)
  BY FunctionRuns DEF StackInv
<1>2. d[pc].fun = FunctionOf(program, mem, frame)
  BY <1>1 DEF Inside
<1>3. d[pc].fun \in DOMAIN d /\ Made(program, mem, frame, d[pc].fun)
  <2>1. CASE frame = 0
    <3>1. Made(program, mem, frame, program.entry) /\ program.entry \in DOMAIN d
      BY <1>1, <2>1 DEF Chain, Disciplined
    <3> QED BY <1>2, <2>1, <3>1 DEF FunctionOf
  <2>2. CASE frame # 0
    <3>1. PICK j \in 0 .. (frame - 1) : Awaits(program, d, mem, j, frame)
      BY <1>1, <2>2 DEF Chain
    <3>2. PICK r : r = mem[frame].num
      OBVIOUS
    <3>3. /\ Made(program, mem, frame, program.inst[r].a) /\ r - 1 \in DOMAIN d /\ r \in DOMAIN d
          /\ program.inst[r].op = "call"
      BY <3>1, <3>2 DEF Awaits, Resumes
    <3>4. r \in Nat /\ Stands(program, d, r - 1)
      BY <1>1, <3>3, NotesTyped
    <3>5. At0(program, r - 1) = program.inst[r]
      BY <3>4 DEF At0
    <3>6. program.inst[r].a \in DOMAIN d
      BY <3>3, <3>4, <3>5 DEF Stands
    <3> QED BY <1>2, <2>2, <3>2, <3>3, <3>6 DEF FunctionOf
  <2> QED BY <2>1, <2>2
<1>4. At0(program, d[pc].fun).a \in Nat /\ At0(program, d[pc].fun).b \in Nat
  BY <1>1, <1>3, NotesTyped
<1>5. \A x \in Nat : x % Byte \in Nat
  BY LimitsAssumption
<1>6. mem[frame].items = <<At0(program, d[pc].fun).a % Byte, At0(program, d[pc].fun).b % Byte>>
  BY <1>3 DEF Made
<1> QED BY <1>3, <1>4, <1>5, <1>6

\* It has as many variables as that function.
LEMMA ReservedVariables ==
  ASSUME NEW d, NEW t, TypingInv(d, t), Running, Inst.op # "frame"
  PROVE  Reserved(frame) = Variables(program, d, pc)
<1>1. StackInv(d) /\ Disciplined(program, d) /\ CountsFit(program)
  BY DEF TypingInv, StackInv
<1>2. PICK f : f = d[pc].fun
  OBVIOUS
<1>3. /\ f \in DOMAIN d /\ Made(program, mem, frame, f)
      /\ At0(program, f).a \in Nat /\ At0(program, f).b \in Nat
  BY <1>1, <1>2, FrameMade
<1>4. f + 1 \in DOMAIN program.inst /\ At0(program, f).op = "frame"
  BY <1>1, <1>3, NotesTyped DEF Made
<1>5. At0(program, f).a < Byte /\ At0(program, f).b < Byte
  BY <1>1, <1>4 DEF CountsFit, At0
<1>6. \A x \in Nat : x < Byte => x % Byte = x
  BY LimitsAssumption
<1>7. At0(program, f).a % Byte = At0(program, f).a /\ At0(program, f).b % Byte = At0(program, f).b
  BY <1>3, <1>5, <1>6
<1> QED BY <1>2, <1>3, <1>7 DEF Made, Reserved, Variables

-----------------------------------------------------------------------------
(* Operands.                                                               *)

\* Where a function's frame is to be made there is its return address on top.
LEMMA EntryOperands ==
  ASSUME NEW d, StackInv(d), Running, Inst.op = "frame"
  PROVE  HasTypes(1, "num") /\ Arg(1) = Num(Arg(1).num) /\ top \in Nat
<1>1. Starting \/ (Calling(d) /\ Entering(d))
  BY DEF StackInv, Calling, Inside
<1>2. Disciplined(program, d) /\ top \in Int /\ frame <= top
  BY TypesNow DEF StackInv
<1>3. CASE Starting
  <2>1. top \in Nat /\ Arg(1) = mem[top] /\ mem[top] = Num(-1)
    <3>1. top \in Nat /\ top - 1 + 1 = top
      BY <1>2, <1>3 DEF Starting, Disciplined
    <3> QED BY <1>3, <3>1 DEF Starting, Arg
  <2>2. Num(-1).type = "num" /\ Num(-1).num = -1
    BY DEF Num, Val
  <2> QED BY <2>1, <2>2 DEF HasTypes, HasArgs
<1>4. CASE Calling(d) /\ Entering(d)
  <2>1. Arg(1) = Num(Arg(1).num) /\ top \in Nat
    BY <1>2, <1>4 DEF Calling, Entering
  <2>2. Arg(1).type = "num"
    BY <2>1 DEF Num, Val
  <2> QED BY <2>1, <2>2 DEF HasTypes, HasArgs
<1> QED BY <1>1, <1>3, <1>4

LEMMA OperandsHold ==
  ASSUME NEW d, NEW t, TypingInv(d, t), Running
  PROVE  OperandsTyped
<1>1. lastOp = "call" => Inst.op = "frame"
  BY DEF TypingInv
<1>2. CASE Inst.op = "frame"
  <2>1. HasTypes(1, "num")
    BY <1>2, EntryOperands DEF TypingInv
  <2> QED BY <1>1, <1>2, <2>1 DEF OperandsTyped, PreValid, Arith, Compare, Logic
<1>3. CASE Inst.op # "frame"
  <2>1. /\ pc \in DOMAIN d /\ pc \in Nat /\ At0(program, pc) = Inst
        /\ Expects(program, d, t, pc) /\ d[pc].low \in Nat
        /\ Takes(program, pc) <= d[pc].low /\ StackInv(d)
        /\ frame \in Nat /\ top \in Int /\ Reserved(frame) \in Nat
        /\ top >= frame + Reserved(frame) + d[pc].low
    BY <1>3, TypedFacts
  <2>2. ASSUME NEW n \in Nat, n = Takes(program, pc), NEW type, Topmost(t[pc], n, type)
        PROVE  HasTypes(n, type)
    BY <1>3, <2>1, <2>2, TopmostTyped
  <2>3. Inst.op \in Arith \union Compare \union Logic => Takes(program, pc) = 2
    BY <2>1 DEF Takes, Arith, Compare, Logic
  <2>4. Inst.op \in {"neg", "not", "dup1", "pop1", "store", "if-false", "len", "iter", "iter-next"}
          => Takes(program, pc) = 1
    BY <2>1 DEF Takes, Arith, Compare, Logic
  <2>5. Inst.op \in {"pop2", "dup2", "rot2"} => Takes(program, pc) = 2
    BY <2>1 DEF Takes, Arith, Compare, Logic
  <2>6. \A n \in Nat : n <= Takes(program, pc) /\ Takes(program, pc) \in Nat => HasArgs(n)
    BY <2>1 DEF HasArgs
  <2>7. /\ Inst.op \in Arith \union Compare => HasTypes(2, "num")
        /\ Inst.op \in Logic => HasTypes(2, "bool")
    BY <2>1, <2>2, <2>3 DEF Expects
  <2>8. /\ Inst.op \in {"not", "if-false"} => HasTypes(1, "bool")
        /\ Inst.op = "neg" => HasTypes(1, "num")
        /\ Inst.op \in {"len", "iter"} => HasTypes(1, "array")
        /\ Inst.op = "iter-next" => HasTypes(1, "iter")
    BY <2>1, <2>2, <2>4 DEF Expects
  <2>9. /\ Inst.op \in {"dup1", "pop1"} => HasArgs(1)
        /\ Inst.op \in {"pop2", "dup2", "rot2"} => HasArgs(2)
    BY <2>4, <2>5, <2>6
  <2>10. HasArgs(1)
    BY <2>1 DEF HasArgs
  <2>11. Inst.op \in {"store", "load"} => Inst.a < Reserved(frame)
    BY <1>3, <2>1, ReservedVariables DEF Expects
  <2>12. ASSUME Inst.op = "array"
         PROVE  HasTypes(Arg(1).num + 1, "num")
    <3>1. Arg(1) = Pushed(program, pc) /\ Arg(1).num \in Nat
      BY <2>1, <2>12 DEF StackInv
    <3>2. Takes(program, pc) = Arg(1).num + 1 /\ Takes(program, pc) \in Nat
      BY <2>1, <2>12, <3>1 DEF Takes, Arith, Compare, Logic
    <3> QED BY <2>1, <2>2, <2>12, <3>2 DEF Expects
  <2> QED BY <1>1, <1>3, <2>7, <2>8, <2>9, <2>10, <2>11, <2>12 DEF OperandsTyped, PreValid
<1> QED BY <1>2, <1>3
-----------------------------------------------------------------------------
(* Steps.                                                                  *)

\* What waiting calls expect depends on nothing above the topmost frame.
LEMMA CallersKept ==
  ASSUME NEW p, NEW d, NEW t, NEW m, NEW n, NEW f \in Nat,
         CallersTyped(p, d, t, m, f), \A i \in 0 .. f : n[i] = m[i]
  PROVE  CallersTyped(p, d, t, n, f)
<1> SUFFICES ASSUME NEW i \in 1 .. f, NEW j \in 0 .. (i - 1), n[i].type = "frame",
                    Awaits(p, d, n, j, i)
             PROVE  Holds(p, d, t, n, j, i, n[i].num)
  BY DEF CallersTyped
<1>1. n[i] = m[i] /\ n[j] = m[j] /\ \A h \in (j + 1) .. (i - 1) : n[h] = m[h]
  OBVIOUS
<1>2. m[i].type = "frame" /\ Awaits(p, d, m, j, i)
  BY <1>1 DEF Awaits, Resumes, Made, FunctionOf, CountsOf
<1>3. Holds(p, d, t, m, j, i, m[i].num)
  BY <1>2 DEF CallersTyped
<1> QED BY <1>1, <1>3 DEF Holds

LEMMA CallersBelow ==
  ASSUME NEW p, NEW d, NEW t, NEW m, NEW f \in Nat, NEW j \in 0 .. f, CallersTyped(p, d, t, m, f)
  PROVE  CallersTyped(p, d, t, m, j)
BY DEF CallersTyped

LEMMA Above ==
  ASSUME NEW x \in Int, NEW f \in Nat, NEW a \in Nat, NEW b \in Nat, NEW n, n = a + b, x >= f + n
  PROVE  x >= f + a + b /\ x >= f
OBVIOUS

\* A check that stops the program has seen the stack overflow.
LEMMA OnlyOverflow ==
  ASSUME NEW m, NEW x \in Int, NEW f \in Nat, ~StackValid(m, x, f),
         x >= f + m[f].items[1] + m[f].items[2], x >= f
  PROVE  x >= StackSize
BY LimitsAssumption DEF StackValid

\* An instruction that stays in its function and leaves what the note where it goes on
\* allows for.
LEMMA WorkStep ==
  ASSUME NEW d, NEW t, NEW ops, TypingInv(d, t), At(ops), StackInv(d)',
         Inst.op # "frame", Inst.op # "call",
         NEW e \in Exits(program, d, pc),
         NEW new, new = Gives(program, d, t, pc, e), Len(new) \in Nat,
         NEW m, NEW x \in Int, x = top - Takes(program, pc) + Len(new),
         \A i \in 0 .. frame : m[i] = mem[i],
         \A i \in 1 .. (Len(t[pc]) - Takes(program, pc)) :
           m[frame + i].type \in Stays(program, t, pc, i),
         \A i \in 1 .. Len(new) : m[x - Len(new) + i].type \in new[i],
         Leaves(m, x, frame, e.to)
  PROVE  TypingInv(d, t)'
<1>1. /\ Running /\ program' = program /\ lastOp' = Inst.op
  BY DEF At
<1>2. /\ StackInv(d) /\ pc \in DOMAIN d /\ pc \in Nat
      /\ frame \in Nat /\ top \in Int
      /\ Len(t[pc]) \in Nat /\ top = frame + Len(t[pc])
      /\ Allows(program, d, t, pc, e) /\ CallersTyped(program, d, t, mem, frame)
      /\ d[pc].low \in Nat /\ Reserved(frame) \in Nat
      /\ Takes(program, pc) <= d[pc].low /\ top >= frame + Reserved(frame) + d[pc].low
  BY <1>1, TypedFacts
<1>3. Takes(program, pc) \in Nat /\ e.to \in DOMAIN d /\ At0(program, e.to).op # "frame"
  BY <1>1, <1>2, ExitCounts DEF Follows
<1>4. /\ mem' = m /\ top' = x /\ frame' = frame /\ pc' = e.to
      /\ outcome' = IF Inst.op \in Checked /\ ~StackValid(m, x, frame)
                    THEN [why |-> "invalid", val |-> Num(-9999)] ELSE outcome
  BY DEF Leaves
<1>5. x >= frame + Reserved(frame)
  <2>1. PICK s \in Int : s = top - Takes(program, pc)
    BY <1>2, <1>3
  <2>2. frame + Reserved(frame) <= s
    BY <1>1, <1>2, <1>3, <2>1, BelowOperands
  <2>3. x = s + Len(new)
    BY <2>1
  <2>4. PICK b \in Nat : b = frame + Reserved(frame)
    BY <1>2
  <2> QED BY <2>2, <2>3, <2>4
<1>6. m[frame] = mem[frame]
  BY <1>2
<1>7. outcome'.why = "invalid" => top' >= StackSize
  <2>1. ASSUME ~StackValid(m, x, frame)
        PROVE  x >= StackSize
    <3>1. mem[frame].items[1] \in Nat /\ mem[frame].items[2] \in Nat
      BY <1>1, <1>2, FrameMade
    <3>2. Reserved(frame) = mem[frame].items[1] + mem[frame].items[2]
      BY DEF Reserved
    <3>3. x >= frame + mem[frame].items[1] + mem[frame].items[2] /\ x >= frame
      <4>1. x \in Int /\ frame \in Nat /\ x >= frame + Reserved(frame)
        BY <1>2, <1>5
      <4> QED BY ONLY <3>1, <3>2, <4>1, Above
    <3>4. x >= frame + m[frame].items[1] + m[frame].items[2]
      BY <1>6, <3>3
    <3> QED BY <1>2, <2>1, <3>3, <3>4, OnlyOverflow
  <2> QED BY <1>1, <1>4, <2>1 DEF Running
<1>8. outcome'.why # "misread" /\ outcome'.why # "return"
  BY <1>1, <1>4 DEF Running
<1>9. Inst' = At0(program, e.to)
  BY <1>1, <1>4 DEF Inst, At0
<1>10. CallersTyped(program, d, t, m, frame)
  BY <1>2, CallersKept
<1>11. InsideTyped(t)'
  <2>1. PICK stay \in Int : stay = Len(t[pc]) - Takes(program, pc)
    BY <1>2, <1>3, SMTT(30)
  <2>2. PICK next : next = t[e.to]
    OBVIOUS
  <2>3. /\ Len(next) = stay + Len(new)
        /\ \A i \in 1 .. stay : Stays(program, t, pc, i) \subseteq next[i]
        /\ \A i \in 1 .. Len(new) : new[i] \subseteq next[stay + i]
    BY <1>2, <2>1, <2>2 DEF Allows
  <2>4. stay \in Nat /\ x = frame + stay + Len(new)
    <3>1. PICK n \in Nat : n = Len(t[pc])
      BY <1>2
    <3>2. PICK k \in Nat : k = Takes(program, pc)
      BY <1>3
    <3>3. k <= n /\ frame + (n - k) = top - k
      <4>1. TypingInv(d, t) /\ Running /\ Inst.op # "frame"
        BY <1>1
      <4> QED BY ONLY <3>1, <3>2, <4>1, BelowOperands
    <3>4. stay = n - k
      BY ONLY <2>1, <3>1, <3>2, Zenon
    <3>5. stay \in Nat /\ frame + stay = top - k
      BY <3>3, <3>4
    <3>6. x = top - k + Len(new)
      BY <3>2
    <3> QED BY <3>5, <3>6
  <2>5. ASSUME NEW i \in 1 .. Len(next)
        PROVE  m[frame + i].type \in next[i]
    <3>1. CASE i <= stay
      BY <2>1, <2>3, <2>4, <3>1
    <3>2. CASE i > stay
      <4>1. PICK h \in Int : h = i - stay
        BY <2>4
      <4>2. PICK l \in Nat : l = Len(new)
        OBVIOUS
      <4>3. PICK f \in Nat : f = frame
        BY <1>2
      <4>4. x = f + stay + l /\ i \in 1 .. (stay + l)
        BY <2>3, <2>4, <4>2, <4>3
      <4>5. h \in 1 .. l /\ x - l + h = f + i /\ stay + h = i
        <5>1. stay \in Nat
          BY <2>4
        <5>2. h \in 1 .. l /\ stay + h = i
          BY <3>2, <4>1, <4>4, <5>1
        <5>3. x - l + h = f + stay + h
          BY ONLY <4>4, <5>1
        <5>4. f + stay + h = f + i
          BY <5>1, <5>2
        <5> QED BY <5>2, <5>3, <5>4
      <4>6. h \in 1 .. Len(new) /\ x - Len(new) + h = frame + i
        BY <4>2, <4>3, <4>5
      <4>7. m[x - Len(new) + h].type \in new[h] /\ new[h] \subseteq next[stay + h]
        BY <2>3, <4>6
      <4> QED BY <4>5, <4>6, <4>7
    <3> QED BY <2>4, <3>1, <3>2
  <2>6. x = frame + Len(next)
    BY <1>2, <2>3, <2>4
  <2> QED BY <1>4, <2>2, <2>5, <2>6 DEF InsideTyped
<1>12. Typed(program, d, t) /\ CountsFit(program)
  BY DEF TypingInv
<1> QED BY <1>1, <1>3, <1>4, <1>7, <1>8, <1>9, <1>10, <1>11, <1>12 DEF TypingInv

\* The places of the memory that a step has reached.
LEMMA Reached ==
  ASSUME NEW d, StackInv(d)', NEW i \in Nat, i <= top'
  PROVE  i \in Memory
<1>1. top' \in Int /\ top' <= StackSize + Behind - 1
  <2>1. TypeOK'
    BY DEF StackInv
  <2>2. top' \in -1 .. (StackSize + Behind - 1)
    BY <2>1 DEF TypeOK
  <2> QED BY <2>2, LimitsAssumption
<1> QED BY <1>1, LimitsAssumption DEF Memory

\* An instruction that leaves one value in the place of what it takes.
LEMMA ReplaceTyped ==
  ASSUME NEW d, NEW t, NEW ops, TypingInv(d, t), At(ops), StackInv(d)',
         Inst.op # "frame", Inst.op # "call", Inst.op # "store",
         NEW k, k = Takes(program, pc),
         Exit(pc + 1, 1) \in Exits(program, d, pc),
         NEW kind, Gives(program, d, t, pc, Exit(pc + 1, 1)) = <<kind>>,
         NEW v, v.type \in kind,
         Replaces(k, v)
  PROVE  TypingInv(d, t)'
<1>16. PICK e : e = Exit(pc + 1, 1)
  OBVIOUS
<1>17. /\ e \in Exits(program, d, pc) /\ e.to = pc + 1
      /\ Gives(program, d, t, pc, e) = <<kind>>
  BY <1>16 DEF Exit
<1>1. Running
  BY DEF At
<1>2. /\ pc \in Nat /\ At0(program, pc) = Inst
      /\ frame \in Nat /\ top \in Int /\ mem \in [Memory -> Value]
      /\ Len(t[pc]) \in Nat /\ top = frame + Len(t[pc])
      /\ \A n \in 1 .. Len(t[pc]) : mem[frame + n].type \in t[pc][n]
      /\ d[pc].low \in Nat /\ Reserved(frame) \in Nat
      /\ Takes(program, pc) <= d[pc].low /\ top >= frame + Reserved(frame) + d[pc].low
      /\ StackInv(d)
  BY <1>1, TypedFacts
<1>3. k \in Nat
  BY <1>17, <1>1, <1>2, ExitCounts
<1>4. PICK x \in Int : x = top - k + 1
  BY <1>2, <1>3
<1>5. PICK m : m = Set(x, v)
  OBVIOUS
<1>6. Leaves(m, x, frame, e.to)
  BY <1>17, <1>4, <1>5 DEF Replaces
<1>7. x > frame /\ x \in Nat /\ top' = x
  <2>1. top - k \in Nat /\ frame <= top - k
    BY <1>1, <1>2, <1>3, BelowOperands
  <2>2. PICK s \in Nat : s = top - k
    BY <2>1
  <2>3. x = s + 1 /\ frame <= s /\ frame \in Nat
    BY <1>2, <1>4, <2>1, <2>2
  <2>4. x > frame /\ x \in Nat
    BY ONLY <2>3
  <2>5. top' = x
    BY <1>6 DEF Leaves
  <2> QED BY <2>4, <2>5
<1>8. \A i \in Nat : i <= x => i \in Memory
  BY <1>7, Reached
<1>9. /\ m[x] = v /\ \A i \in Nat : i < x => m[i] = mem[i]
  BY <1>2, <1>5, <1>7, <1>8 DEF Set
<1>10. PICK new : new = Gives(program, d, t, pc, e)
  OBVIOUS
<1>11. new = <<kind>> /\ Len(new) = 1
  BY <1>17, <1>10
<1>12. x = top - Takes(program, pc) + Len(new)
  BY <1>4, <1>11
<1>13. \A i \in 0 .. frame : m[i] = mem[i]
  BY <1>2, <1>7, <1>9
<1>14. ASSUME NEW i \in 1 .. (Len(t[pc]) - Takes(program, pc))
       PROVE  m[frame + i].type \in Stays(program, t, pc, i)
  <2>1. i \in 1 .. Len(t[pc]) /\ frame + i \in Nat /\ frame + i < x
    <3>1. PICK n \in Nat : n = Len(t[pc])
      BY <1>2
    <3>2. k <= n /\ frame + (n - k) = top - k /\ frame \in Nat
      BY <1>1, <1>2, <1>3, <3>1, BelowOperands, SMTT(30)
    <3>3. i \in 1 .. (n - k) /\ x = frame + (n - k) + 1
      BY <1>3, <1>4, <3>1, <3>2
    <3>4. i \in 1 .. n /\ frame + i \in Nat /\ frame + i < x
      BY <1>3, <3>2, <3>3
    <3> QED BY <3>1, <3>4
  <2>2. m[frame + i].type \in t[pc][i]
    BY <1>2, <1>9, <2>1
  <2> QED BY <1>2, <2>2 DEF Stays
<1>15. ASSUME NEW i \in 1 .. Len(new)
       PROVE  m[x - Len(new) + i].type \in new[i]
  <2>1. i = 1 /\ x - Len(new) + i = x
    BY <1>11, <1>7
  <2> QED BY <1>9, <1>11, <2>1
<1> QED BY <1>17, <1>6, <1>10, <1>11, <1>12, <1>13, <1>14, <1>15, WorkStep

\* An instruction that only takes operands away.
LEMMA DropStep ==
  ASSUME NEW d, NEW t, NEW ops, TypingInv(d, t), At(ops), StackInv(d)',
         Inst.op # "frame", Inst.op # "call", Inst.op # "store",
         NEW e \in Exits(program, d, pc), Gives(program, d, t, pc, e) = <<>>,
         NEW k, k = Takes(program, pc),
         Leaves(mem, top - k, frame, e.to)
  PROVE  TypingInv(d, t)'
<1>1. Running
  BY DEF At
<1>2. /\ pc \in Nat /\ At0(program, pc) = Inst /\ StackInv(d)
      /\ top \in Int /\ Len(t[pc]) \in Nat
      /\ \A n \in 1 .. Len(t[pc]) : mem[frame + n].type \in t[pc][n]
  BY <1>1, TypedFacts
<1>3. k \in Nat
  BY <1>1, <1>2, ExitCounts
<1>4. PICK x \in Int : x = top - k
  BY <1>2, <1>3
<1>5. PICK new : new = Gives(program, d, t, pc, e)
  OBVIOUS
<1>6. Len(new) = 0 /\ x = top - Takes(program, pc) + Len(new)
  BY <1>4, <1>5, <1>2, <1>3
<1>7. ASSUME NEW i \in 1 .. (Len(t[pc]) - Takes(program, pc))
      PROVE  mem[frame + i].type \in Stays(program, t, pc, i)
  <2>1. i \in 1 .. Len(t[pc])
    BY <1>2, <1>3
  <2>2. mem[frame + i].type \in t[pc][i]
    BY <1>2, <2>1
  <2> QED BY <1>2, <2>2 DEF Stays
<1>8. Leaves(mem, x, frame, e.to) /\ \A i \in 1 .. Len(new) : mem[x - Len(new) + i].type \in new[i]
  BY <1>4, <1>6
<1> QED BY <1>5, <1>6, <1>7, <1>8, WorkStep

\* A program that ends, but not by an operand of the wrong type.
LEMMA EndsTyped ==
  ASSUME NEW d, NEW t, TypingInv(d, t), StackInv(d)', program' = program,
         NEW why, why \notin {"run", "invalid", "misread"}, NEW val, Ends(why, val),
         why = "return" => val.type = program.answer
  PROVE  TypingInv(d, t)'
<1>1. outcome'.why = why /\ outcome'.val = val
  BY DEF Ends
<1> QED BY <1>1 DEF TypingInv, Running

-----------------------------------------------------------------------------
(* Instructions that leave one value.                                      *)

LEMMA PushTyped ==
  ASSUME NEW d, NEW t, TypingInv(d, t), PushValue, StackInv(d)'
  PROVE  TypingInv(d, t)'
<1>1. At({"push"}) /\ Running /\ Inst.op = "push"
  BY DEF PushValue, At
<1>2. pc \in Nat /\ At0(program, pc) = Inst
  BY <1>1, TypedFacts
<1>3. Takes(program, pc) = 0 /\ Exit(pc + 1, 1) \in Exits(program, d, pc)
  BY <1>1, <1>2 DEF Takes, Exits, Arith, Compare, Logic
<1>4. PICK v : v = program.cons[Inst.a + 1]
  OBVIOUS
<1>5. Gives(program, d, t, pc, Exit(pc + 1, 1)) = <<{v.type}>>
  BY <1>1, <1>2, <1>4 DEF Gives, Arith, Compare, Logic
<1>6. Replaces(0, v) /\ v.type \in {v.type}
  BY <1>4 DEF PushValue
<1> QED BY <1>1, <1>3, <1>5, <1>6, ReplaceTyped

LEMMA ArithmeticTyped ==
  ASSUME NEW d, NEW t, TypingInv(d, t), Arithmetic, StackInv(d)'
  PROVE  TypingInv(d, t)'
<1>1. At(Arith) /\ Running /\ Inst.op \in Arith
  BY DEF Arithmetic, At
<1>2. Inst.op # "frame" /\ Inst.op # "call" /\ Inst.op # "store"
  BY <1>1 DEF Arith
<1>3. pc \in Nat /\ At0(program, pc) = Inst
  BY <1>1, <1>2, TypedFacts
<1>4. Takes(program, pc) = 2 /\ Exit(pc + 1, 1) \in Exits(program, d, pc)
  BY <1>1, <1>3 DEF Takes, Exits, Arith, Compare, Logic
<1>5. Gives(program, d, t, pc, Exit(pc + 1, 1)) = <<{"num"}>>
  BY <1>1, <1>3 DEF Gives, Arith, Compare, Logic
<1>6. PICK n : Replaces(2, Num(n))
  BY DEF Arithmetic
<1>7. Num(n).type \in {"num"}
  BY DEF Num, Val
<1> QED BY <1>1, <1>2, <1>4, <1>5, <1>6, <1>7, ReplaceTyped

LEMMA ComparisonTyped ==
  ASSUME NEW d, NEW t, TypingInv(d, t), Comparison \/ Logical, StackInv(d)'
  PROVE  TypingInv(d, t)'
<1>1. PICK ops \in {Compare, Logic} : At(ops)
  BY DEF Comparison, Logical
<1>2. Running /\ Inst.op \in Compare \union Logic
  BY <1>1 DEF At
<1>3. Inst.op # "frame" /\ Inst.op # "call" /\ Inst.op # "store"
  BY <1>2 DEF Compare, Logic
<1>4. pc \in Nat /\ At0(program, pc) = Inst
  BY <1>2, <1>3, TypedFacts
<1>5. Takes(program, pc) = 2 /\ Exit(pc + 1, 1) \in Exits(program, d, pc)
  BY <1>2, <1>4 DEF Takes, Exits, Arith, Compare, Logic
<1>6. Gives(program, d, t, pc, Exit(pc + 1, 1)) = <<{"bool"}>>
  BY <1>2, <1>4 DEF Gives, Arith, Compare, Logic
<1>7. PICK b : Replaces(2, Bool(b))
  BY DEF Comparison, Logical
<1>8. Bool(b).type \in {"bool"}
  BY DEF Bool, Val
<1> QED BY <1>1, <1>3, <1>5, <1>6, <1>7, <1>8, ReplaceTyped

LEMMA UnaryTyped ==
  ASSUME NEW d, NEW t, TypingInv(d, t), Unary, StackInv(d)'
  PROVE  TypingInv(d, t)'
<1>1. ASSUME NEW op \in {"neg", "not"}, At({op}), NEW v, Replaces(1, v),
             v.type = IF op = "neg" THEN "num" ELSE "bool"
      PROVE  TypingInv(d, t)'
  <2>1. Running /\ Inst.op = op /\ Inst.op # "frame" /\ Inst.op # "call" /\ Inst.op # "store"
    BY <1>1 DEF At
  <2>2. pc \in Nat /\ At0(program, pc) = Inst
    BY <2>1, TypedFacts
  <2>3. Takes(program, pc) = 1 /\ Exit(pc + 1, 1) \in Exits(program, d, pc)
    BY <2>1, <2>2 DEF Takes, Exits, Arith, Compare, Logic
  <2>4. Gives(program, d, t, pc, Exit(pc + 1, 1)) = <<{v.type}>>
    BY <1>1, <2>1, <2>2 DEF Gives, Arith, Compare, Logic
  <2>5. v.type \in {v.type}
    OBVIOUS
  <2> QED BY <1>1, <2>1, <2>3, <2>4, <2>5, ReplaceTyped
<1>2. CASE At({"neg"}) /\ Replaces(1, Num(-Arg(1).num))
  <2>1. PICK v : v = Num(-Arg(1).num)
    OBVIOUS
  <2>2. v.type = "num" /\ Replaces(1, v)
    BY <1>2, <2>1 DEF Num, Val
  <2> QED BY <1>1, <1>2, <2>2
<1>3. CASE At({"not"}) /\ Replaces(1, Bool(Arg(1).num = 0))
  <2>1. PICK v : v = Bool(Arg(1).num = 0)
    OBVIOUS
  <2>2. v.type = "bool" /\ Replaces(1, v)
    BY <1>3, <2>1 DEF Bool, Val
  <2> QED BY <1>1, <1>3, <2>2
<1> QED BY <1>2, <1>3 DEF Unary

LEMMA ArrayTyped ==
  ASSUME NEW d, NEW t, TypingInv(d, t), ArrayLength \/ MakeIter, StackInv(d)'
  PROVE  TypingInv(d, t)'
<1>1. ASSUME NEW op \in {"len", "iter"}, At({op}), NEW v, Replaces(1, v),
             v.type = IF op = "len" THEN "num" ELSE "iter"
      PROVE  TypingInv(d, t)'
  <2>1. Running /\ Inst.op = op /\ Inst.op # "frame" /\ Inst.op # "call" /\ Inst.op # "store"
    BY <1>1 DEF At
  <2>2. pc \in Nat /\ At0(program, pc) = Inst
    BY <2>1, TypedFacts
  <2>3. Takes(program, pc) = 1 /\ Exit(pc + 1, 1) \in Exits(program, d, pc)
    BY <2>1, <2>2 DEF Takes, Exits, Arith, Compare, Logic
  <2>4. Gives(program, d, t, pc, Exit(pc + 1, 1)) = <<{v.type}>>
    BY <1>1, <2>1, <2>2 DEF Gives, Arith, Compare, Logic
  <2>5. v.type \in {v.type}
    OBVIOUS
  <2> QED BY <1>1, <2>1, <2>3, <2>4, <2>5, ReplaceTyped
<1>2. CASE ArrayLength
  <2>1. PICK v : v = Num(Len(Arg(1).items))
    OBVIOUS
  <2>2. v.type = "num" /\ Replaces(1, v) /\ At({"len"})
    BY <1>2, <2>1 DEF ArrayLength, Num, Val
  <2> QED BY <1>1, <2>2
<1>3. CASE MakeIter
  <2>1. PICK v : v = Iter(Arg(1).items)
    OBVIOUS
  <2>2. v.type = "iter" /\ Replaces(1, v) /\ At({"iter"})
    BY <1>3, <2>1 DEF MakeIter, Iter, Val
  <2> QED BY <1>1, <2>2
<1> QED BY <1>2, <1>3

LEMMA LoadTyped ==
  ASSUME NEW d, NEW t, TypingInv(d, t), LoadLocal, StackInv(d)'
  PROVE  TypingInv(d, t)'
<1>1. At({"load"}) /\ Running /\ Inst.op = "load" /\ PreValid
  BY DEF LoadLocal, At
<1>2. /\ pc \in Nat /\ At0(program, pc) = Inst /\ frame \in Nat
      /\ Len(t[pc]) \in Nat /\ top = frame + Len(t[pc])
      /\ \A n \in 1 .. Len(t[pc]) : mem[frame + n].type \in t[pc][n]
      /\ d[pc].low \in Nat /\ Reserved(frame) \in Nat
      /\ top >= frame + Reserved(frame) + d[pc].low
  BY <1>1, TypedFacts
<1>3. Takes(program, pc) = 0 /\ Exit(pc + 1, 1) \in Exits(program, d, pc)
  BY <1>1, <1>2 DEF Takes, Exits, Arith, Compare, Logic
<1>4. Gives(program, d, t, pc, Exit(pc + 1, 1)) = <<t[pc][Inst.a + 1]>>
  BY <1>1, <1>2 DEF Gives, Arith, Compare, Logic
<1>5. Inst.a \in Nat /\ Inst.a < Reserved(frame)
  BY <1>1, StepFacts DEF PreValid, TypingInv
<1>6. PICK a \in Nat : a = Inst.a
  BY <1>5
<1>7. Len(t[pc]) >= Reserved(frame)
  BY <1>2
<1>8. a + 1 \in 1 .. Len(t[pc]) /\ frame + 1 + a = frame + (a + 1)
  BY <1>2, <1>5, <1>6, <1>7, SMTT(30)
<1>9. mem[frame + 1 + a].type \in t[pc][a + 1]
  BY <1>2, <1>8
<1>10. PICK v : v = mem[frame + 1 + a]
  OBVIOUS
<1>11. Replaces(0, v) /\ v.type \in t[pc][Inst.a + 1]
  BY <1>6, <1>9, <1>10 DEF LoadLocal
<1> QED BY <1>1, <1>3, <1>4, <1>11, ReplaceTyped

LEMMA MakeArrayTyped ==
  ASSUME NEW d, NEW t, TypingInv(d, t), MakeArray, StackInv(d)'
  PROVE  TypingInv(d, t)'
<1>1. At({"array"}) /\ Running /\ Inst.op = "array" /\ program' = program
  BY DEF MakeArray, At
<1>2. pc \in Nat /\ At0(program, pc) = Inst /\ StackInv(d)
  BY <1>1, TypedFacts
<1>3. Arg(1) = Pushed(program, pc)
  BY <1>1, <1>2 DEF StackInv
<1>4. Takes(program, pc) = Arg(1).num + 1 /\ Exit(pc + 1, 1) \in Exits(program, d, pc)
  BY <1>1, <1>2, <1>3 DEF Takes, Exits, Arith, Compare, Logic
<1>5. Gives(program, d, t, pc, Exit(pc + 1, 1)) = <<{"array"}>>
  BY <1>1, <1>2 DEF Gives, Arith, Compare, Logic
<1>6. ASSUME NEW v, Replaces(Arg(1).num + 1, v), v.type = "array"
      PROVE  TypingInv(d, t)'
  <2>1. v.type \in {"array"} /\ Inst.op # "frame" /\ Inst.op # "call" /\ Inst.op # "store"
    BY <1>1, <1>6
  <2> QED BY <1>1, <1>4, <1>5, <1>6, <2>1, ReplaceTyped
<1>7. CASE \E s : Replaces(Arg(1).num + 1, Arr(s))
  <2>1. PICK s : Replaces(Arg(1).num + 1, Arr(s))
    BY <1>7
  <2>2. Arr(s).type = "array"
    BY DEF Arr, Val
  <2> QED BY <1>6, <2>1, <2>2
<1>8. CASE Ends("oom", Num(-1005))
  BY <1>1, <1>8, EndsTyped
<1> QED BY <1>7, <1>8 DEF MakeArray

-----------------------------------------------------------------------------
(* Instructions that leave none.                                           *)

LEMMA PopTyped ==
  ASSUME NEW d, NEW t, TypingInv(d, t), Pop, StackInv(d)'
  PROVE  TypingInv(d, t)'
<1>1. PICK op \in {"pop1", "pop2"} : At({op})
  BY DEF Pop
<1>2. Running /\ Inst.op = op /\ Inst.op # "frame" /\ Inst.op # "call" /\ Inst.op # "store"
  BY <1>1 DEF At
<1>3. pc \in Nat /\ At0(program, pc) = Inst
  BY <1>2, TypedFacts
<1>4. PICK e : e = Exit(pc + 1, 0)
  OBVIOUS
<1>5. e \in Exits(program, d, pc) /\ e.to = pc + 1
  BY <1>2, <1>3, <1>4 DEF Exits, Exit, Arith, Compare, Logic
<1>6. Gives(program, d, t, pc, e) = <<>>
  BY <1>2, <1>3 DEF Gives, Arith, Compare, Logic
<1>7. Leaves(mem, top - Takes(program, pc), frame, e.to)
  <2>1. CASE op = "pop1"
    <3>1. Takes(program, pc) = 1
      BY <1>2, <1>3, <2>1 DEF Takes, Arith, Compare, Logic
    <3> QED BY <1>2, <1>5, <2>1, <3>1 DEF Pop, At
  <2>2. CASE op = "pop2"
    <3>1. Takes(program, pc) = 2
      BY <1>2, <1>3, <2>2 DEF Takes, Arith, Compare, Logic
    <3> QED BY <1>2, <1>5, <2>2, <3>1 DEF Pop, At
  <2> QED BY <2>1, <2>2
<1> QED BY <1>1, <1>2, <1>5, <1>6, <1>7, DropStep

LEMMA JumpTyped ==
  ASSUME NEW d, NEW t, TypingInv(d, t), Jump, StackInv(d)'
  PROVE  TypingInv(d, t)'
<1>1. At({"jump"}) /\ Running /\ Inst.op = "jump" /\ Leaves(mem, top, frame, Inst.a)
  BY DEF Jump, At
<1>2. pc \in Nat /\ At0(program, pc) = Inst /\ top \in Int
  BY <1>1, TypedFacts
<1>3. PICK e : e = Exit(Inst.a, 0)
  OBVIOUS
<1>4. e \in Exits(program, d, pc) /\ e.to = Inst.a /\ Takes(program, pc) = 0
  BY <1>1, <1>2, <1>3 DEF Takes, Exits, Exit, Arith, Compare, Logic
<1>5. Gives(program, d, t, pc, e) = <<>>
  BY <1>1, <1>2 DEF Gives, Arith, Compare, Logic
<1>6. Leaves(mem, top - Takes(program, pc), frame, e.to)
  <2>1. top - Takes(program, pc) = top
    BY <1>2, <1>4
  <2> QED BY <1>1, <1>4, <2>1
<1> QED BY <1>1, <1>4, <1>5, <1>6, DropStep

LEMMA JumpIfFalseTyped ==
  ASSUME NEW d, NEW t, TypingInv(d, t), JumpIfFalse, StackInv(d)'
  PROVE  TypingInv(d, t)'
<1>1. At({"if-false"}) /\ Running /\ Inst.op = "if-false"
  BY DEF JumpIfFalse, At
<1>2. pc \in Nat /\ At0(program, pc) = Inst
  BY <1>1, TypedFacts
<1>3. PICK to \in {Inst.a, pc + 1} : Leaves(mem, top - 1, frame, to)
  BY DEF JumpIfFalse
<1>4. PICK e : e = Exit(to, 0)
  OBVIOUS
<1>5. e \in Exits(program, d, pc) /\ e.to = to /\ Takes(program, pc) = 1
  BY <1>1, <1>2, <1>3, <1>4 DEF Takes, Exits, Exit, Arith, Compare, Logic
<1>6. Gives(program, d, t, pc, e) = <<>>
  BY <1>1, <1>2 DEF Gives, Arith, Compare, Logic
<1> QED BY <1>1, <1>3, <1>5, <1>6, DropStep

\* A host function leaves a number, a host action nothing.
LEMMA CallNativeTyped ==
  ASSUME NEW d, NEW t, TypingInv(d, t), CallNative, StackInv(d)'
  PROVE  TypingInv(d, t)'
<1>1. At({"native"}) /\ Running /\ Inst.op = "native"
  BY DEF CallNative, At
<1>2. pc \in Nat /\ At0(program, pc) = Inst
  BY <1>1, TypedFacts
<1>3. Inst.op # "frame" /\ Inst.op # "call" /\ Inst.op # "store"
  BY <1>1
<1>4. Takes(program, pc) = Inst.a /\ Exit(pc + 1, Inst.b) \in Exits(program, d, pc)
  BY <1>1, <1>2 DEF Takes, Exits, Arith, Compare, Logic
<1>5. CASE Inst.b = 0 /\ Leaves(mem, top - Inst.a, frame, pc + 1)
  <2>1. PICK e : e = Exit(pc + 1, 0)
    OBVIOUS
  <2>2. e \in Exits(program, d, pc) /\ e.to = pc + 1
    BY <1>4, <1>5, <2>1 DEF Exit
  <2>3. Gives(program, d, t, pc, e) = <<>>
    BY <1>1, <1>2, <1>5 DEF Gives, Arith, Compare, Logic
  <2> QED BY <1>1, <1>3, <1>4, <1>5, <2>2, <2>3, DropStep
<1>6. ASSUME NEW x, Inst.b = 1, Replaces(Inst.a, Num(x))
      PROVE  TypingInv(d, t)'
  <2>1. Gives(program, d, t, pc, Exit(pc + 1, 1)) = <<{"num"}>>
    BY <1>1, <1>2, <1>6 DEF Gives, Arith, Compare, Logic
  <2>2. Num(x).type \in {"num"}
    BY DEF Num, Val
  <2>3. Exit(pc + 1, 1) \in Exits(program, d, pc)
    BY <1>4, <1>6
  <2> QED BY <1>1, <1>3, <1>4, <1>6, <2>1, <2>2, <2>3, ReplaceTyped
<1> QED BY <1>5, <1>6 DEF CallNative

-----------------------------------------------------------------------------
(* Instructions that leave several.                                        *)

\* An instruction that changes no cell below its operands.
LEMMA SpreadTyped ==
  ASSUME NEW d, NEW t, NEW ops, TypingInv(d, t), At(ops), StackInv(d)',
         Inst.op # "frame", Inst.op # "call", Inst.op # "store",
         NEW e \in Exits(program, d, pc),
         NEW new, new = Gives(program, d, t, pc, e), Len(new) \in Nat,
         NEW m, NEW x \in Int, x = top - Takes(program, pc) + Len(new),
         \A i \in Memory : i <= top - Takes(program, pc) => m[i] = mem[i],
         \A i \in 1 .. Len(new) : m[x - Len(new) + i].type \in new[i],
         Leaves(m, x, frame, e.to)
  PROVE  TypingInv(d, t)'
<1>1. Running
  BY DEF At
<1>2. /\ pc \in Nat /\ At0(program, pc) = Inst /\ StackInv(d) /\ TypeOK
      /\ frame \in Nat /\ top \in Int
      /\ Len(t[pc]) \in Nat /\ top = frame + Len(t[pc])
      /\ \A n \in 1 .. Len(t[pc]) : mem[frame + n].type \in t[pc][n]
      /\ d[pc].low \in Nat /\ Reserved(frame) \in Nat
      /\ Takes(program, pc) <= d[pc].low /\ top >= frame + Reserved(frame) + d[pc].low
  BY <1>1, TypedFacts
<1>3. PICK k \in Nat : k = Takes(program, pc)
  BY <1>1, <1>2, ExitCounts
<1>4. PICK n \in Nat : n = Len(t[pc])
  BY <1>2
<1>5. k <= n /\ top = frame + n
  <2>1. Inst.op # "frame"
    OBVIOUS
  <2> QED BY <1>1, <1>2, <1>3, <1>4, <2>1, BelowOperands
<1>6. \A i \in Nat : i <= top - k => m[i] = mem[i]
  <2>1. \A i \in Nat : i <= top => i \in Memory
    BY <1>2, TypesNow, LimitsAssumption DEF Memory
  <2>2. \A i \in Nat : i <= top - k => i <= top
    BY <1>2
  <2> QED BY <1>3, <2>1, <2>2
<1>7. \A i \in 0 .. frame : m[i] = mem[i]
  <2>1. \A i \in 0 .. frame : i \in Nat /\ i <= top - k
    BY <1>2, <1>5
  <2> QED BY <1>6, <2>1
<1>8. ASSUME NEW i \in 1 .. (Len(t[pc]) - Takes(program, pc))
      PROVE  m[frame + i].type \in Stays(program, t, pc, i)
  <2>1. i \in 1 .. (n - k)
    BY <1>3, <1>4
  <2>2. i \in 1 .. n /\ frame + i \in Nat /\ frame + i <= top - k
    <3>1. frame \in Nat
      BY <1>2
    <3>2. frame + i <= frame + n - k /\ i \in 1 .. n /\ frame + i \in Nat
      BY <1>5, <2>1, <3>1
    <3>3. frame + n - k = top - k
      BY <1>5, <3>1
    <3> QED BY <3>2, <3>3
  <2>3. m[frame + i].type \in t[pc][i]
    BY <1>2, <1>4, <1>6, <2>2
  <2> QED BY <1>2, <2>3 DEF Stays
<1> QED BY <1>7, <1>8, WorkStep

\* Two cells at once.
LEMMA TwoSet ==
  ASSUME NEW m \in [Memory -> Value], NEW i \in Memory, NEW j \in Memory, i # j, NEW u, NEW v
  PROVE  /\ [m EXCEPT ![i] = u, ![j] = v][i] = u
         /\ [m EXCEPT ![i] = u, ![j] = v][j] = v
         /\ \A h \in Memory : h # i /\ h # j => [m EXCEPT ![i] = u, ![j] = v][h] = m[h]
OBVIOUS

LEMMA DuplicateTyped ==
  ASSUME NEW d, NEW t, TypingInv(d, t), Duplicate, StackInv(d)'
  PROVE  TypingInv(d, t)'
<1>1. PICK op \in {"dup1", "dup2"} : At({op})
  BY DEF Duplicate
<1>2. Running /\ Inst.op = op /\ Inst.op # "frame" /\ Inst.op # "call" /\ Inst.op # "store"
  BY <1>1 DEF At
<1>3. /\ pc \in Nat /\ At0(program, pc) = Inst /\ top \in Int /\ mem \in [Memory -> Value]
      /\ frame \in Nat /\ d[pc].low \in Nat /\ Takes(program, pc) <= d[pc].low
      /\ Reserved(frame) \in Nat /\ top >= frame + Reserved(frame) + d[pc].low
  BY <1>2, TypedFacts
<1>4. \A k \in Nat \ {0} : k <= d[pc].low => Arg(k).type \in FromTop(t[pc], k)
  BY <1>2, OperandTyped
<1>5. \A i \in Memory : i \in Int
  BY LimitsAssumption DEF Memory
<1>6. CASE op = "dup1"
  <2>1. PICK e : e = Exit(pc + 1, 2)
    OBVIOUS
  <2>2. Takes(program, pc) = 1 /\ e \in Exits(program, d, pc) /\ e.to = pc + 1
    BY <1>2, <1>3, <1>6, <2>1 DEF Takes, Exits, Exit, Arith, Compare, Logic
  <2>3. PICK new : new = <<FromTop(t[pc], 1), FromTop(t[pc], 1)>>
    OBVIOUS
  <2>4. new = Gives(program, d, t, pc, e) /\ Len(new) = 2 /\ Len(new) \in Nat
    BY <1>2, <1>3, <1>6, <2>3 DEF Gives, Arith, Compare, Logic
  <2>5. PICK x \in Int : x = top + 1
    BY <1>3
  <2>6. PICK m : m = Set(x, Arg(1))
    OBVIOUS
  <2>7. Leaves(m, x, frame, e.to)
    <3>1. top - 0 + 1 = x
      BY <1>3, <2>5
    <3>2. Replaces(0, Arg(1))
      BY <1>2, <1>6 DEF Duplicate, At
    <3> QED BY <2>2, <2>6, <3>1, <3>2 DEF Replaces
  <2>8. x \in Nat /\ x \in Memory /\ top \in Memory /\ top # x
    <3>1. top' = x
      BY <2>7 DEF Leaves
    <3>2. 1 <= d[pc].low
      BY <1>3, <2>2
    <3>3. x \in Nat /\ top \in Nat /\ top < x
      BY <1>3, <2>5, <3>2
    <3> QED BY <3>1, <3>3, Reached
  <2>9. m[x] = Arg(1) /\ \A i \in Memory : i # x => m[i] = mem[i]
    BY <1>3, <2>6, <2>8 DEF Set
  <2>10. Arg(1).type \in FromTop(t[pc], 1) /\ Arg(1) = mem[top]
    <3>1. 1 <= d[pc].low /\ top - 1 + 1 = top
      BY <1>3, <2>2
    <3> QED BY <1>4, <3>1 DEF Arg
  <2>11. ASSUME NEW i \in 1 .. Len(new)
         PROVE  m[x - Len(new) + i].type \in new[i]
    <3>1. (i = 1 /\ x - Len(new) + i = top) \/ (i = 2 /\ x - Len(new) + i = x)
      BY <1>3, <2>4, <2>5
    <3> QED BY <2>3, <2>8, <2>9, <2>10, <3>1
  <2>12. x = top - Takes(program, pc) + Len(new)
    BY <1>3, <2>2, <2>4, <2>5
  <2>13. \A i \in Memory : i <= top - Takes(program, pc) => m[i] = mem[i]
    BY <1>3, <1>5, <2>2, <2>5, <2>9
  <2> QED BY <1>1, <1>2, <2>2, <2>4, <2>7, <2>11, <2>12, <2>13, SpreadTyped
<1>7. CASE op = "dup2"
  <2>1. PICK e : e = Exit(pc + 1, 4)
    OBVIOUS
  <2>2. Takes(program, pc) = 2 /\ e \in Exits(program, d, pc) /\ e.to = pc + 1
    BY <1>2, <1>3, <1>7, <2>1 DEF Takes, Exits, Exit, Arith, Compare, Logic
  <2>3. PICK new : new = <<FromTop(t[pc], 2), FromTop(t[pc], 1), FromTop(t[pc], 2), FromTop(t[pc], 1)>>
    OBVIOUS
  <2>4. new = Gives(program, d, t, pc, e) /\ Len(new) = 4 /\ Len(new) \in Nat
    BY <1>2, <1>3, <1>7, <2>3 DEF Gives, Arith, Compare, Logic
  <2>5. PICK x \in Int : x = top + 2
    BY <1>3
  <2>6. PICK m : m = [mem EXCEPT ![top + 1] = Arg(2), ![top + 2] = Arg(1)]
    OBVIOUS
  <2>7. Leaves(m, x, frame, e.to)
    BY <1>2, <1>7, <2>2, <2>5, <2>6 DEF Duplicate, At
  <2>8. top - 1 \in Memory /\ top \in Memory /\ top + 1 \in Memory /\ top + 2 \in Memory
    <3>1. top' = x
      BY <2>7 DEF Leaves
    <3>2. 2 <= d[pc].low
      BY <1>3, <2>2
    <3>3. /\ top - 1 \in Nat /\ top \in Nat /\ top + 1 \in Nat /\ top + 2 \in Nat
          /\ top - 1 <= x /\ top <= x /\ top + 1 <= x /\ top + 2 <= x
      BY <1>3, <2>5, <3>2
    <3> QED BY <3>1, <3>3, Reached
  <2>9. /\ m[top + 1] = Arg(2) /\ m[top + 2] = Arg(1)
        /\ \A i \in Memory : i # top + 1 /\ i # top + 2 => m[i] = mem[i]
    BY <1>3, <2>6, <2>8, TwoSet
  <2>10. /\ Arg(1).type \in FromTop(t[pc], 1) /\ Arg(1) = mem[top]
         /\ Arg(2).type \in FromTop(t[pc], 2) /\ Arg(2) = mem[top - 1]
    <3>1. 1 <= d[pc].low /\ 2 <= d[pc].low /\ top - 1 + 1 = top /\ top - 2 + 1 = top - 1
      BY <1>3, <2>2
    <3> QED BY <1>4, <3>1 DEF Arg
  <2>11. m[top - 1] = Arg(2) /\ m[top] = Arg(1)
    <3>1. top - 1 # top + 1 /\ top - 1 # top + 2 /\ top # top + 1 /\ top # top + 2
      BY <1>3
    <3> QED BY <2>8, <2>9, <2>10, <3>1
  <2>12. ASSUME NEW i \in 1 .. Len(new)
         PROVE  m[x - Len(new) + i].type \in new[i]
    <3>1. \/ i = 1 /\ x - Len(new) + i = top - 1
          \/ i = 2 /\ x - Len(new) + i = top
          \/ i = 3 /\ x - Len(new) + i = top + 1
          \/ i = 4 /\ x - Len(new) + i = top + 2
      <4>1. i \in 1 .. 4 /\ x - Len(new) = top - 2
        BY <1>3, <2>4, <2>5
      <4>2. i = 1 \/ i = 2 \/ i = 3 \/ i = 4
        BY <4>1
      <4>3. top - 2 + 1 = top - 1 /\ top - 2 + 2 = top /\ top - 2 + 3 = top + 1 /\ top - 2 + 4 = top + 2
        BY <1>3
      <4> QED BY <4>1, <4>2, <4>3
    <3> QED BY <2>3, <2>9, <2>10, <2>11, <3>1
  <2>13. x = top - Takes(program, pc) + Len(new)
    BY <1>3, <2>2, <2>4, <2>5
  <2>14. \A i \in Memory : i <= top - Takes(program, pc) => m[i] = mem[i]
    BY <1>3, <1>5, <2>2, <2>9
  <2> QED BY <1>1, <1>2, <2>2, <2>4, <2>7, <2>12, <2>13, <2>14, SpreadTyped, ZenonT(40)
<1> QED BY <1>6, <1>7

LEMMA RotateTyped ==
  ASSUME NEW d, NEW t, TypingInv(d, t), Rotate, StackInv(d)'
  PROVE  TypingInv(d, t)'
<1>1. At({"rot2"}) /\ Running /\ Inst.op = "rot2"
  BY DEF Rotate, At
<1>2. Inst.op # "frame" /\ Inst.op # "call" /\ Inst.op # "store"
  BY <1>1
<1>3. /\ pc \in Nat /\ At0(program, pc) = Inst /\ top \in Int /\ mem \in [Memory -> Value]
      /\ frame \in Nat /\ d[pc].low \in Nat /\ Takes(program, pc) <= d[pc].low
      /\ Reserved(frame) \in Nat /\ top >= frame + Reserved(frame) + d[pc].low
  BY <1>1, TypedFacts
<1>4. PICK e : e = Exit(pc + 1, 2)
  OBVIOUS
<1>5. Takes(program, pc) = 2 /\ e \in Exits(program, d, pc) /\ e.to = pc + 1
  BY <1>1, <1>3, <1>4 DEF Takes, Exits, Exit, Arith, Compare, Logic
<1>6. PICK new : new = <<FromTop(t[pc], 1), FromTop(t[pc], 2)>>
  OBVIOUS
<1>7. new = Gives(program, d, t, pc, e) /\ Len(new) = 2 /\ Len(new) \in Nat
  BY <1>1, <1>3, <1>6 DEF Gives, Arith, Compare, Logic
<1>8. PICK m : m = [mem EXCEPT ![top - 1] = Arg(1), ![top] = Arg(2)]
  OBVIOUS
<1>9. Leaves(m, top, frame, e.to)
  BY <1>5, <1>8 DEF Rotate
<1>10. 1 <= d[pc].low /\ 2 <= d[pc].low
  BY <1>3, <1>5
<1>11. top - 1 \in Memory /\ top \in Memory /\ top - 1 # top
  <2>1. top' = top
    BY <1>9 DEF Leaves
  <2>2. top - 1 \in Nat /\ top \in Nat /\ top - 1 <= top
    BY <1>3, <1>10
  <2> QED BY <2>1, <2>2, Reached
<1>12. /\ m[top - 1] = Arg(1) /\ m[top] = Arg(2)
       /\ \A i \in Memory : i # top - 1 /\ i # top => m[i] = mem[i]
  BY <1>3, <1>8, <1>11, TwoSet
<1>13. Arg(1).type \in FromTop(t[pc], 1) /\ Arg(2).type \in FromTop(t[pc], 2)
  BY <1>1, <1>2, <1>10, OperandTyped
<1>14. ASSUME NEW i \in 1 .. Len(new)
       PROVE  m[top - Len(new) + i].type \in new[i]
  <2>1. (i = 1 /\ top - Len(new) + i = top - 1) \/ (i = 2 /\ top - Len(new) + i = top)
    BY <1>3, <1>7
  <2> QED BY <1>6, <1>12, <1>13, <2>1
<1>15. top = top - Takes(program, pc) + Len(new)
  BY <1>3, <1>5, <1>7
<1>16. \A i \in Memory : i <= top - Takes(program, pc) => m[i] = mem[i]
  <2>1. \A i \in Memory : i \in Int
    BY LimitsAssumption DEF Memory
  <2> QED BY <1>3, <1>5, <1>12, <2>1
<1> QED BY <1>1, <1>2, <1>3, <1>5, <1>7, <1>9, <1>14, <1>15, <1>16, SpreadTyped

\* A round of a loop begins or the loop ends: what is on top is an iterator.
LEMMA IterNextTyped ==
  ASSUME NEW d, NEW t, TypingInv(d, t), IterNext, StackInv(d)'
  PROVE  TypingInv(d, t)'
<1>1. At({"iter-next"}) /\ Running /\ Inst.op = "iter-next"
  BY DEF IterNext, At
<1>2. Inst.op # "frame" /\ Inst.op # "call" /\ Inst.op # "store"
  BY <1>1
<1>3. /\ pc \in Nat /\ At0(program, pc) = Inst /\ top \in Int /\ mem \in [Memory -> Value]
      /\ frame \in Nat /\ d[pc].low \in Nat /\ Takes(program, pc) <= d[pc].low
      /\ Reserved(frame) \in Nat /\ top >= frame + Reserved(frame) + d[pc].low
  BY <1>1, TypedFacts
<1>4. Takes(program, pc) = 1
  BY <1>1, <1>3 DEF Takes, Arith, Compare, Logic
<1>5. Arg(1).type = "iter"
  BY <1>1, OperandsHold DEF OperandsTyped, HasTypes
<1>6. CASE Leaves(mem, top - 1, frame, Inst.a)
  <2>1. PICK e : e = Exit(Inst.a, 0)
    OBVIOUS
  <2>2. e \in Exits(program, d, pc) /\ e.to = Inst.a /\ e.gives = 0
    BY <1>1, <1>3, <2>1 DEF Exits, Exit, Arith, Compare, Logic
  <2>3. Gives(program, d, t, pc, e) = <<>>
    BY <1>1, <1>3, <2>2 DEF Gives, Arith, Compare, Logic
  <2> QED BY <1>1, <1>2, <1>4, <1>6, <2>2, <2>3, DropStep
<1>7. CASE Leaves([mem EXCEPT ![top] = Iter(Tail(Arg(1).items)),
                              ![top + 1] = Num(Head(Arg(1).items))],
                  top + 1, frame, pc + 1)
  <2>1. PICK e : e = Exit(pc + 1, 2)
    OBVIOUS
  <2>2. e \in Exits(program, d, pc) /\ e.to = pc + 1 /\ e.gives = 2
    BY <1>1, <1>3, <2>1 DEF Exits, Exit, Arith, Compare, Logic
  <2>3. PICK new : new = <<{"iter"}, {"num"}>>
    OBVIOUS
  <2>4. new = Gives(program, d, t, pc, e) /\ Len(new) = 2 /\ Len(new) \in Nat
    BY <1>1, <1>3, <2>2, <2>3 DEF Gives, Arith, Compare, Logic
  <2>5. PICK u : u = Iter(Tail(Arg(1).items))
    OBVIOUS
  <2>6. PICK v : v = Num(Head(Arg(1).items))
    OBVIOUS
  <2>7. u.type = "iter" /\ v.type = "num"
    BY <2>5, <2>6 DEF Iter, Num, Val
  <2>8. PICK m : m = [mem EXCEPT ![top] = u, ![top + 1] = v]
    OBVIOUS
  <2>9. PICK x \in Int : x = top + 1
    BY <1>3
  <2>10. Leaves(m, x, frame, e.to)
    BY <1>7, <2>2, <2>5, <2>6, <2>8, <2>9
  <2>11. top \in Memory /\ top + 1 \in Memory /\ top # top + 1
    <3>1. top' = x
      BY <2>10 DEF Leaves
    <3>2. 1 <= d[pc].low
      BY <1>3, <1>4
    <3>3. top \in Nat /\ top + 1 \in Nat /\ top <= x /\ top + 1 <= x
      BY <1>3, <2>9, <3>2
    <3> QED BY <3>1, <3>3, Reached
  <2>12. /\ m[top] = u /\ m[top + 1] = v
         /\ \A i \in Memory : i # top /\ i # top + 1 => m[i] = mem[i]
    BY <1>3, <2>8, <2>11, TwoSet
  <2>13. ASSUME NEW i \in 1 .. Len(new)
         PROVE  m[x - Len(new) + i].type \in new[i]
    <3>1. (i = 1 /\ x - Len(new) + i = top) \/ (i = 2 /\ x - Len(new) + i = top + 1)
      <4>1. i \in 1 .. 2 /\ x - Len(new) = top - 1
        BY <1>3, <2>4, <2>9
      <4>2. \A h \in 1 .. 2 : h = 1 \/ h = 2
        OBVIOUS
      <4> QED BY <1>3, <4>1, <4>2
    <3> QED BY <2>3, <2>7, <2>12, <3>1
  <2>14. x = top - Takes(program, pc) + Len(new)
    BY <1>3, <1>4, <2>4, <2>9
  <2>15. \A i \in Memory : i <= top - Takes(program, pc) => m[i] = mem[i]
    <3>1. \A i \in Memory : i \in Int
      BY LimitsAssumption DEF Memory
    <3> QED BY <1>3, <1>4, <2>12, <3>1
  <2> QED BY <1>1, <1>2, <2>2, <2>4, <2>10, <2>13, <2>14, <2>15, SpreadTyped, ZenonT(40)
<1> QED BY <1>5, <1>6, <1>7 DEF IterNext

-----------------------------------------------------------------------------
(* Variables.                                                              *)

LEMMA StoreTyped ==
  ASSUME NEW d, NEW t, TypingInv(d, t), StoreLocal, StackInv(d)'
  PROVE  TypingInv(d, t)'
<1>1. At({"store"}) /\ Running /\ Inst.op = "store" /\ PreValid
  BY DEF StoreLocal, At
<1>2. /\ pc \in Nat /\ At0(program, pc) = Inst /\ StackInv(d) /\ TypeOK
      /\ frame \in Nat /\ top \in Int /\ mem \in [Memory -> Value]
      /\ Len(t[pc]) \in Nat /\ top = frame + Len(t[pc])
      /\ \A n \in 1 .. Len(t[pc]) : mem[frame + n].type \in t[pc][n]
      /\ d[pc].low \in Nat /\ Reserved(frame) \in Nat
      /\ Takes(program, pc) <= d[pc].low /\ top >= frame + Reserved(frame) + d[pc].low
  BY <1>1, TypedFacts
<1>3. PICK e : e = Exit(pc + 1, 0)
  OBVIOUS
<1>4. Takes(program, pc) = 1 /\ e \in Exits(program, d, pc) /\ e.to = pc + 1
  BY <1>1, <1>2, <1>3 DEF Takes, Exits, Exit, Arith, Compare, Logic
<1>5. PICK new : new = Gives(program, d, t, pc, e)
  OBVIOUS
<1>6. new = <<>> /\ Len(new) = 0 /\ Len(new) \in Nat
  BY <1>1, <1>2, <1>5 DEF Gives, Arith, Compare, Logic
<1>7. Inst.a \in Nat /\ Inst.a < Reserved(frame)
  BY <1>1, StepFacts DEF PreValid, TypingInv
<1>8. PICK a \in Nat : a = Inst.a
  BY <1>7
<1>9. PICK n \in Nat : n = Len(t[pc])
  BY <1>2
<1>10. a + 1 <= n - 1 /\ top = frame + n /\ 1 <= d[pc].low
  <2>1. 1 <= d[pc].low
    BY <1>2, <1>4
  <2>2. top = frame + n /\ n >= Reserved(frame) + 1
    BY <1>2, <1>9, <2>1
  <2> QED BY <1>2, <1>7, <1>8, <2>1, <2>2
<1>11. PICK m : m = Set(frame + 1 + a, Arg(1))
  OBVIOUS
<1>12. PICK x \in Int : x = top - 1
  <2>1. top - 1 \in Int
    BY <1>2
  <2> QED BY <2>1
<1>13. Leaves(m, x, frame, e.to) /\ x = top - Takes(program, pc) + Len(new)
  BY <1>2, <1>4, <1>6, <1>8, <1>11, <1>12 DEF StoreLocal
<1>14. \A i \in Nat : i <= top => i \in Memory
  BY <1>2, TypesNow, LimitsAssumption DEF Memory
<1>15. frame + 1 + a \in Nat /\ frame + 1 + a <= top
  BY <1>2, <1>10
<1>16. /\ m[frame + 1 + a] = Arg(1)
       /\ \A i \in Nat : i <= top /\ i # frame + 1 + a => m[i] = mem[i]
  BY <1>2, <1>11, <1>14, <1>15 DEF Set
<1>17. \A i \in 0 .. frame : m[i] = mem[i]
  <2>1. \A i \in 0 .. frame : i \in Nat /\ i <= top /\ i # frame + 1 + a
    BY <1>2, <1>10
  <2> QED BY <1>16, <2>1
<1>18. Arg(1).type \in FromTop(t[pc], 1)
  <2>1. Inst.op # "frame"
    BY <1>1
  <2> QED BY <1>1, <1>10, <2>1, OperandTyped
<1>19. ASSUME NEW i \in 1 .. (Len(t[pc]) - Takes(program, pc))
       PROVE  m[frame + i].type \in Stays(program, t, pc, i)
  <2>1. i \in 1 .. (n - 1)
    BY <1>4, <1>9
  <2>2. i \in 1 .. n /\ frame + i \in Nat /\ frame + i <= top
    BY <1>2, <1>10, <2>1
  <2>3. CASE i = a + 1
    <3>1. frame + i = frame + 1 + a
      BY <1>2, <2>3
    <3> QED BY <1>1, <1>2, <1>8, <1>16, <1>18, <2>3, <3>1 DEF Stays
  <2>4. CASE i # a + 1
    <3>1. frame + i # frame + 1 + a
      BY <1>2, <2>1, <2>4
    <3>2. m[frame + i].type \in t[pc][i]
      BY <1>2, <1>9, <1>16, <2>2, <3>1
    <3> QED BY <1>1, <1>2, <1>8, <2>4, <3>2 DEF Stays
  <2> QED BY <2>3, <2>4
<1>20. \A i \in 1 .. Len(new) : m[x - Len(new) + i].type \in new[i]
  BY <1>6
<1>21. Inst.op # "frame" /\ Inst.op # "call"
  BY <1>1
<1> QED BY <1>1, <1>4, <1>5, <1>6, <1>13, <1>17, <1>19, <1>20, <1>21, WorkStep

-----------------------------------------------------------------------------
(* Ends.                                                                   *)

\* What runs out, traps or is told to stop has no operand of the wrong type, and
\* nothing is refused.
LEMMA EndsWell ==
  ASSUME NEW d, NEW t, TypingInv(d, t), Trap \/ Stop \/ OutOfCycles \/ Refuse, StackInv(d)'
  PROVE  TypingInv(d, t)'
<1>1. CASE Refuse
  <2>1. OperandsTyped
    BY <1>1, OperandsHold DEF Refuse
  <2> QED BY <1>1, <2>1 DEF Refuse, OperandsTyped
<1>2. CASE Trap
  BY <1>2, EndsTyped DEF Trap, At
<1>3. CASE OutOfCycles
  BY <1>3, EndsTyped DEF OutOfCycles
<1>4. CASE Stop
  <2>1. PICK op \in {"halt", "exit", "print"} : \E val : Ends(op, val)
    BY <1>4 DEF Stop, At
  <2>2. program' = program
    BY <1>4 DEF Stop, At
  <2> QED BY <2>1, <2>2, EndsTyped
<1> QED BY <1>1, <1>2, <1>3, <1>4

-----------------------------------------------------------------------------
(* Calls.                                                                  *)

\* What is on the stack when a function is called is what its first instruction
\* expects, and what is below is what the caller expects, but for the result.
LEMMA CallTyped ==
  ASSUME NEW d, NEW t, TypingInv(d, t), Call, StackInv(d)'
  PROVE  TypingInv(d, t)'
<1>1. /\ At({"call"}) /\ Running /\ Inst.op = "call" /\ Inst.op \in Checked
      /\ program' = program /\ lastOp' = "call"
      /\ Leaves(Set(top + 1, Num(pc + 1)), top + 1, frame, Inst.a)
  BY DEF Call, At, Checked
<1>2. Inst.op # "frame"
  BY <1>1
<1>3. /\ pc \in DOMAIN d /\ pc \in Nat /\ At0(program, pc) = Inst /\ StackInv(d) /\ TypeOK
      /\ frame \in Nat /\ top \in Int /\ mem \in [Memory -> Value]
      /\ Len(t[pc]) \in Nat /\ top = frame + Len(t[pc])
      /\ \A n \in 1 .. Len(t[pc]) : mem[frame + n].type \in t[pc][n]
      /\ Expects(program, d, t, pc)
      /\ CallersTyped(program, d, t, mem, frame)
      /\ d[pc].low \in Nat /\ Reserved(frame) \in Nat
      /\ Takes(program, pc) <= d[pc].low /\ top >= frame + Reserved(frame) + d[pc].low
      /\ Disciplined(program, d) /\ Typed(program, d, t)
  BY <1>1, <1>2, TypedFacts
<1>4. PICK f : f = Inst.a
  OBVIOUS
<1>5. f \in DOMAIN d /\ At0(program, f).op = "frame" /\ d[f].result \in {0, 1}
      /\ At0(program, f).a \in Nat
  <2>1. f \in DOMAIN d /\ At0(program, f).op = "frame"
    BY <1>1, <1>2, <1>4, StepFacts, <1>3 DEF Stands
  <2> QED BY <1>3, <2>1, NotesTyped
<1>6. PICK a \in Nat : a = At0(program, f).a
  BY <1>5
<1>7. PICK n \in Nat : n = Len(t[pc])
  BY <1>3
<1>8. Takes(program, pc) = a /\ a <= n /\ top = frame + n
  <2>1. Takes(program, pc) = a
    BY <1>1, <1>3, <1>4, <1>6 DEF Takes, Arith, Compare, Logic
  <2>2. a <= d[pc].low
    BY <1>3, <2>1
  <2> QED BY <1>3, <1>7, <2>1, <2>2
<1>9. PICK e : e = Exit(pc + 1, d[f].result)
  OBVIOUS
<1>10. e \in Exits(program, d, pc) /\ e.to = pc + 1
  BY <1>1, <1>3, <1>4, <1>9 DEF Exits, Exit, Arith, Compare, Logic
<1>11. Allows(program, d, t, pc, e)
  BY <1>1, <1>2, <1>10, TypedFacts
<1>12. Gives(program, d, t, pc, e) =
         IF d[f].result = 0 THEN <<>> ELSE <<LeftBy(program, d, t, f)>>
  BY <1>1, <1>3, <1>4 DEF Gives, Arith, Compare, Logic
<1>13. Len(Gives(program, d, t, pc, e)) = d[f].result
  BY <1>5, <1>12
<1>14. /\ Len(t[pc + 1]) = n - a + d[f].result
       /\ \A i \in 1 .. (n - a) : t[pc][i] \subseteq t[pc + 1][i]
  BY <1>1, <1>3, <1>7, <1>8, <1>10, <1>11, <1>13 DEF Allows, Stays
<1>15. PICK m : m = Set(top + 1, Num(pc + 1))
  OBVIOUS
<1>16. /\ mem' = m /\ top' = top + 1 /\ frame' = frame /\ pc' = f
       /\ outcome' = IF ~StackValid(m, top + 1, frame)
                     THEN [why |-> "invalid", val |-> Num(-9999)] ELSE outcome
  BY <1>1, <1>4, <1>15 DEF Leaves
<1>17. \A i \in Nat : i <= top + 1 => i \in Memory
  BY <1>16, Reached
<1>18. /\ m[top + 1] = Num(pc + 1)
       /\ \A i \in Nat : i <= top => m[i] = mem[i]
  <2>1. top + 1 \in Nat
    BY <1>3, <1>8
  <2>2. top + 1 \in Memory
    BY <1>17, <2>1, <1>3
  <2>3. \A i \in Nat : i <= top => i \in Memory /\ i # top + 1
    BY <1>3, <1>17
  <2> QED BY <1>3, <1>15, <2>2, <2>3 DEF Set
<1>19. Inst' = At0(program, f)
  BY <1>1, <1>16 DEF Inst, At0
<1>20. \A i \in 0 .. frame : m[i] = mem[i]
  <2>1. \A i \in 0 .. frame : i \in Nat /\ i <= top
    BY <1>3, <1>8
  <2> QED BY <1>18, <2>1
<1>21. CallersTyped(program, d, t, m, frame)
  BY <1>3, <1>20, CallersKept
<1>22. PICK i \in Int : i = top + 1 - a
  <2>1. top + 1 - a \in Int
    BY <1>3
  <2> QED BY <2>1
<1>23. top' - Inst'.a = i
  <2>1. Inst'.a = a /\ top' = top + 1
    BY <1>6, <1>16, <1>19
  <2>2. top' \in Int /\ top' - a = i
    BY <1>3, <1>22, <2>1
  <2> QED BY <2>1, <2>2
<1>24. \A h \in 1 .. a : m[i + h - 1].type \in t[f][h]
  <2>1. Len(t[f]) = a /\ \A h \in 1 .. a : FromTop(t[pc], h) \subseteq FromTop(t[f], h)
    BY <1>1, <1>3, <1>4, <1>8 DEF Expects
  <2> SUFFICES ASSUME NEW h \in 1 .. a
               PROVE  m[i + h - 1].type \in t[f][h]
    OBVIOUS
  <2>2. PICK k \in 1 .. a : k = a - h + 1
    OBVIOUS
  <2>3. i + h - 1 = frame + (n - k + 1) /\ n - k + 1 \in 1 .. n /\ a - k + 1 = h
    BY <1>3, <1>8, <1>22, <2>2
  <2>4. frame + (n - k + 1) \in Nat /\ frame + (n - k + 1) <= top
    BY <1>3, <1>8, <2>3
  <2>5. m[frame + (n - k + 1)].type \in t[pc][n - k + 1]
    BY <1>3, <1>7, <1>18, <2>3, <2>4
  <2>6. m[i + h - 1].type \in FromTop(t[pc], k)
    BY <1>7, <2>3, <2>5 DEF FromTop
  <2>7. FromTop(t[f], k) = t[f][h]
    BY <2>1, <2>3 DEF FromTop
  <2> QED BY <2>1, <2>6, <2>7
<1>25. Holds(program, d, t, m, frame, i, pc + 1)
  <2>1. program.inst[pc + 1].a = f
    BY <1>4 DEF Inst
  <2>2. i - 1 + d[f].result = frame + Len(t[pc + 1])
    <3>1. PICK r \in Nat : r = d[f].result
      BY <1>5
    <3>2. Len(t[pc + 1]) = n - a + r
      BY <1>14, <3>1
    <3>3. i - 1 + r = frame + (n - a + r)
      BY <1>3, <1>8, <1>22
    <3> QED BY <3>1, <3>2, <3>3
  <2>3. ASSUME NEW h \in (frame + 1) .. (i - 1)
        PROVE  m[h].type \in t[pc + 1][h - frame]
    <3>1. PICK g \in Int : g = h - frame
      BY <1>3
    <3>2. g \in 1 .. (n - a) /\ g \in 1 .. n /\ h = frame + g /\ h \in Nat /\ h <= top
      BY <1>3, <1>8, <1>22, <2>3, <3>1
    <3>3. mem[frame + g].type \in t[pc][g] /\ m[h] = mem[h]
      BY <1>3, <1>7, <1>18, <3>2
    <3> QED BY <1>14, <3>1, <3>2, <3>3
  <2> QED BY <2>1, <2>2, <2>3 DEF Holds
<1>26. Arg(1)' = m[top + 1] /\ Num(pc + 1).num = pc + 1
  <2>1. top + 1 - 1 + 1 = top + 1
    BY <1>3
  <2> QED BY <1>16, <2>1 DEF Arg, Num, Val
<1>27. EnteringTyped(d, t)'
  BY <1>1, <1>6, <1>16, <1>18, <1>19, <1>23, <1>24, <1>25, <1>26 DEF EnteringTyped
<1>28. outcome'.why = "invalid" => top' >= StackSize
  <2>1. mem[frame].items[1] \in Nat /\ mem[frame].items[2] \in Nat
    BY <1>1, <1>2, <1>3, FrameMade
  <2>2. PICK x \in Int : x = top + 1
    BY <1>3
  <2>3. Reserved(frame) = mem[frame].items[1] + mem[frame].items[2]
    BY DEF Reserved
  <2>4. x >= frame + Reserved(frame)
    BY <1>3, <2>2
  <2>5. x >= frame + mem[frame].items[1] + mem[frame].items[2] /\ x >= frame
    <3>1. x \in Int /\ frame \in Nat
      BY <1>3
    <3> QED BY ONLY <2>1, <2>3, <2>4, <3>1, Above
  <2>6. m[frame] = mem[frame]
    BY <1>3, <1>20
  <2>7. ~StackValid(m, x, frame) => x >= StackSize
    BY <1>3, <2>5, <2>6, OnlyOverflow
  <2> QED BY <1>1, <1>16, <2>2, <2>7 DEF Running
<1>29. outcome'.why # "misread" /\ outcome'.why # "return"
  BY <1>1, <1>16 DEF Running
<1>30. Typed(program, d, t) /\ CountsFit(program)
  BY DEF TypingInv
<1> QED BY <1>1, <1>5, <1>16, <1>19, <1>21, <1>27, <1>28, <1>29, <1>30 DEF TypingInv

\* What OP_MAKE_FRAME makes of the cells from start on.
Reframed(n, m, start, ret, a, b) ==
  /\ n[start] = FrameVal(ret, a, b)
  /\ \A h \in 1 .. a : n[start + h] = m[start + h - 1]
  /\ \A h \in 1 .. b : n[start + (a + h)] = None
  /\ \A i \in 0 .. (start - 1) : n[i] = m[i]

LEMMA FramedCells ==
  ASSUME NEW m \in [Memory -> Value], NEW start \in Nat, NEW ret, NEW a \in Nat, NEW b \in Nat,
         start + a + b \in Memory
  PROVE  Reframed(Framed(m, start, ret, a, b), m, start, ret, a, b)
<1>1. \A i \in Nat : i <= start + a + b => i \in Memory
  BY LimitsAssumption DEF Memory
<1>2. start \in Memory
  BY <1>1
<1>3. Framed(m, start, ret, a, b)[start] = FrameVal(ret, a, b)
  BY <1>2 DEF Framed
<1>4. ASSUME NEW n \in 1 .. a
      PROVE  Framed(m, start, ret, a, b)[start + n] = m[start + n - 1]
  <2>1. /\ start + n \in Nat /\ start + n <= start + a + b
        /\ start + n # start /\ start + n \in (start + 1) .. (start + a)
    OBVIOUS
  <2> QED BY <1>1, <2>1 DEF Framed
<1>5. ASSUME NEW n \in 1 .. b
      PROVE  Framed(m, start, ret, a, b)[start + (a + n)] = None
  <2>1. PICK i \in Nat : i = start + (a + n)
    OBVIOUS
  <2>2. /\ i <= start + a + b /\ i # start /\ i \notin (start + 1) .. (start + a)
        /\ i \in (start + a + 1) .. (start + a + b)
    BY <2>1
  <2>3. Framed(m, start, ret, a, b)[i] = None
    BY <1>1, <2>2 DEF Framed
  <2> QED BY <2>1, <2>3
<1>6. ASSUME NEW i \in 0 .. (start - 1)
      PROVE  Framed(m, start, ret, a, b)[i] = m[i]
  <2>1. /\ i \in Memory /\ i # start /\ i \notin (start + 1) .. (start + a)
        /\ i \notin (start + a + 1) .. (start + a + b)
    BY <1>1
  <2> QED BY <2>1 DEF Framed
<1> QED BY <1>3, <1>4, <1>5, <1>6 DEF Reframed

\* The frame goes below the arguments, and above them the variables that have no
\* value yet: the function finds them there.  Its caller's operands stay.
LEMMA MakeFrameTyped ==
  ASSUME NEW d, NEW t, TypingInv(d, t), MakeFrame, StackInv(d)'
  PROVE  TypingInv(d, t)'
<1>1. /\ At({"frame"}) /\ Running /\ Inst.op = "frame" /\ Inst.op \in Checked
      /\ program' = program /\ lastOp' = "frame"
      /\ Leaves(Framed(mem, top - Inst.a, Arg(1).num, Inst.a, Inst.b),
                top - Inst.a + Inst.a + Inst.b, top - Inst.a, pc + 1)
  BY DEF MakeFrame, Framed, At, Checked
<1>2. /\ StackInv(d) /\ Disciplined(program, d) /\ Typed(program, d, t) /\ CountsFit(program)
      /\ CallersTyped(program, d, t, mem, frame) /\ EnteringTyped(d, t)
      /\ TypeOK /\ pc \in DOMAIN d
  BY <1>1 DEF TypingInv, StackInv
<1>3. /\ top \in Int /\ mem \in [Memory -> Value] /\ pc \in Nat /\ At0(program, pc) = Inst
      /\ Inst.a \in Nat /\ Inst.b \in Nat
  BY <1>2, TypesNow, InstAt, NotesTyped
<1>4. PICK a \in Nat : a = Inst.a
  BY <1>3
<1>5. PICK b \in Nat : b = Inst.b
  BY <1>3
<1>6. PICK start \in Int : start = top - a
  <2>1. top - a \in Int
    BY <1>3
  <2> QED BY <2>1
<1>7. top \in Nat /\ (Starting \/ (Calling(d) /\ Entering(d)))
  BY <1>1, <1>2, EntryOperands DEF StackInv, Calling, Inside
<1>8. /\ start \in Nat
      /\ Starting => start = 0
      /\ Calling(d) /\ Entering(d) =>
           /\ frame \in Nat /\ frame < start
           /\ mem[frame].type = "frame" /\ NoFrames(mem, frame + 1, top)
  <2>1. CASE Starting
    <3>1. a = Len(program.args) /\ top = Len(program.args)
      BY <1>2, <1>3, <1>4, <2>1 DEF Starting, Disciplined
    <3>2. start = 0
      BY <1>3, <1>6, <3>1
    <3> QED BY <2>1, <3>2 DEF Starting, Calling
  <2>2. CASE Calling(d) /\ Entering(d)
    <3>1. /\ frame \in Nat /\ NoFrames(mem, frame + 1, top) /\ Chain(program, d, mem, frame)
          /\ frame + CountsOf(mem, frame) < start
      BY <1>4, <1>6, <2>2 DEF Calling, Entering, Resumes
    <3>2. CountsOf(mem, frame) \in Nat
      BY <1>2, <3>1, CountsNat
    <3>3. start \in Nat /\ frame < start
      BY <3>1, <3>2
    <3> QED BY <2>2, <3>1, <3>3 DEF Chain, Starting
  <2> QED BY <1>7, <2>1, <2>2
<1>9. PICK ret : ret = Arg(1).num
  OBVIOUS
<1>10. PICK m : m = Framed(mem, start, ret, a, b)
  OBVIOUS
<1>11. PICK x \in Int : x = start + a + b
  OBVIOUS
<1>12. top - Inst.a + Inst.a + Inst.b = x /\ top - Inst.a = start
  BY <1>4, <1>5, <1>6, <1>11
<1>13. Leaves(m, x, start, pc + 1)
  BY <1>1, <1>4, <1>5, <1>9, <1>10, <1>12
<1>14. /\ mem' = m /\ top' = x /\ frame' = start /\ pc' = pc + 1
       /\ outcome' = IF ~StackValid(m, x, start)
                     THEN [why |-> "invalid", val |-> Num(-9999)] ELSE outcome
  BY <1>1, <1>13 DEF Leaves
<1>15. start + a + b \in Memory
  <2>1. x \in Nat /\ x <= top'
    BY <1>8, <1>11, <1>14
  <2> QED BY <1>11, <2>1, Reached
<1>16. /\ m[start] = FrameVal(ret, a, b)
       /\ \A n \in 1 .. a : m[start + n] = mem[start + n - 1]
       /\ \A n \in 1 .. b : m[start + (a + n)] = None
       /\ \A i \in 0 .. (start - 1) : m[i] = mem[i]
  <2>1. mem \in [Memory -> Value] /\ start \in Nat /\ a \in Nat /\ b \in Nat
    BY <1>3, <1>8
  <2>2. Reframed(m, mem, start, ret, a, b)
    BY <1>10, <1>15, <2>1, FramedCells
  <2> QED BY <2>2 DEF Reframed
<1>17. /\ m[start].type = "frame" /\ m[start].num = ret
       /\ m[start].items = <<a % Byte, b % Byte>>
  BY <1>16 DEF FrameVal, Val
<1>18. PICK e : e = Exit(pc + 1, 0)
  OBVIOUS
<1>19. Takes(program, pc) = 0 /\ e \in Exits(program, d, pc) /\ e.to = pc + 1
  BY <1>1, <1>3, <1>18 DEF Takes, Exits, Exit, Arith, Compare, Logic
<1>20. Inst'.op # "frame"
  BY <1>1, <1>2, <1>14, <1>19, ExitInside
<1>21. Len(t[pc]) = a /\ Allows(program, d, t, pc, e) /\ pc + 1 \in DOMAIN d
  <2>1. Expects(program, d, t, pc) /\ Allows(program, d, t, pc, e)
    BY <1>2, <1>19, KindsTyped
  <2>2. pc + 1 \in DOMAIN d
    BY <1>1, <1>2, <1>19, ExitCounts
  <2> QED BY <1>1, <1>3, <1>4, <2>1, <2>2 DEF Expects
<1>22. PICK new : new = Gives(program, d, t, pc, e)
  OBVIOUS
<1>23. new = [n \in 1 .. b |-> {"none"}] /\ Len(new) = b
  <2>1. new = [n \in 1 .. b |-> {"none"}]
    BY <1>1, <1>3, <1>5, <1>22 DEF Gives, Arith, Compare, Logic
  <2> QED BY <2>1
<1>24. PICK next : next = t[pc + 1]
  OBVIOUS
<1>25. /\ Len(next) = a + b
       /\ \A n \in 1 .. a : t[pc][n] \subseteq next[n]
       /\ \A n \in 1 .. b : "none" \in next[a + n]
  <2>1. a - 0 = a
    OBVIOUS
  <2>2. /\ Len(next) = a + b
        /\ \A n \in 1 .. a : Stays(program, t, pc, n) \subseteq next[n]
        /\ \A n \in 1 .. b : new[n] \subseteq next[a + n]
    BY <1>19, <1>21, <1>22, <1>23, <1>24, <2>1 DEF Allows
  <2>3. \A n \in 1 .. a : Stays(program, t, pc, n) = t[pc][n]
    BY <1>1, <1>3 DEF Stays
  <2>4. \A n \in 1 .. b : new[n] = {"none"}
    BY <1>23
  <2> QED BY <2>2, <2>3, <2>4
<1>26. \A n \in 1 .. a : mem[start + n - 1].type \in t[pc][n]
  BY <1>2, <1>4, <1>6 DEF EnteringTyped
<1>27. ASSUME NEW n \in 1 .. (a + b)
       PROVE  m[start + n].type \in next[n]
  <2>1. CASE n <= a
    <3>1. n \in 1 .. a
      BY <2>1
    <3>2. m[start + n] = mem[start + n - 1]
      BY <1>16, <3>1
    <3>3. mem[start + n - 1].type \in t[pc][n] /\ t[pc][n] \subseteq next[n]
      BY <1>25, <1>26, <3>1
    <3> QED BY <3>2, <3>3
  <2>2. CASE n > a
    <3>1. PICK h \in 1 .. b : n = a + h
      BY <2>2
    <3>2. m[start + (a + h)] = None /\ "none" \in next[a + h]
      BY <1>16, <1>25
    <3>3. None.type = "none"
      BY DEF None, Val
    <3> QED BY <3>1, <3>2, <3>3
  <2> QED BY <2>1, <2>2
<1>28. InsideTyped(t)'
  <2>1. x = start + Len(next)
    BY <1>8, <1>11, <1>25
  <2> QED BY <1>14, <1>24, <1>25, <1>27, <2>1 DEF InsideTyped
<1>29. ASSUME NEW i \in 1 .. start, NEW j \in 0 .. (i - 1), m[i].type = "frame",
              Awaits(program, d, m, j, i)
       PROVE  Holds(program, d, t, m, j, i, m[i].num)
  <2>1. start # 0
    BY <1>8
  <2>2. /\ Calling(d) /\ Entering(d) /\ frame \in Nat /\ frame < start
        /\ mem[frame].type = "frame" /\ NoFrames(mem, frame + 1, top)
    BY <1>7, <1>8, <2>1
  <2>3. \A h \in (frame + 1) .. (start - 1) : m[h].type # "frame"
    <3>1. \A h \in (frame + 1) .. (start - 1) : h \in (frame + 1) .. top /\ h \in 0 .. (start - 1)
      BY <1>3, <1>6, <1>8, <2>2
    <3> QED BY <1>16, <2>2, <3>1 DEF NoFrames
  <2>4. CASE i <= frame
    <3>1. \A h \in 0 .. frame : m[h] = mem[h]
      BY <1>8, <1>16, <2>2
    <3>2. CallersTyped(program, d, t, m, frame)
      BY <1>2, <2>2, <3>1, CallersKept
    <3>3. i \in 1 .. frame
      BY <2>4
    <3> QED BY <1>29, <3>2, <3>3 DEF CallersTyped
  <2>5. CASE i > frame
    <3>1. i = start
      BY <1>8, <1>29, <2>2, <2>3, <2>5
    <3>2. j = frame
      <4>1. m[j].type = "frame" /\ \A h \in (j + 1) .. (i - 1) : m[h].type # "frame"
        BY <1>29 DEF Awaits
      <4>2. m[frame].type = "frame"
        BY <1>8, <1>16, <2>2
      <4>3. j <= frame
        BY <1>8, <2>2, <2>3, <3>1, <4>1
      <4>4. ~(j < frame)
        BY <1>8, <2>2, <3>1, <4>1, <4>2
      <4> QED BY <2>2, <4>3, <4>4
    <3>3. Holds(program, d, t, mem, frame, start, ret)
      BY <1>2, <1>4, <1>6, <1>9, <2>2 DEF EnteringTyped
    <3>4. \A h \in (frame + 1) .. (start - 1) : m[h] = mem[h]
      BY <1>8, <1>16, <2>2
    <3>5. Holds(program, d, t, m, frame, start, ret)
      BY <3>3, <3>4 DEF Holds
    <3> QED BY <1>17, <3>1, <3>2, <3>5
  <2> QED BY <2>2, <2>4, <2>5
<1>30. CallersTyped(program, d, t, m, start)
  BY <1>29 DEF CallersTyped
<1>31. outcome'.why = "invalid" => top' >= StackSize
  <2>1. PICK g \in Nat : g = a % Byte
    BY RemainderSmaller
  <2>2. PICK h \in Nat : h = b % Byte
    BY RemainderSmaller
  <2>3. g <= a /\ h <= b
    BY <2>1, <2>2, RemainderSmaller
  <2>4. x >= start + g + h /\ x >= start
    BY <1>8, <1>11, <2>3
  <2>5. m[start].items[1] = g /\ m[start].items[2] = h
    BY <1>17, <2>1, <2>2
  <2>6. ~StackValid(m, x, start) => x >= StackSize
    BY <1>8, <2>4, <2>5, OnlyOverflow
  <2> QED BY <1>1, <1>14, <2>6 DEF Running
<1>32. outcome'.why # "misread" /\ outcome'.why # "return"
  BY <1>1, <1>14 DEF Running
<1> QED BY <1>1, <1>2, <1>14, <1>20, <1>28, <1>30, <1>31, <1>32 DEF TypingInv

-----------------------------------------------------------------------------
(* Returns.                                                                *)

\* A value that a function returns has a type that it is known to leave.
LEMMA LeftTyped ==
  ASSUME NEW d, NEW t, TypingInv(d, t), Running, Inst.op = "return-value", d[pc].low >= 1
  PROVE  Arg(1).type \in LeftBy(program, d, t, d[pc].fun)
<1>1. Inst.op # "frame"
  OBVIOUS
<1>2. pc \in DOMAIN d /\ At0(program, pc) = Inst /\ Typed(program, d, t)
  BY <1>1, TypedFacts
<1>3. Arg(1).type \in FromTop(t[pc], 1)
  BY <1>1, OperandTyped
<1>4. pc \in DOMAIN t
  BY <1>2 DEF Typed
<1> QED BY <1>2, <1>3, <1>4 DEF LeftBy

\* A function returns to another: there the operands are what the waiting call was
\* promised, and on top of them is the result.
LEMMA ReturnsTyped ==
  ASSUME NEW d, NEW t, NEW ops, TypingInv(d, t), At(ops), StackInv(d)', ~Outermost,
         Inst.op \in {"return-value", "return-nothing"},
         NEW v \in {<<>>, <<Arg(1)>>}, ReturnsWith(v), Len(v) = d[pc].result,
         v # <<>> => Inst.op = "return-value"
  PROVE  TypingInv(d, t)'
<1>1. /\ Running /\ Inst.op # "frame" /\ Inst.op \notin Checked
      /\ program' = program /\ lastOp' = Inst.op
  BY DEF At, Checked, Arith, Compare, Logic
<1>2. /\ StackInv(d) /\ Disciplined(program, d) /\ Typed(program, d, t) /\ CountsFit(program)
      /\ pc \in DOMAIN d /\ frame \in Nat /\ frame <= top /\ top \in Int
      /\ mem \in [Memory -> Value] /\ CallersTyped(program, d, t, mem, frame)
      /\ d[pc].low \in Nat /\ Stands(program, d, pc) /\ At0(program, pc) = Inst
  <2>1. Stands(program, d, pc)
    BY <1>1, StepFacts DEF TypingInv
  <2> QED BY <1>1, <2>1, TypedFacts DEF TypingInv
<1>3. Chain(program, d, mem, frame) /\ d[pc].fun = FunctionOf(program, mem, frame)
      /\ mem[frame].type = "frame"
  BY <1>1, <1>2, FunctionRuns DEF Inside, Chain
<1>4. frame \in Nat \ {0}
  BY <1>1, <1>2, OutermostIsLowest
<1>5. PICK j \in 0 .. (frame - 1) : Awaits(program, d, mem, j, frame)
  BY <1>3, <1>4, ChainDown
<1>6. PICK r : r = mem[frame].num
  OBVIOUS
<1>7. /\ mem[j].type = "frame"
      /\ \A h \in (j + 1) .. (frame - 1) : mem[h].type # "frame"
      /\ r - 1 \in DOMAIN d /\ r \in DOMAIN d /\ program.inst[r].op = "call"
  BY <1>5, <1>6 DEF Awaits, Resumes
<1>8. PICK f : f = program.inst[r].a
  OBVIOUS
<1>9. f = d[pc].fun /\ d[f].result = d[pc].result /\ d[pc].result \in {0, 1}
  <2>1. f = d[pc].fun
    BY <1>3, <1>4, <1>6, <1>8 DEF FunctionOf
  <2>2. d[d[pc].fun].result = d[pc].result
    BY <1>2 DEF Disciplined
  <2> QED BY <1>2, <2>1, <2>2, NotesTyped
<1>10. Holds(program, d, t, mem, j, frame, r)
  <2>1. frame \in 1 .. frame
    BY <1>4
  <2> QED BY <1>2, <1>3, <1>5, <1>6, <2>1 DEF CallersTyped
<1>11. Len(t[r]) \in Nat
  BY <1>2, <1>7, KindsTyped
<1>12. PICK n \in Nat : n = Len(t[r])
  BY <1>11
<1>13. /\ frame - 1 + d[pc].result = j + n
       /\ \A h \in (j + 1) .. (frame - 1) : mem[h].type \in t[r][h - j]
  BY <1>8, <1>9, <1>10, <1>12 DEF Holds
<1>14. PICK x \in Int : x = frame - 1 + Len(v)
  <2>1. frame - 1 + d[pc].result \in Int
    BY <1>4, <1>9
  <2> QED BY <2>1
<1>15. PICK m : m = IF v = <<>> THEN mem ELSE Set(frame, v[1])
  OBVIOUS
<1>16. x = j + n /\ x \in {frame - 1, frame}
  BY <1>4, <1>9, <1>13, <1>14
<1>17. frame \in Memory /\ \A i \in 0 .. (frame - 1) : i \in Memory /\ i # frame
  <2>1. TypeOK /\ top <= StackSize + Behind - 1
    BY <1>2, TypesNow DEF StackInv
  <2> QED BY <1>2, <1>4, <2>1, LimitsAssumption DEF Memory
<1>18. \A i \in 0 .. (frame - 1) : m[i] = mem[i]
  BY <1>2, <1>15, <1>17 DEF Set
<1>19. ASSUME x = frame
       PROVE  /\ m[frame] = Arg(1) /\ Arg(1).type # "frame"
              /\ Arg(1).type \in LeftBy(program, d, t, f) /\ d[f].result = 1
  <2>1. Len(v) = 1
    BY <1>4, <1>9, <1>14, <1>19
  <2>2. v # <<>> /\ v = <<Arg(1)>>
    BY <2>1
  <2>3. Inst.op = "return-value" /\ d[pc].result = 1
    BY <2>1, <2>2
  <2>4. d[pc].low >= 1
    BY <1>2, <2>3 DEF Stands
  <2>5. Arg(1).type # "frame"
    BY <1>1, <1>2, <2>4, Operand
  <2>6. Arg(1).type \in LeftBy(program, d, t, f)
    BY <1>1, <1>9, <2>3, <2>4, LeftTyped
  <2>7. m[frame] = Arg(1)
    BY <1>2, <1>15, <1>17, <2>2 DEF Set
  <2> QED BY <1>9, <2>3, <2>5, <2>6, <2>7
<1>20. NoFrames(m, j + 1, x) /\ m[j].type = "frame"
  <2>1. ASSUME NEW i \in (j + 1) .. x
        PROVE  m[i].type # "frame"
    <3>1. CASE i = frame
      <4>1. x = frame
        BY <1>4, <1>16, <2>1, <3>1
      <4> QED BY <1>19, <3>1, <4>1
    <3>2. CASE i # frame
      <4>1. i \in (j + 1) .. (frame - 1) /\ i \in 0 .. (frame - 1)
        BY <1>4, <1>16, <2>1, <3>2
      <4> QED BY <1>7, <1>18, <4>1
    <3> QED BY <3>1, <3>2
  <2>2. m[j] = mem[j]
    BY <1>18
  <2> QED BY <1>7, <2>1, <2>2 DEF NoFrames
<1>21. FrameBelow(m, x) = j
  <2>1. j \in 0 .. x
    BY <1>4, <1>16
  <2> QED BY <1>20, <2>1, FrameBelowFinds
<1>22. mem' = m /\ top' = x /\ frame' = j /\ pc' = r /\ outcome' = outcome
  BY <1>1, <1>6, <1>14, <1>15, <1>21 DEF ReturnsWith, Leaves
<1>23. CallersTyped(program, d, t, m, j)
  <2>1. CallersTyped(program, d, t, mem, j)
    <3>1. j \in 0 .. frame
      BY <1>4
    <3> QED BY <1>2, <3>1, CallersBelow
  <2>2. j \in Nat /\ \A i \in 0 .. j : m[i] = mem[i]
    BY <1>4, <1>18
  <2> QED BY <2>1, <2>2, CallersKept
<1>24. Inst'.op # "frame"
  BY <1>1, <1>2, <1>6, <1>22, ReturnsInside
<1>25. ASSUME NEW i \in 1 .. n
       PROVE  m[j + i].type \in t[r][i]
  <2>1. CASE j + i <= frame - 1
    <3>1. PICK h \in Int : h = j + i
      OBVIOUS
    <3>2. h \in (j + 1) .. (frame - 1) /\ h \in 0 .. (frame - 1) /\ h - j = i
      BY <1>4, <2>1, <3>1
    <3>3. mem[h].type \in t[r][h - j] /\ m[h] = mem[h]
      BY <1>13, <1>18, <3>2
    <3> QED BY <3>1, <3>2, <3>3
  <2>2. CASE j + i > frame - 1
    <3>1. x = frame /\ j + i = frame /\ i = n
      BY <1>4, <1>16, <2>2
    <3>2. m[frame] = Arg(1) /\ Arg(1).type \in LeftBy(program, d, t, f) /\ d[f].result = 1
      BY <1>19, <3>1
    <3>3. LeftBy(program, d, t, f) \subseteq t[r][n]
      <4>1. PICK k : k = r - 1
        OBVIOUS
      <4>2. k \in DOMAIN d /\ k \in Nat /\ k + 1 = r /\ At0(program, k) = program.inst[r]
        <5>1. k \in DOMAIN d /\ k \in Nat /\ r \in Nat
          BY <1>2, <1>7, <4>1, NotesTyped
        <5>2. k + 1 = r
          BY <4>1, <5>1
        <5> QED BY <5>1, <5>2 DEF At0
      <4>3. PICK e : e = Exit(r, 1)
        OBVIOUS
      <4>4. e \in Exits(program, d, k) /\ e.to = r
        BY <1>7, <1>8, <3>2, <4>2, <4>3 DEF Exits, Exit, Arith, Compare, Logic
      <4>5. Allows(program, d, t, k, e)
        BY <1>2, <4>2, <4>4, KindsTyped
      <4>6. Gives(program, d, t, k, e) = <<LeftBy(program, d, t, f)>>
        BY <1>7, <1>8, <3>2, <4>2 DEF Gives, Arith, Compare, Logic
      <4>7. PICK new : new = Gives(program, d, t, k, e)
        OBVIOUS
      <4>8. Len(new) = 1 /\ 1 \in 1 .. Len(new) /\ new[1] = LeftBy(program, d, t, f)
        BY <4>6, <4>7
      <4>9. /\ Takes(program, k) \in Nat /\ Len(t[k]) \in Nat
        <5>1. Stands(program, d, k)
          BY <1>2, <4>2, NotesTyped
        <5>2. f \in DOMAIN d
          BY <1>7, <1>8, <4>2, <5>1 DEF Stands
        <5>3. At0(program, f).a \in Nat
          BY <1>2, <5>2, NotesTyped
        <5>4. Takes(program, k) = At0(program, f).a
          BY <1>7, <1>8, <4>2 DEF Takes, Arith, Compare, Logic
        <5> QED BY <1>2, <4>2, <5>3, <5>4, KindsTyped
      <4>10. PICK stay \in Int : stay = Len(t[k]) - Takes(program, k)
        <5>1. Len(t[k]) - Takes(program, k) \in Int
          BY <4>9
        <5> QED BY <5>1
      <4>11. n = stay + 1 /\ new[1] \subseteq t[r][stay + 1]
        BY <1>12, <4>4, <4>5, <4>7, <4>8, <4>10 DEF Allows
      <4> QED BY <4>8, <4>11
    <3> QED BY <3>1, <3>2, <3>3
  <2> QED BY <1>4, <2>1, <2>2
<1>26. InsideTyped(t)'
  BY <1>12, <1>16, <1>22, <1>25 DEF InsideTyped
<1> QED BY <1>1, <1>2, <1>22, <1>23, <1>24, <1>26 DEF TypingInv, Running

\* The entry point returns what the program is declared to answer with.
LEMMA OutermostTyped ==
  ASSUME NEW d, NEW t, NEW ops, TypingInv(d, t), At(ops), StackInv(d)', Outermost,
         Inst.op \in {"return-value", "return-nothing"},
         NEW val, val = IF Inst.op = "return-value" THEN Arg(1) ELSE None,
         Ends("return", val)
  PROVE  TypingInv(d, t)'
<1>1. Running /\ Inst.op # "frame" /\ program' = program
  BY DEF At
<1>2. /\ StackInv(d) /\ Disciplined(program, d) /\ Typed(program, d, t)
      /\ pc \in DOMAIN d /\ d[pc].low \in Nat /\ At0(program, pc) = Inst
      /\ Expects(program, d, t, pc)
  BY <1>1, TypedFacts
<1>3. Stands(program, d, pc) /\ d[pc].result \in {0, 1}
  BY <1>2, NotesTyped
<1>4. d[pc].fun = program.entry
  <2>1. d[pc].fun = FunctionOf(program, mem, frame)
    BY <1>1, <1>2, FunctionRuns DEF Inside
  <2>2. frame = 0
    BY <1>1, <1>2, OutermostIsLowest
  <2> QED BY <2>1, <2>2 DEF FunctionOf
<1>5. d[program.entry].result = d[pc].result
  <2>1. d[d[pc].fun].result = d[pc].result
    BY <1>2 DEF Disciplined
  <2> QED BY <1>4, <2>1
<1>6. val.type = program.answer
  <2>1. CASE Inst.op = "return-nothing"
    <3>1. d[program.entry].result = 0
      BY <1>2, <1>3, <1>5, <2>1 DEF Stands
    <3>2. program.answer = "none"
      BY <1>2, <3>1 DEF Typed
    <3> QED BY <2>1, <3>2 DEF None, Val
  <2>2. CASE Inst.op = "return-value"
    <3>1. d[pc].result # 0
      BY <1>2, <1>4, <2>2 DEF Expects
    <3>2. d[pc].low >= 1
      BY <1>2, <1>3, <2>2, <3>1 DEF Stands
    <3>3. Arg(1).type \in LeftBy(program, d, t, program.entry)
      BY <1>1, <1>4, <2>2, <3>2, LeftTyped
    <3>4. LeftBy(program, d, t, program.entry) \subseteq {program.answer}
      BY <1>2, <1>5, <3>1 DEF Typed
    <3> QED BY <2>2, <3>3, <3>4
  <2> QED BY <2>1, <2>2
<1> QED BY <1>1, <1>6, EndsTyped

\* A function that is to leave its caller a value leaves it one, and no other does.
LEMMA ReturnTyped ==
  ASSUME NEW d, NEW t, TypingInv(d, t), ReturnNothing \/ ReturnValue, StackInv(d)'
  PROVE  TypingInv(d, t)'
<1>1. CASE ReturnNothing
  <2>1. At({"return-nothing"}) /\ Running /\ Inst.op = "return-nothing" /\ Inst.op # "frame"
    BY <1>1 DEF ReturnNothing, At
  <2>2. Stands(program, d, pc) /\ At0(program, pc) = Inst
    BY <2>1, StepFacts DEF TypingInv
  <2>3. d[pc].result = 0
    BY <2>1, <2>2 DEF Stands
  <2>4. CASE Outermost /\ Ends("return", None)
    BY <2>1, <2>4, OutermostTyped
  <2>5. CASE ~Outermost /\ ReturnsWith(<<>>)
    <3>1. PICK v : v = <<>>
      OBVIOUS
    <3>2. v \in {<<>>, <<Arg(1)>>} /\ ReturnsWith(v) /\ Len(v) = d[pc].result
      BY <2>3, <2>5, <3>1
    <3> QED BY <2>1, <2>5, <3>1, <3>2, ReturnsTyped
  <2> QED BY <1>1, <2>4, <2>5 DEF ReturnNothing
<1>2. CASE ReturnValue
  <2>1. At({"return-value"}) /\ Running /\ Inst.op = "return-value" /\ Inst.op # "frame"
    BY <1>2 DEF ReturnValue, At
  <2>2. /\ pc \in DOMAIN d /\ At0(program, pc) = Inst /\ Disciplined(program, d)
        /\ Expects(program, d, t, pc) /\ frame \in Nat /\ top \in Int
        /\ Len(t[pc]) \in Nat /\ top = frame + Len(t[pc])
        /\ d[pc].low \in Nat /\ Reserved(frame) \in Nat
        /\ top >= frame + Reserved(frame) + d[pc].low
    BY <2>1, TypedFacts
  <2>3. Stands(program, d, pc) /\ d[pc].result \in {0, 1}
    BY <2>2, NotesTyped
  <2>4. CASE Outermost /\ Ends("return", Arg(1))
    BY <2>1, <2>4, OutermostTyped
  <2>5. CASE ~Outermost /\ top > frame + Reserved(frame) /\ ReturnsWith(<<Arg(1)>>)
    <3>1. d[pc].result = 1
      <4>1. SUFFICES ASSUME d[pc].result = 0
                     PROVE  FALSE
        BY <2>3
      <4>2. Len(t[pc]) = Variables(program, d, pc)
        BY <2>1, <2>2, <4>1 DEF Expects
      <4>3. Len(t[pc]) = Reserved(frame)
        BY <2>1, <4>2, ReservedVariables
      <4> QED BY <2>2, <2>5, <4>3
    <3>2. PICK v : v = <<Arg(1)>>
      OBVIOUS
    <3>3. v \in {<<>>, <<Arg(1)>>} /\ ReturnsWith(v) /\ Len(v) = d[pc].result
      BY <2>5, <3>1, <3>2
    <3> QED BY <2>1, <2>5, <3>3, ReturnsTyped
  <2>6. CASE ~Outermost /\ ~(top > frame + Reserved(frame)) /\ ReturnsWith(<<>>)
    <3>1. d[pc].result = 0
      <4>1. d[pc].result <= d[pc].low
        BY <2>1, <2>2, <2>3 DEF Stands
      <4> QED BY <2>2, <2>3, <2>6, <4>1
    <3>2. PICK v : v = <<>>
      OBVIOUS
    <3>3. v \in {<<>>, <<Arg(1)>>} /\ ReturnsWith(v) /\ Len(v) = d[pc].result
      BY <2>6, <3>1, <3>2
    <3> QED BY <2>1, <2>6, <3>3, ReturnsTyped
  <2> QED BY <1>2, <2>4, <2>5, <2>6 DEF ReturnValue
<1> QED BY <1>1, <1>2

-----------------------------------------------------------------------------
(* The invariant and what it implies.                                      *)

LEMMA TypingInit ==
  ASSUME NEW d, NEW t, Init, Disciplined(program, d), Typed(program, d, t), CountsFit(program)
  PROVE  TypingInv(d, t)
<1>1. StackInv(d)
  BY StackInvInit
<1>2. /\ program.entry \in DOMAIN d /\ At0(program, program.entry).op = "frame"
      /\ At0(program, program.entry).a = Len(program.args)
      /\ program.args \in Seq(Value) /\ Len(program.args) < StackSize
  BY DEF Disciplined
<1>3. PICK n \in Nat : n = Len(program.args)
  BY <1>2
<1>4. program.inst[program.entry + 1].op = "frame"
  BY <1>2 DEF At0
<1>5. /\ top = n - 1 + 1 /\ frame = -1 /\ pc = program.entry /\ lastOp = "none"
      /\ mem = [i \in Memory |-> CASE i < n -> program.args[i + 1]
                                   [] i = n -> Num(-1)
                                   [] IsHeap(i) -> HeapVal
                                   [] OTHER -> None]
      /\ outcome = [why |-> "run", val |-> None]
  BY <1>3, <1>4 DEF Init
<1>6. top = n /\ Inst = At0(program, program.entry) /\ Inst.op = "frame" /\ Inst.a = n
  BY <1>2, <1>3, <1>5 DEF Inst, At0
<1>7. ASSUME NEW h \in 1 .. n
      PROVE  mem[top - Inst.a + h - 1].type \in t[pc][h]
  <2>1. PICK i \in Int : i = h - 1
    OBVIOUS
  <2>2. i \in Nat /\ i < n /\ i + 1 = h /\ top - Inst.a + h - 1 = i
    BY <1>6, <2>1
  <2>3. i \in Memory /\ ~IsHeap(i)
    BY <1>2, <1>3, <2>2, LimitsAssumption DEF Memory, IsHeap
  <2>4. mem[i] = program.args[h]
    BY <1>5, <2>2, <2>3
  <2>5. h \in DOMAIN program.args
    BY <1>2, <1>3
  <2>6. program.args[h].type \in t[program.entry][h]
    BY <2>5 DEF Typed
  <2> QED BY <1>5, <2>2, <2>4, <2>6
<1>8. EnteringTyped(d, t)
  BY <1>5, <1>6, <1>7 DEF EnteringTyped
<1>9. CallersTyped(program, d, t, mem, frame)
  BY <1>5 DEF CallersTyped
<1> QED BY <1>1, <1>5, <1>6, <1>8, <1>9 DEF TypingInv

LEMMA TypingStep ==
  ASSUME NEW d, NEW t, TypingInv(d, t), [Next]_vars
  PROVE  TypingInv(d, t)'
<1> StackInv(d)'
  BY StackInvStep DEF TypingInv
<1>1. CASE PushValue
  BY <1>1, PushTyped
<1>2. CASE Pop
  BY <1>2, PopTyped
<1>3. CASE Arithmetic
  BY <1>3, ArithmeticTyped
<1>4. CASE Comparison \/ Logical
  BY <1>4, ComparisonTyped
<1>5. CASE Unary
  BY <1>5, UnaryTyped
<1>6. CASE Duplicate
  BY <1>6, DuplicateTyped
<1>7. CASE Rotate
  BY <1>7, RotateTyped
<1>8. CASE Trap \/ Stop \/ OutOfCycles \/ Refuse
  BY <1>8, EndsWell
<1>9. CASE Jump
  BY <1>9, JumpTyped
<1>10. CASE JumpIfFalse
  BY <1>10, JumpIfFalseTyped
<1>11. CASE Call
  BY <1>11, CallTyped
<1>12. CASE MakeFrame
  BY <1>12, MakeFrameTyped
<1>13. CASE ReturnNothing \/ ReturnValue
  BY <1>13, ReturnTyped
<1>14. CASE StoreLocal
  BY <1>14, StoreTyped
<1>15. CASE LoadLocal
  BY <1>15, LoadTyped
<1>16. CASE MakeArray
  BY <1>16, MakeArrayTyped
<1>17. CASE ArrayLength \/ MakeIter
  BY <1>17, ArrayTyped
<1>18. CASE IterNext
  BY <1>18, IterNextTyped
<1>19. CASE CallNative
  BY <1>19, CallNativeTyped
<1>20. CASE UNCHANGED vars
  BY <1>20 DEF vars, TypingInv, EnteringTyped, InsideTyped, Inst, Arg, Running
<1> QED BY <1>1, <1>2, <1>3, <1>4, <1>5, <1>6, <1>7, <1>8, <1>9, <1>10, <1>11, <1>12, <1>13,
           <1>14, <1>15, <1>16, <1>17, <1>18, <1>19, <1>20 DEF Next

\* Whatever types the code generator can vouch for at an instruction, the operands
\* have when the interpreter comes to it: in the call that runs, and in those that wait
\* for it when they go on.
THEOREM TypingKept ==
  ASSUME NEW CONSTANT d, NEW CONSTANT t
  PROVE  Spec /\ Disciplined(program, d) /\ Typed(program, d, t) /\ CountsFit(program)
           => []TypingInv(d, t)
<1>1. Init /\ Disciplined(program, d) /\ Typed(program, d, t) /\ CountsFit(program)
        => TypingInv(d, t)
  BY TypingInit
<1>2. TypingInv(d, t) /\ [Next]_vars => TypingInv(d, t)'
  BY TypingStep
<1> QED BY <1>1, <1>2, PTL DEF Spec

\* A typed program never has an operand of the wrong type when it runs, where the
\* interpreter looks (validation_pre_exec) and where it does not: only an overflow of
\* the stack can stop it, and it answers with a value of the type it is declared to have.
THEOREM TypedStronglyTyped ==
  ASSUME NEW CONSTANT d, NEW CONSTANT t
  PROVE  Spec /\ Disciplined(program, d) /\ Typed(program, d, t) /\ CountsFit(program)
           => []StronglyTyped
<1>1. TypingInv(d, t) => StronglyTyped
  BY OperandsHold DEF TypingInv, StronglyTyped
<1> QED BY <1>1, TypingKept, PTL

LEMMA LoopsStand ==
  ASSUME NEW d, NEW t, TypingInv(d, t), LoopsTyped(program, d, t)
  PROVE  LoopsKeepTheirStack
<1> SUFFICES ASSUME Running, Inst.op = "iter-next"
             PROVE  LET base == frame + Reserved(frame)
                    IN  /\ top = base + Cardinality(Around(program, pc))
                        /\ \A i \in (base + 1) .. top : mem[i].type = "iter"
  BY DEF LoopsKeepTheirStack
<1>1. Inst.op # "frame"
  OBVIOUS
<1>2. /\ pc \in DOMAIN d /\ At0(program, pc) = Inst /\ Typed(program, d, t)
      /\ frame \in Nat /\ top \in Int /\ Reserved(frame) \in Nat
      /\ Len(t[pc]) \in Nat /\ top = frame + Len(t[pc])
      /\ \A n \in 1 .. Len(t[pc]) : mem[frame + n].type \in t[pc][n]
      /\ top >= frame + Reserved(frame) + d[pc].low /\ d[pc].low \in Nat
  BY <1>1, TypedFacts
<1>3. pc \in DOMAIN t
  BY <1>2 DEF Typed
<1>4. PICK loops : loops = Cardinality(Around(program, pc))
  OBVIOUS
<1>5. Len(t[pc]) = Variables(program, d, pc) + loops /\ Topmost(t[pc], loops, "iter")
  BY <1>2, <1>3, <1>4 DEF LoopsTyped
<1>6. Reserved(frame) = Variables(program, d, pc)
  BY <1>1, ReservedVariables
<1>7. loops \in Nat
  <2>1. Disciplined(program, d)
    BY DEF TypingInv, StackInv
  <2>2. Around(program, pc) \subseteq 1 .. Len(program.inst) /\ Len(program.inst) \in Nat
    <3>1. program.inst \in Seq([op : STRING, a : Nat, b : Nat])
      BY <2>1 DEF Disciplined
    <3>2. DOMAIN program.inst = 1 .. Len(program.inst) /\ Len(program.inst) \in Nat
      BY <3>1
    <3> QED BY <3>2 DEF Around
  <2>3. IsFiniteSet(1 .. Len(program.inst))
    BY <2>2, FS_Interval
  <2>4. IsFiniteSet(Around(program, pc))
    BY <2>2, <2>3, FS_Subset
  <2> QED BY <1>4, <2>4, FS_CardinalityType
<1>8. PICK r \in Nat : r = Reserved(frame)
  BY <1>2
<1>9. Len(t[pc]) = r + loops /\ top = frame + (r + loops)
  BY <1>2, <1>5, <1>6, <1>8
<1>10. ASSUME NEW i \in (frame + r + 1) .. top
       PROVE  mem[i].type = "iter"
  <2>1. PICK g \in Nat : g = i - frame - r
    BY <1>2, <1>9
  <2>2. g \in 1 .. loops /\ i = frame + (r + g)
    BY <1>2, <1>7, <1>9, <2>1
  <2>3. PICK k \in 1 .. loops : k = loops - g + 1
    BY <1>7, <2>2
  <2>4. r + loops - k + 1 = r + g /\ r + g \in 1 .. (r + loops)
    BY <1>7, <2>2, <2>3
  <2>5. FromTop(t[pc], k) = t[pc][r + g]
    <3>1. Len(t[pc]) - k + 1 = r + g
      <4>1. PICK n : n = Len(t[pc])
        OBVIOUS
      <4>2. n = r + loops
        BY <1>9, <4>1
      <4>3. n - k + 1 = r + g
        BY <1>7, <2>4, <4>2
      <4> QED BY <4>1, <4>3
    <3> QED BY <3>1 DEF FromTop
  <2>6. t[pc][r + g] \subseteq {"iter"}
    BY <1>5, <2>3, <2>5 DEF Topmost
  <2>7. mem[frame + (r + g)].type \in t[pc][r + g]
    BY <1>2, <1>9, <2>4
  <2> QED BY <2>2, <2>6, <2>7
<1>11. top = frame + r + loops
  BY <1>2, <1>7, <1>9
<1> QED BY <1>4, <1>8, <1>10, <1>11

\* Every round of a loop of such a program begins with the same stack, if the notes
\* say of OP_ITER_NEXT what the code generator means by it: the iterators of the loops
\* that the instruction lies in are all that its function has on the stack.
THEOREM TypedLoops ==
  ASSUME NEW CONSTANT d, NEW CONSTANT t
  PROVE  Spec /\ Disciplined(program, d) /\ Typed(program, d, t) /\ CountsFit(program)
              /\ LoopsTyped(program, d, t)
           => []LoopsKeepTheirStack
<1>1. LoopsTyped(program, d, t) /\ [Next]_vars => LoopsTyped(program, d, t)'
  <2>1. [Next]_vars => program' = program
    BY DEF Next, vars, PushValue, Pop, Arithmetic, Comparison, Logical, Unary, Duplicate,
           Rotate, Trap, Jump, JumpIfFalse, Stop, Call, MakeFrame, ReturnNothing, ReturnValue,
           StoreLocal, LoadLocal, MakeArray, ArrayLength, MakeIter, IterNext, CallNative,
           OutOfCycles, Refuse, At
  <2> QED BY <2>1
<1>2. TypingInv(d, t) /\ LoopsTyped(program, d, t) => LoopsKeepTheirStack
  BY LoopsStand
<1> QED BY <1>1, <1>2, TypingKept, PTL DEF Spec

===========================================================================
