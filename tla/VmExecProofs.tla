---------------------------- MODULE VmExecProofs ----------------------------
(***************************************************************************)
(* Theorems about VmExec: the call stack of every program that keeps to    *)
(* Discipline, for every size of the stack and every number of cycles.     *)
(***************************************************************************)
EXTENDS Discipline, TLAPS

-----------------------------------------------------------------------------
(* Values.                                                                 *)

LEMMA Values ==
  /\ None \in Value /\ None.type # "frame"
  /\ \A n \in Int : Num(n) \in Value /\ Num(n).type # "frame" /\ Num(n).num = n
  /\ \A b \in BOOLEAN : Bool(b) \in Value /\ Bool(b).type # "frame"
  /\ \A s \in Seq(Int) : /\ Arr(s) \in Value /\ Arr(s).type # "frame"
                         /\ Iter(s) \in Value /\ Iter(s).type # "frame"
BY DEF None, Num, Bool, Arr, Iter, Val, Value, Types

LEMMA ValueFields ==
  ASSUME NEW v \in Value
  PROVE  v.num \in Int /\ v.items \in Seq(Int)
BY DEF Value

LEMMA SetTyped ==
  ASSUME NEW m \in [Memory -> Value], NEW i, NEW v \in Value
  PROVE  /\ [m EXCEPT ![i] = v] \in [Memory -> Value]
         /\ i \in Memory => [m EXCEPT ![i] = v][i] = v
         /\ \A j \in Memory : j # i => [m EXCEPT ![i] = v][j] = m[j]
OBVIOUS

\* A place that a note allows for is a place of the memory.
LEMMA PlaceFits ==
  ASSUME NEW t \in Int, NEW h \in Int, NEW n \in Int,
         t <= StackSize - 1 + h, h + n <= Behind, t + n >= 0
  PROVE  t + n \in Memory
<1>1. StackSize \in Nat /\ Behind \in Nat
  BY LimitsAssumption
<1> QED BY <1>1 DEF Memory

-----------------------------------------------------------------------------
(* Notes.                                                                  *)

LEMMA ElementOf ==
  ASSUME NEW R, NEW s \in Seq(R), NEW k \in 0 .. (Len(s) - 1)
  PROVE  k \in Nat /\ k + 1 \in DOMAIN s /\ s[k + 1] \in R
OBVIOUS

LEMMA NotesTyped ==
  ASSUME NEW p, NEW d, Disciplined(p, d), NEW k \in DOMAIN d
  PROVE  /\ k \in Nat /\ k + 1 \in DOMAIN p.inst
         /\ At0(p, k).op \in STRING /\ At0(p, k).a \in Nat /\ At0(p, k).b \in Nat
         /\ d[k].low \in Nat /\ d[k].high \in Nat /\ d[k].result \in {0, 1}
         /\ Takes(p, k) <= d[k].low
         /\ Stands(p, d, k)
<1>1. PICK R : R = [op : STRING, a : Nat, b : Nat]
  OBVIOUS
<1>2. p.inst \in Seq(R) /\ k \in 0 .. (Len(p.inst) - 1)
  BY <1>1 DEF Disciplined
<1>3. k \in Nat /\ k + 1 \in DOMAIN p.inst /\ At0(p, k) \in R
  BY <1>2, ElementOf DEF At0
<1>4. d[k] \in Notes
  BY DEF Disciplined
<1>5. d[k].low \in Nat /\ d[k].high \in Nat /\ d[k].result \in {0, 1}
  BY <1>4 DEF Notes
<1>6. At0(p, k).op \in STRING /\ At0(p, k).a \in Nat /\ At0(p, k).b \in Nat
  BY <1>1, <1>3
<1>7. Takes(p, k) <= d[k].low /\ Stands(p, d, k)
  BY DEF Disciplined
<1> QED BY <1>3, <1>5, <1>6, <1>7

LEMMA ExitFollows ==
  ASSUME NEW p, NEW d, Disciplined(p, d), NEW k \in DOMAIN d, NEW e \in Exits(p, d, k)
  PROVE  Follows(p, d, k, e)
BY DEF Disciplined

-----------------------------------------------------------------------------
(* Chains of frames.                                                       *)

\* A chain depends on nothing above its topmost frame.
LEMMA ChainKept ==
  ASSUME NEW p, NEW d, NEW m, NEW n, NEW f \in Nat,
         Chain(p, d, m, f), \A i \in 0 .. f : n[i] = m[i]
  PROVE  Chain(p, d, n, f)
<1>1. n[f] = m[f] /\ n[0] = m[0]
  OBVIOUS
<1>2. ASSUME NEW i \in 1 .. f, n[i].type = "frame"
      PROVE  \E j \in 0 .. (i - 1) : Awaits(p, d, n, j, i)
  <2>1. PICK j \in 0 .. (i - 1) : Awaits(p, d, m, j, i)
    BY <1>2 DEF Chain
  <2>2. n[i] = m[i] /\ n[j] = m[j] /\ \A h \in (j + 1) .. (i - 1) : n[h] = m[h]
    BY <1>2
  <2>3. Awaits(p, d, n, j, i)
    BY <2>1, <2>2 DEF Awaits, Resumes, Made, FunctionOf, CountsOf
  <2> QED BY <2>3
<1> QED BY <1>1, <1>2 DEF Chain, Made

\* The calls below the topmost one form a chain.
LEMMA ChainDown ==
  ASSUME NEW p, NEW d, NEW m, NEW f \in Nat \ {0}, Chain(p, d, m, f)
  PROVE  \E j \in 0 .. (f - 1) : Awaits(p, d, m, j, f) /\ Chain(p, d, m, j)
<1>1. PICK j \in 0 .. (f - 1) : Awaits(p, d, m, j, f)
  BY DEF Chain
<1>2. \A i \in 1 .. j : i \in 1 .. f
  OBVIOUS
<1>3. Chain(p, d, m, j)
  BY <1>1, <1>2 DEF Chain, Awaits
<1> QED BY <1>1, <1>3

\* A call that the topmost one waits for comes on top.
LEMMA ChainUp ==
  ASSUME NEW p, NEW d, NEW m, NEW j \in Nat, NEW i \in Nat, j < i,
         Chain(p, d, m, j), Awaits(p, d, m, j, i), m[i].type = "frame"
  PROVE  Chain(p, d, m, i)
<1>1. ASSUME NEW h \in 1 .. i, m[h].type = "frame"
      PROVE  \E g \in 0 .. (h - 1) : Awaits(p, d, m, g, h)
  <2>1. CASE h <= j
    BY <1>1, <2>1 DEF Chain
  <2>2. CASE h = i
    BY <2>2
  <2>3. CASE h > j /\ h < i
    BY <1>1, <2>3 DEF Awaits
  <2> QED BY <2>1, <2>2, <2>3
<1> QED BY <1>1 DEF Chain

\* OP_RETURN_* finds the frame that is topmost.
LEMMA FrameBelowFinds ==
  ASSUME NEW m, NEW t \in Int, NEW f \in 0 .. t, m[f].type = "frame", NoFrames(m, f + 1, t)
  PROVE  FrameBelow(m, t) = f
<1> DEFINE Topmost(i) == m[i].type = "frame" /\ \A j \in (i + 1) .. t : m[j].type # "frame"
<1>1. Topmost(f)
  BY DEF NoFrames
<1>2. \A i \in 0 .. t : Topmost(i) => i = f
  BY <1>1
<1>3. FrameBelow(m, t) = CHOOSE i \in 0 .. t : Topmost(i)
  BY <1>1 DEF FrameBelow
<1> HIDE DEF Topmost
<1> QED BY <1>1, <1>2, <1>3

-----------------------------------------------------------------------------
(* Steps.                                                                  *)

\* Outside a frame instruction a function runs.
LEMMA FunctionRuns ==
  ASSUME NEW d, StackInv(d), Running, Inst.op # "frame"
  PROVE  /\ pc \in DOMAIN d
         /\ frame \in 0 .. (StackSize - 1)
         /\ Chain(program, d, mem, frame)
         /\ NoFrames(mem, frame + 1, top)
         /\ Inside(d)
BY DEF StackInv, Starting, Calling, Entering, Disciplined, At0, Inst

\* The reserved cells of a frame lie above it.
LEMMA CountsNat ==
  ASSUME NEW p, NEW d, NEW m, NEW f \in Nat, Chain(p, d, m, f), Disciplined(p, d)
  PROVE  CountsOf(m, f) \in Nat
<1>1. ASSUME NEW k, Made(p, m, f, k), k \in DOMAIN d
      PROVE  CountsOf(m, f) \in Nat
  <2>1. At0(p, k).a \in Nat /\ At0(p, k).b \in Nat
    BY <1>1, NotesTyped
  <2>2. At0(p, k).a % Byte \in Nat /\ At0(p, k).b % Byte \in Nat
    BY <2>1, LimitsAssumption
  <2> QED BY <1>1, <2>2 DEF Made, CountsOf
<1>2. CASE f = 0
  BY <1>1, <1>2 DEF Chain, Disciplined
<1>3. CASE f # 0
  <2>1. PICK j \in 0 .. (f - 1) : Awaits(p, d, m, j, f)
    BY <1>3 DEF Chain
  <2>2. Made(p, m, f, p.inst[m[f].num].a) /\ m[f].num - 1 \in DOMAIN d
        /\ p.inst[m[f].num].op = "call"
    BY <2>1 DEF Awaits, Resumes
  <2>3. m[f].num - 1 \in Nat /\ Stands(p, d, m[f].num - 1)
    BY <2>2, NotesTyped
  <2>4. At0(p, m[f].num - 1) = p.inst[m[f].num]
    <3>1. m[f].num \in Nat
      BY <2>1, NotesTyped DEF Awaits, Resumes
    <3> QED BY <3>1 DEF At0
  <2>5. p.inst[m[f].num].a \in DOMAIN d
    BY <2>2, <2>3, <2>4 DEF Stands
  <2> QED BY <1>1, <2>2, <2>5
<1> QED BY <1>2, <1>3

LEMMA InstAt ==
  ASSUME pc \in Nat
  PROVE  At0(program, pc) = Inst
BY DEF At0, Inst

\* What an exit leaves is known in numbers.
LEMMA ExitCounts ==
  ASSUME NEW d, StackInv(d), Running, NEW e \in Exits(program, d, pc)
  PROVE  /\ Takes(program, pc) \in Nat /\ e.gives \in Nat
         /\ Follows(program, d, pc, e)
         /\ e.to \in DOMAIN d
<1>1. /\ pc \in DOMAIN d /\ Disciplined(program, d)
      /\ Inst.op = "array" => Pushed(program, pc).num \in Nat
  BY DEF StackInv
<1>2. /\ pc \in Nat /\ At0(program, pc) = Inst /\ Inst.a \in Nat /\ Stands(program, d, pc)
  BY <1>1, NotesTyped, InstAt
<1>3. Follows(program, d, pc, e) /\ e.to \in DOMAIN d
  BY <1>1, ExitFollows DEF Follows
<1>4. Inst.op = "call" => At0(program, Inst.a).a \in Nat /\ d[Inst.a].result \in Nat
  BY <1>1, <1>2, NotesTyped DEF Stands
<1>5. Takes(program, pc) \in Nat
  BY <1>1, <1>2, <1>4 DEF Takes
<1>6. Inst.op = "native" => Inst.b \in Nat
  BY <1>2 DEF Stands
<1>7. e.gives \in Nat
  BY <1>2, <1>4, <1>6 DEF Exits, Exit
<1> QED BY <1>3, <1>5, <1>7

LEMMA TypesNow ==
  ASSUME TypeOK
  PROVE  /\ mem \in [Memory -> Value]
         /\ top \in -1 .. (StackSize + Behind - 1)
         /\ frame \in -1 .. top
         /\ pc \in Nat
         /\ cycles \in 0 .. CycleLimit
         /\ outcome.why \in Outcomes /\ outcome.val \in Value
BY DEF TypeOK

\* Every instruction but a call, a return or a frame works above the frame that is
\* there and goes on in the same function.
LEMMA OrdinaryStep ==
  ASSUME NEW d, NEW ops, StackInv(d), At(ops), Inst.op # "frame", Inst.op # "call",
         NEW e \in Exits(program, d, pc),
         NEW m \in [Memory -> Value], NEW t \in Int,
         t = top - Takes(program, pc) + e.gives,
         \A i \in 0 .. frame : m[i] = mem[i],
         NoFrames(m, frame + 1, t),
         At0(program, e.to).op = "array" => m[t] = Pushed(program, e.to),
         Leaves(m, t, frame, e.to)
  PROVE  StackInv(d)'
<1>1. Running /\ cycles > 0 /\ cycles' = cycles - 1 /\ program' = program
  BY DEF At
<1>2. /\ pc \in DOMAIN d /\ frame \in 0 .. (StackSize - 1)
      /\ Chain(program, d, mem, frame) /\ Inside(d)
  BY <1>1, FunctionRuns
<1>3. TypeOK /\ Disciplined(program, d) /\ top <= StackSize - 1 + d[pc].high
  BY <1>1 DEF StackInv
<1>4. /\ Takes(program, pc) \in Nat /\ e.gives \in Nat /\ Follows(program, d, pc, e)
      /\ e.to \in DOMAIN d
  BY <1>1, ExitCounts
<1>5. /\ d[pc].low \in Nat /\ d[pc].high \in Nat /\ Takes(program, pc) <= d[pc].low
      /\ d[e.to].low \in Nat /\ d[e.to].high \in Nat /\ e.to \in Nat /\ pc \in Nat
  BY <1>2, <1>3, <1>4, NotesTyped
<1>6. /\ mem' = m /\ top' = t /\ frame' = frame /\ pc' = e.to
      /\ outcome' = IF Inst.op \in Checked /\ ~StackValid(m, t, frame)
                    THEN [why |-> "invalid", val |-> Num(-9999)] ELSE outcome
  BY DEF Leaves
<1>7. CountsOf(mem, frame) \in Nat /\ Reserved(frame) = CountsOf(mem, frame)
  BY <1>2, <1>3, CountsNat DEF Reserved, CountsOf
<1>8. /\ d[e.to].low <= d[pc].low - Takes(program, pc) + e.gives
      /\ d[pc].high - Takes(program, pc) + e.gives <= Behind
      /\ d[e.to].fun = d[pc].fun
      /\ Inst.op \notin Checked => d[e.to].high >= d[pc].high - Takes(program, pc) + e.gives
      /\ At0(program, e.to).op # "frame"
      /\ At0(program, e.to).op = "array" => Pushed(program, e.to).num \in Nat
  BY <1>4, <1>5, InstAt DEF Follows
<1>9. t \in frame .. (StackSize + Behind - 1) /\ t >= frame + Reserved(frame) + d[e.to].low
  <2>1. top >= frame + Reserved(frame) + d[pc].low
    BY <1>2 DEF Inside
  <2> QED BY <2>1, <1>2, <1>3, <1>4, <1>5, <1>7, <1>8, TypesNow, LimitsAssumption
<1>10. TypeOK'
  <2>1. Num(-9999) \in Value
    BY Values
  <2>2. outcome'.why \in Outcomes /\ outcome'.val \in Value
    BY <1>3, <1>6, <2>1, TypesNow DEF Outcomes
  <2>3. cycles' \in 0 .. CycleLimit
    BY <1>1, <1>3, TypesNow, LimitsAssumption
  <2>4. top' \in -1 .. (StackSize + Behind - 1) /\ frame' \in -1 .. top'
    BY <1>2, <1>6, <1>9
  <2> QED BY <1>5, <1>6, <2>2, <2>3, <2>4 DEF TypeOK
<1>11. ASSUME Running'
       PROVE  /\ pc' \in DOMAIN d
              /\ top' <= StackSize - 1 + d[pc'].high
              /\ Inst'.op = "array" => Arg(1)' = Pushed(program', pc') /\ Arg(1)'.num \in Nat
              /\ Calling(d)'
  <2>1. ~(Inst.op \in Checked /\ ~StackValid(m, t, frame))
    BY <1>6, <1>11 DEF Running
  <2>2. t <= StackSize - 1 + d[e.to].high
    <3>1. CASE Inst.op \in Checked
      BY <2>1, <3>1, <1>5, LimitsAssumption DEF StackValid
    <3>2. CASE Inst.op \notin Checked
      BY <3>2, <1>3, <1>4, <1>5, <1>8, TypesNow, LimitsAssumption
    <3> QED BY <3>1, <3>2
  <2>3. Inst' = At0(program, e.to)
    BY <1>1, <1>6 DEF Inst, At0
  <2>4. Arg(1)' = m[t]
    BY <1>6 DEF Arg
  <2>5. Chain(program, d, m, frame)
    BY <1>2, ChainKept
  <2>6. FunctionOf(program, m, frame) = FunctionOf(program, mem, frame) /\ m[frame] = mem[frame]
    BY <1>2 DEF FunctionOf
  <2>7. Reserved(frame)' = Reserved(frame)
    BY <1>6, <2>6 DEF Reserved
  <2>8. Inside(d)'
    BY <1>1, <1>2, <1>6, <1>8, <1>9, <2>3, <2>6, <2>7 DEF Inside
  <2> QED BY <1>1, <1>2, <1>4, <1>6, <1>8, <2>2, <2>3, <2>4, <2>5, <2>8 DEF Calling
<1> QED BY <1>1, <1>3, <1>10, <1>11 DEF StackInv

\* An instruction that leaves one value in the place of what it takes.
LEMMA ReplaceStep ==
  ASSUME NEW d, NEW ops, StackInv(d), At(ops), Inst.op # "frame", Inst.op # "call",
         NEW k, k = Takes(program, pc),
         Exit(pc + 1, 1) \in Exits(program, d, pc),
         NEW v \in Value, v.type # "frame",
         Inst.op = "push" => v = Pushed(program, pc + 1),
         Replaces(k, v)
  PROVE  StackInv(d)'
<1> DEFINE e == Exit(pc + 1, 1)
           t == top - k + 1
           m == Set(t, v)
<1>1. Running
  BY DEF At
<1>2. /\ Takes(program, pc) \in Nat /\ Follows(program, d, pc, e)
  BY <1>1, ExitCounts
<1>3. e.to = pc + 1 /\ e.gives = 1
  BY DEF Exit
<1>4. /\ pc \in DOMAIN d /\ frame \in 0 .. (StackSize - 1)
      /\ NoFrames(mem, frame + 1, top) /\ Inside(d) /\ Chain(program, d, mem, frame)
  BY <1>1, FunctionRuns
<1>5. TypeOK /\ Disciplined(program, d) /\ top <= StackSize - 1 + d[pc].high
  BY <1>1 DEF StackInv
<1>6. d[pc].low \in Nat /\ d[pc].high \in Nat /\ Takes(program, pc) <= d[pc].low /\ pc \in Nat
  BY <1>4, <1>5, NotesTyped
<1>7. Reserved(frame) \in Nat
  BY <1>4, <1>5, CountsNat DEF Reserved, CountsOf
<1>8. d[pc].high - k + 1 <= Behind
  BY <1>2, <1>3 DEF Follows
<1>9. t \in Int /\ t > frame /\ t \in Memory /\ t <= top + 1
  <2>1. top >= frame + Reserved(frame) + d[pc].low /\ top \in Int
    BY <1>4, <1>5, TypesNow DEF Inside
  <2>2. k \in Nat /\ k <= d[pc].low
    BY <1>2, <1>6
  <2>3. t \in Int /\ t > frame /\ t <= top + 1
    BY <2>1, <2>2, <1>4, <1>6, <1>7
  <2>4. t <= StackSize + Behind - 1
    BY <2>1, <2>2, <1>5, <1>6, <1>8, LimitsAssumption
  <2> QED BY <2>3, <2>4, <1>4 DEF Memory
<1>10. m \in [Memory -> Value] /\ m[t] = v /\ \A j \in Memory : j # t => m[j] = mem[j]
  BY <1>5, <1>9, SetTyped, TypesNow DEF Set
<1>11. \A i \in 0 .. frame : m[i] = mem[i]
  <2>1. \A i \in 0 .. frame : i \in Memory /\ i # t
    BY <1>4, <1>9, LimitsAssumption DEF Memory
  <2> QED BY <2>1, <1>10
<1>12. NoFrames(m, frame + 1, t)
  <2>1. ASSUME NEW i \in (frame + 1) .. t
        PROVE  m[i].type # "frame"
    <3>1. CASE i = t
      BY <3>1, <1>10
    <3>2. CASE i # t
      <4>1. i \in Memory /\ i \in (frame + 1) .. top
        BY <3>2, <1>4, <1>5, <1>9, TypesNow, LimitsAssumption DEF Memory
      <4> QED BY <3>2, <4>1, <1>4, <1>10 DEF NoFrames
    <3> QED BY <3>1, <3>2
  <2> QED BY <2>1 DEF NoFrames
<1>13. At0(program, e.to).op = "array" => m[t] = Pushed(program, e.to)
  BY <1>2, <1>3, <1>6, <1>10, InstAt DEF Follows
<1>14. Leaves(m, t, frame, e.to)
  BY <1>3 DEF Replaces
<1>15. t = top - Takes(program, pc) + e.gives
  BY <1>3
<1> HIDE DEF m, t, e
<1> QED BY <1>9, <1>10, <1>11, <1>12, <1>13, <1>14, <1>15, OrdinaryStep DEF e

\* The operands that the note promises are values above the frame.
LEMMA Operand ==
  ASSUME NEW d, StackInv(d), Running, Inst.op # "frame",
         NEW k \in Nat \ {0}, k <= d[pc].low
  PROVE  /\ top - k + 1 \in (frame + 1) .. top /\ top - k + 1 \in Memory
         /\ top - k + 1 > frame + Reserved(frame)
         /\ Arg(k) \in Value /\ Arg(k).type # "frame"
         /\ Arg(k).num \in Int /\ Arg(k).items \in Seq(Int)
<1>1. /\ pc \in DOMAIN d /\ frame \in 0 .. (StackSize - 1)
      /\ NoFrames(mem, frame + 1, top) /\ Inside(d) /\ Chain(program, d, mem, frame)
  BY FunctionRuns
<1>2. TypeOK /\ Disciplined(program, d)
  BY DEF StackInv
<1>3. Reserved(frame) \in Nat /\ d[pc].low \in Nat
  BY <1>1, <1>2, CountsNat, NotesTyped DEF Reserved, CountsOf
<1>4. top >= frame + Reserved(frame) + d[pc].low /\ top \in Int /\ top <= StackSize + Behind - 1
  BY <1>1, <1>2, TypesNow DEF Inside
<1>5. top - k + 1 \in (frame + 1) .. top /\ top - k + 1 > frame + Reserved(frame)
  BY <1>1, <1>3, <1>4
<1>6. top - k + 1 \in Memory
  BY <1>1, <1>4, <1>5, LimitsAssumption DEF Memory
<1>7. Arg(k) \in Value /\ Arg(k).type # "frame"
  BY <1>1, <1>2, <1>5, <1>6, TypesNow DEF Arg, NoFrames
<1> QED BY <1>5, <1>6, <1>7, ValueFields

\* The facts a step starts from.
LEMMA StepFacts ==
  ASSUME NEW d, NEW ops, StackInv(d), At(ops), Inst.op # "frame"
  PROVE  /\ Running /\ cycles' \in 0 .. CycleLimit /\ program' = program
         /\ Inst.op \in ops /\ PreValid
         /\ pc \in DOMAIN d /\ pc \in Nat /\ At0(program, pc) = Inst /\ Stands(program, d, pc)
         /\ Takes(program, pc) <= d[pc].low
         /\ frame \in 0 .. (StackSize - 1) /\ frame <= top
         /\ Inst.a \in Nat /\ Inst.b \in Nat
         /\ d[pc].low \in Nat /\ Reserved(frame) \in Nat
<1>1. Running /\ cycles > 0 /\ cycles' = cycles - 1 /\ program' = program
      /\ Inst.op \in ops /\ PreValid
  BY DEF At
<1>2. pc \in DOMAIN d /\ frame \in 0 .. (StackSize - 1) /\ Chain(program, d, mem, frame)
  BY <1>1, FunctionRuns
<1>3. TypeOK /\ Disciplined(program, d)
  BY DEF StackInv
<1>4. /\ pc \in Nat /\ Stands(program, d, pc) /\ At0(program, pc) = Inst
      /\ Takes(program, pc) <= d[pc].low /\ d[pc].low \in Nat
      /\ Inst.a \in Nat /\ Inst.b \in Nat
  BY <1>2, <1>3, NotesTyped, InstAt
<1>5. Reserved(frame) \in Nat
  BY <1>2, <1>3, CountsNat DEF Reserved, CountsOf
<1>6. cycles' \in 0 .. CycleLimit /\ frame <= top
  BY <1>1, <1>3, TypesNow, LimitsAssumption
<1> QED BY <1>1, <1>2, <1>4, <1>5, <1>6

\* A program that ends leaves the stack well-typed.
LEMMA EndedStep ==
  ASSUME NEW d, StackInv(d), program' = program, cycles' \in 0 .. CycleLimit,
         NEW why \in Outcomes \ {"run"}, NEW val \in Value, Ends(why, val),
         frame <= top', top' \in -1 .. (StackSize + Behind - 1)
  PROVE  StackInv(d)'
<1>1. TypeOK /\ Disciplined(program, d)
  BY DEF StackInv
<1>2. mem' = mem /\ frame' = frame /\ pc' = pc /\ outcome' = [why |-> why, val |-> val]
  BY DEF Ends
<1>3. TypeOK'
  BY <1>1, <1>2, TypesNow DEF TypeOK
<1>4. ~Running'
  BY <1>2 DEF Running
<1> QED BY <1>1, <1>3, <1>4 DEF StackInv

-----------------------------------------------------------------------------
(* Operand instructions.                                                   *)

LEMMA PushStep ==
  ASSUME NEW d, StackInv(d), PushValue
  PROVE  StackInv(d)'
<1>1. At({"push"}) /\ Replaces(0, program.cons[Inst.a + 1])
  BY DEF PushValue
<1>2. Inst.op = "push"
  BY <1>1 DEF At
<1>3. pc \in Nat /\ At0(program, pc) = Inst /\ Inst.a + 1 \in DOMAIN program.cons
  BY <1>1, <1>2, StepFacts DEF Stands
<1>4. Takes(program, pc) = 0 /\ Exit(pc + 1, 1) \in Exits(program, d, pc)
  BY <1>2, <1>3 DEF Takes, Exits, Arith, Compare, Logic
<1>5. PICK v : v = program.cons[Inst.a + 1]
  OBVIOUS
<1>6. program.cons \in Seq(Value) /\ \A i \in DOMAIN program.cons : program.cons[i].type # "frame"
  BY DEF StackInv, Disciplined
<1>7. v \in Value /\ v.type # "frame"
  BY <1>3, <1>5, <1>6
<1>8. v = Pushed(program, pc + 1)
  BY <1>3, <1>5 DEF Pushed, Inst
<1>9. Replaces(0, v)
  BY <1>1, <1>5
<1> QED BY <1>1, <1>2, <1>4, <1>7, <1>8, <1>9, ReplaceStep

LEMMA RemainderInt ==
  ASSUME NEW a \in Int, NEW b \in Int, b # 0
  PROVE  Remainder(a, b) \in Int
<1>1. \A m \in Nat, n \in Nat \ {0} : m % n \in Nat
  OBVIOUS
<1>2. PICK m \in Nat : m = IF a < 0 THEN -a ELSE a
  OBVIOUS
<1>3. PICK n \in Nat \ {0} : n = IF b < 0 THEN -b ELSE b
  OBVIOUS
<1>4. Remainder(a, b) = IF a < 0 THEN -(m % n) ELSE a % n
  BY <1>2, <1>3 DEF Remainder
<1>5. a >= 0 => a = m
  BY <1>2
<1>6. m % n \in Int
  BY <1>1
<1> QED BY <1>4, <1>5, <1>6

LEMMA ArithmeticStep ==
  ASSUME NEW d, StackInv(d), Arithmetic
  PROVE  StackInv(d)'
<1> DEFINE n == CASE Inst.op = "add" -> Arg(1).num + Arg(2).num
                  [] Inst.op = "sub" -> Arg(1).num - Arg(2).num
                  [] Inst.op = "mul" -> Arg(1).num * Arg(2).num
                  [] Inst.op = "mod" -> Remainder(Arg(1).num, Arg(2).num)
<1>1. At(Arith) /\ Replaces(2, Num(n)) /\ ~(Inst.op = "mod" /\ Arg(2).num = 0)
  BY DEF Arithmetic
<1>2. Inst.op \in Arith
  BY <1>1 DEF At
<1>3. Inst.op # "frame" /\ Inst.op # "call" /\ Inst.op # "push"
  BY <1>2 DEF Arith
<1>4. Running /\ pc \in Nat /\ At0(program, pc) = Inst /\ Takes(program, pc) <= d[pc].low
  BY <1>1, <1>3, StepFacts
<1>5. Takes(program, pc) = 2 /\ Exit(pc + 1, 1) \in Exits(program, d, pc)
  BY <1>2, <1>4 DEF Takes, Exits, Arith, Compare, Logic
<1>6. d[pc].low \in Nat
  BY <1>1, <1>3, StepFacts
<1>7. Arg(1).num \in Int
  BY <1>3, <1>4, <1>5, <1>6, Operand
<1>8. Arg(2).num \in Int
  BY <1>3, <1>4, <1>5, <1>6, Operand
<1>9. Inst.op = "mod" => Remainder(Arg(1).num, Arg(2).num) \in Int
  BY <1>1, <1>7, <1>8, RemainderInt
<1>10. n \in Int
  BY <1>2, <1>7, <1>8, <1>9 DEF Arith
<1> HIDE DEF n
<1>11. Num(n) \in Value /\ Num(n).type # "frame"
  BY <1>10, Values
<1> QED BY <1>1, <1>3, <1>5, <1>11, ReplaceStep

LEMMA ComparisonStep ==
  ASSUME NEW d, StackInv(d), Comparison
  PROVE  StackInv(d)'
<1> DEFINE b == CASE Inst.op = "less"      -> Arg(1).num < Arg(2).num
                  [] Inst.op = "more"      -> Arg(1).num > Arg(2).num
                  [] Inst.op = "less-eq"   -> Arg(1).num <= Arg(2).num
                  [] Inst.op = "more-eq"   -> Arg(1).num >= Arg(2).num
                  [] Inst.op = "equal"     -> Arg(1).num = Arg(2).num
                  [] Inst.op = "not-equal" -> Arg(1).num # Arg(2).num
<1>1. At(Compare) /\ Replaces(2, Bool(b))
  BY DEF Comparison
<1>2. Inst.op \in Compare
  BY <1>1 DEF At
<1>3. Inst.op # "frame" /\ Inst.op # "call" /\ Inst.op # "push"
  BY <1>2 DEF Compare
<1>4. pc \in Nat /\ At0(program, pc) = Inst
  BY <1>1, <1>3, StepFacts
<1>5. Takes(program, pc) = 2 /\ Exit(pc + 1, 1) \in Exits(program, d, pc)
  BY <1>2, <1>4 DEF Takes, Exits, Arith, Compare, Logic
<1> HIDE DEF b
<1>6. Bool(b) \in Value /\ Bool(b).type # "frame"
  BY DEF Bool, Val, Value, Types
<1> QED BY <1>1, <1>3, <1>5, <1>6, ReplaceStep

LEMMA LogicalStep ==
  ASSUME NEW d, StackInv(d), Logical
  PROVE  StackInv(d)'
<1> DEFINE b == CASE Inst.op = "and" -> Arg(1).num = 1 /\ Arg(2).num = 1
                  [] Inst.op = "or"  -> Arg(1).num = 1 \/ Arg(2).num = 1
<1>1. At(Logic) /\ Replaces(2, Bool(b))
  BY DEF Logical
<1>2. Inst.op \in Logic
  BY <1>1 DEF At
<1>3. Inst.op # "frame" /\ Inst.op # "call" /\ Inst.op # "push"
  BY <1>2 DEF Logic
<1>4. pc \in Nat /\ At0(program, pc) = Inst
  BY <1>1, <1>3, StepFacts
<1>5. Takes(program, pc) = 2 /\ Exit(pc + 1, 1) \in Exits(program, d, pc)
  BY <1>2, <1>4 DEF Takes, Exits, Arith, Compare, Logic
<1> HIDE DEF b
<1>6. Bool(b) \in Value /\ Bool(b).type # "frame"
  BY DEF Bool, Val, Value, Types
<1> QED BY <1>1, <1>3, <1>5, <1>6, ReplaceStep

LEMMA UnaryStep ==
  ASSUME NEW d, StackInv(d), Unary
  PROVE  StackInv(d)'
<1>1. ASSUME NEW op \in {"neg", "not"}, NEW v, At({op}), Replaces(1, v),
             Arg(1).num \in Int => v \in Value /\ v.type # "frame"
      PROVE  StackInv(d)'
  <2>1. Inst.op = op /\ Inst.op # "frame" /\ Inst.op # "call" /\ Inst.op # "push"
    BY <1>1 DEF At
  <2>2. Running /\ pc \in Nat /\ At0(program, pc) = Inst /\ Takes(program, pc) <= d[pc].low
    BY <1>1, <2>1, StepFacts
  <2>3. Takes(program, pc) = 1 /\ Exit(pc + 1, 1) \in Exits(program, d, pc)
    BY <2>1, <2>2 DEF Takes, Exits, Arith, Compare, Logic
  <2>4. Arg(1).num \in Int
    BY <2>1, <2>2, <2>3, Operand
  <2> QED BY <1>1, <2>1, <2>3, <2>4, ReplaceStep
<1>2. CASE At({"neg"}) /\ Replaces(1, Num(-Arg(1).num))
  <2>1. PICK v : v = Num(-Arg(1).num)
    OBVIOUS
  <2>2. Arg(1).num \in Int => v \in Value /\ v.type # "frame"
    BY <2>1, Values
  <2>3. Replaces(1, v) /\ At({"neg"})
    BY <1>2, <2>1
  <2> QED BY <1>1, <2>2, <2>3
<1>3. CASE At({"not"}) /\ Replaces(1, Bool(Arg(1).num = 0))
  <2>1. PICK v : v = Bool(Arg(1).num = 0)
    OBVIOUS
  <2>2. v \in Value /\ v.type # "frame"
    BY <2>1, Values
  <2>3. Replaces(1, v) /\ At({"not"})
    BY <1>3, <2>1
  <2> QED BY <1>1, <2>2, <2>3
<1> QED BY <1>2, <1>3 DEF Unary

\* An instruction that changes no cell up to where it leaves the top.
LEMMA MoveStep ==
  ASSUME NEW d, NEW ops, StackInv(d), At(ops),
         Inst.op # "frame", Inst.op # "call", Inst.op # "push",
         NEW e \in Exits(program, d, pc), e.gives <= Takes(program, pc),
         Leaves(mem, top - Takes(program, pc) + e.gives, frame, e.to)
  PROVE  StackInv(d)'
<1>1. Running /\ pc \in Nat /\ At0(program, pc) = Inst
  BY StepFacts
<1>2. Takes(program, pc) \in Nat /\ e.gives \in Nat /\ Follows(program, d, pc, e)
  BY <1>1, ExitCounts
<1>3. TypeOK /\ NoFrames(mem, frame + 1, top)
  BY <1>1, FunctionRuns DEF StackInv
<1>4. PICK t \in Int : t = top - Takes(program, pc) + e.gives /\ t <= top
  BY <1>2, <1>3, TypesNow
<1>5. NoFrames(mem, frame + 1, t)
  BY <1>3, <1>4, TypesNow DEF NoFrames
<1>6. At0(program, e.to).op # "array"
  BY <1>1, <1>2 DEF Follows
<1>7. mem \in [Memory -> Value] /\ \A i \in 0 .. frame : mem[i] = mem[i]
  BY <1>3, TypesNow
<1> QED BY <1>4, <1>5, <1>6, <1>7, OrdinaryStep

LEMMA PopStep ==
  ASSUME NEW d, StackInv(d), Pop
  PROVE  StackInv(d)'
<1>1. ASSUME NEW op \in {"pop1", "pop2"}, NEW n \in {1, 2}, op = "pop1" <=> n = 1,
             At({op}), Leaves(mem, top - n, frame, pc + 1)
      PROVE  StackInv(d)'
  <2>1. Inst.op = op /\ Inst.op # "frame" /\ Inst.op # "call" /\ Inst.op # "push"
    BY <1>1 DEF At
  <2>2. pc \in Nat /\ At0(program, pc) = Inst /\ top \in Int
    BY <1>1, <2>1, StepFacts, TypesNow DEF StackInv
  <2>3. Takes(program, pc) = n /\ Exit(pc + 1, 0) \in Exits(program, d, pc)
    BY <1>1, <2>1, <2>2 DEF Takes, Exits, Arith, Compare, Logic
  <2>4. Exit(pc + 1, 0).to = pc + 1 /\ Exit(pc + 1, 0).gives = 0
    BY DEF Exit
  <2>5. top - n + 0 = top - n
    BY <2>2
  <2>6. Leaves(mem, top - Takes(program, pc) + Exit(pc + 1, 0).gives, frame, Exit(pc + 1, 0).to)
    BY <1>1, <2>3, <2>4, <2>5
  <2> QED BY <1>1, <2>1, <2>3, <2>4, <2>6, MoveStep
<1>2. CASE At({"pop1"}) /\ Leaves(mem, top - 1, frame, pc + 1)
  BY <1>1, <1>2
<1>3. CASE At({"pop2"}) /\ Leaves(mem, top - 2, frame, pc + 1)
  BY <1>1, <1>3
<1> QED BY <1>2, <1>3 DEF Pop

\* An instruction that leaves the operands it takes moved, and others above them:
\* those in m from frame + 1 on are operands or were there.
LEMMA SpreadStep ==
  ASSUME NEW d, NEW ops, StackInv(d), At(ops),
         Inst.op # "frame", Inst.op # "call", Inst.op # "push",
         NEW e \in Exits(program, d, pc),
         NEW m \in [Memory -> Value], NEW t \in Int,
         t = top - Takes(program, pc) + e.gives,
         NEW at \in (frame + 1) .. (top + 1),
         \A i \in Memory : i < at => m[i] = mem[i],
         \A i \in at .. t : m[i].type # "frame",
         Leaves(m, t, frame, e.to)
  PROVE  StackInv(d)'
<1>1. /\ Running /\ pc \in Nat /\ At0(program, pc) = Inst
      /\ frame \in 0 .. (StackSize - 1) /\ frame <= top
  BY StepFacts
<1>2. Follows(program, d, pc, e)
  BY <1>1, ExitCounts
<1>3. TypeOK /\ NoFrames(mem, frame + 1, top)
  BY <1>1, FunctionRuns DEF StackInv
<1>4. At0(program, e.to).op # "array"
  BY <1>1, <1>2 DEF Follows
<1>5. top \in Int /\ top <= StackSize + Behind - 1
  BY <1>3, TypesNow
<1>6. \A i \in 0 .. frame : i \in Memory /\ i < at
  BY <1>1, <1>5, LimitsAssumption DEF Memory
<1>7. ASSUME NEW i \in (frame + 1) .. t
      PROVE  m[i].type # "frame"
  <2>1. CASE i < at
    <3>1. i \in Memory /\ i \in (frame + 1) .. top
      BY <2>1, <1>1, <1>5, LimitsAssumption DEF Memory
    <3> QED BY <2>1, <3>1, <1>3 DEF NoFrames
  <2>2. CASE i >= at
    BY <2>2
  <2> QED BY <2>1, <2>2, <1>1, <1>5
<1>8. NoFrames(m, frame + 1, t)
  BY <1>7 DEF NoFrames
<1>9. \A i \in 0 .. frame : m[i] = mem[i]
  BY <1>6
<1> QED BY <1>4, <1>8, <1>9, OrdinaryStep

LEMMA DuplicateStep ==
  ASSUME NEW d, StackInv(d), Duplicate
  PROVE  StackInv(d)'
<1> top \in Int /\ mem \in [Memory -> Value]
  BY TypesNow DEF StackInv
<1>1. CASE At({"dup1"}) /\ Replaces(0, Arg(1))
  <2>1. Inst.op = "dup1" /\ Inst.op # "frame" /\ Inst.op # "call" /\ Inst.op # "push"
    BY <1>1 DEF At
  <2>2. /\ Running /\ pc \in Nat /\ At0(program, pc) = Inst /\ Takes(program, pc) <= d[pc].low
        /\ frame \in 0 .. (StackSize - 1) /\ frame <= top /\ d[pc].low \in Nat
    BY <1>1, <2>1, StepFacts
  <2>3. PICK e : e = Exit(pc + 1, 2)
    OBVIOUS
  <2>4. Takes(program, pc) = 1 /\ e \in Exits(program, d, pc) /\ e.to = pc + 1 /\ e.gives = 2
    BY <2>1, <2>2, <2>3 DEF Takes, Exits, Exit, Arith, Compare, Logic
  <2>5. Arg(1) \in Value /\ Arg(1).type # "frame"
    BY <2>1, <2>2, <2>4, Operand
  <2>6. PICK m : m = Set(top + 1, Arg(1))
    OBVIOUS
  <2>7. m \in [Memory -> Value] /\ \A i \in Memory : i < top + 1 => m[i] = mem[i]
    BY <2>5, <2>6, SetTyped DEF Set
  <2>8. top + 1 = top - Takes(program, pc) + e.gives
    BY <2>4
  <2>9. top + 1 \in Memory
    <3>1. Follows(program, d, pc, e) /\ top <= StackSize - 1 + d[pc].high /\ d[pc].high \in Nat
      BY <2>2, <2>4, ExitCounts, FunctionRuns, NotesTyped, <2>1 DEF StackInv
    <3>2. d[pc].high + 1 <= Behind
      BY <3>1, <2>4 DEF Follows
    <3>3. top + 1 >= 0
      BY <2>2
    <3> QED BY <3>1, <3>2, <3>3, PlaceFits
  <2>10. \A i \in (top + 1) .. (top + 1) : m[i].type # "frame"
    BY <2>5, <2>6, <2>9, SetTyped DEF Set
  <2>11. Leaves(m, top + 1, frame, e.to)
    BY <1>1, <2>4, <2>6 DEF Replaces
  <2>12. top + 1 \in (frame + 1) .. (top + 1)
    BY <2>2
  <2> QED BY <1>1, <2>1, <2>4, <2>7, <2>8, <2>10, <2>11, <2>12, SpreadStep
<1>2. CASE At({"dup2"}) /\ Leaves([mem EXCEPT ![top + 1] = Arg(2), ![top + 2] = Arg(1)],
                                  top + 2, frame, pc + 1)
  <2>1. Inst.op = "dup2" /\ Inst.op # "frame" /\ Inst.op # "call" /\ Inst.op # "push"
    BY <1>2 DEF At
  <2>2. /\ Running /\ pc \in Nat /\ At0(program, pc) = Inst /\ Takes(program, pc) <= d[pc].low
        /\ frame \in 0 .. (StackSize - 1) /\ frame <= top /\ d[pc].low \in Nat
    BY <1>2, <2>1, StepFacts
  <2>3. PICK e : e = Exit(pc + 1, 4)
    OBVIOUS
  <2>4. Takes(program, pc) = 2 /\ e \in Exits(program, d, pc) /\ e.to = pc + 1 /\ e.gives = 4
    BY <2>1, <2>2, <2>3 DEF Takes, Exits, Exit, Arith, Compare, Logic
  <2>5. Arg(1) \in Value /\ Arg(1).type # "frame"
    BY <2>1, <2>2, <2>4, Operand
  <2>6. Arg(2) \in Value /\ Arg(2).type # "frame"
    BY <2>1, <2>2, <2>4, Operand
  <2>7. PICK m : m = [mem EXCEPT ![top + 1] = Arg(2), ![top + 2] = Arg(1)]
    OBVIOUS
  <2>8. top + 1 \in Memory /\ top + 2 \in Memory
    <3>1. Follows(program, d, pc, e) /\ top <= StackSize - 1 + d[pc].high /\ d[pc].high \in Nat
      BY <2>2, <2>4, ExitCounts, FunctionRuns, NotesTyped, <2>1 DEF StackInv
    <3>2. d[pc].high + 2 <= Behind /\ d[pc].high + 1 <= Behind
      <4>1. d[pc].high - 2 + 4 <= Behind
        BY <3>1, <2>4 DEF Follows
      <4>2. Behind \in Int
        BY LimitsAssumption
      <4> QED BY <3>1, <4>1, <4>2
    <3>3. top + 1 >= 0 /\ top + 2 >= 0
      BY <2>2
    <3> QED BY <3>1, <3>2, <3>3, PlaceFits
  <2>9. m \in [Memory -> Value] /\ \A i \in Memory : i < top + 1 => m[i] = mem[i]
    <3>1. PICK n : n = [mem EXCEPT ![top + 1] = Arg(2)]
      OBVIOUS
    <3>2. n \in [Memory -> Value] /\ \A i \in Memory : i # top + 1 => n[i] = mem[i]
      BY <2>6, <3>1, SetTyped
    <3>3. m = [n EXCEPT ![top + 2] = Arg(1)]
      BY <2>7, <3>1
    <3>4. m \in [Memory -> Value] /\ \A i \in Memory : i # top + 2 => m[i] = n[i]
      BY <2>5, <3>2, <3>3, SetTyped
    <3>5. \A i \in Memory : i \in Int
      BY LimitsAssumption DEF Memory
    <3> QED BY <3>2, <3>4, <3>5
  <2>10. m[top + 1] = Arg(2) /\ m[top + 2] = Arg(1)
    BY <2>7, <2>8
  <2>11. top + 2 = top - Takes(program, pc) + e.gives
    BY <2>4
  <2>12. \A i \in (top + 1) .. (top + 2) : m[i].type # "frame"
    <3>1. \A i \in (top + 1) .. (top + 2) : i = top + 1 \/ i = top + 2
      OBVIOUS
    <3> QED BY <3>1, <2>5, <2>6, <2>10
  <2>13. Leaves(m, top + 2, frame, e.to)
    BY <1>2, <2>4, <2>7
  <2>14. top + 1 \in (frame + 1) .. (top + 1)
    BY <2>2
  <2> QED BY <1>2, <2>1, <2>4, <2>9, <2>11, <2>12, <2>13, <2>14, SpreadStep
<1> QED BY <1>1, <1>2 DEF Duplicate

LEMMA RotateStep ==
  ASSUME NEW d, StackInv(d), Rotate
  PROVE  StackInv(d)'
<1> top \in Int /\ mem \in [Memory -> Value]
  BY TypesNow DEF StackInv
<1>1. At({"rot2"}) /\ Leaves([mem EXCEPT ![top - 1] = Arg(1), ![top] = Arg(2)], top, frame, pc + 1)
  BY DEF Rotate
<1>2. Inst.op = "rot2" /\ Inst.op # "frame" /\ Inst.op # "call" /\ Inst.op # "push"
  BY <1>1 DEF At
<1>3. /\ Running /\ pc \in Nat /\ At0(program, pc) = Inst /\ Takes(program, pc) <= d[pc].low
      /\ frame \in 0 .. (StackSize - 1) /\ frame <= top /\ d[pc].low \in Nat
  BY <1>1, <1>2, StepFacts
<1>4. PICK e : e = Exit(pc + 1, 2)
  OBVIOUS
<1>5. Takes(program, pc) = 2 /\ e \in Exits(program, d, pc) /\ e.to = pc + 1 /\ e.gives = 2
  BY <1>2, <1>3, <1>4 DEF Takes, Exits, Exit, Arith, Compare, Logic
<1>6. Arg(1) \in Value /\ Arg(1).type # "frame" /\ top - 1 + 1 \in Memory
  BY <1>2, <1>3, <1>5, Operand
<1>7. Arg(2) \in Value /\ Arg(2).type # "frame" /\ top - 2 + 1 \in Memory
      /\ top - 2 + 1 \in (frame + 1) .. top
  BY <1>2, <1>3, <1>5, Operand
<1>8. PICK m : m = [mem EXCEPT ![top - 1] = Arg(1), ![top] = Arg(2)]
  OBVIOUS
<1>9. top \in Memory /\ top - 1 \in Memory /\ top - 1 \in (frame + 1) .. (top + 1)
  BY <1>3, <1>6, <1>7
<1>10. m \in [Memory -> Value] /\ \A i \in Memory : i < top - 1 => m[i] = mem[i]
  BY <1>6, <1>7, <1>8 DEF Memory
<1>11. m[top - 1] = Arg(1) /\ m[top] = Arg(2)
  BY <1>8, <1>9
<1>12. \A i \in (top - 1) .. top : m[i].type # "frame"
  <2>1. \A i \in (top - 1) .. top : i = top - 1 \/ i = top
    OBVIOUS
  <2> QED BY <2>1, <1>6, <1>7, <1>11
<1>13. top = top - Takes(program, pc) + e.gives /\ Leaves(m, top, frame, e.to)
  BY <1>1, <1>5, <1>8
<1> QED BY <1>1, <1>2, <1>5, <1>9, <1>10, <1>12, <1>13, SpreadStep

-----------------------------------------------------------------------------
(* Jumps, locals, arrays, host functions.                                  *)

LEMMA JumpStep ==
  ASSUME NEW d, StackInv(d), Jump
  PROVE  StackInv(d)'
<1>1. At({"jump"}) /\ Leaves(mem, top, frame, Inst.a)
  BY DEF Jump
<1>2. Inst.op = "jump" /\ Inst.op # "frame" /\ Inst.op # "call" /\ Inst.op # "push"
  BY <1>1 DEF At
<1>3. pc \in Nat /\ At0(program, pc) = Inst /\ top \in Int
  BY <1>1, <1>2, StepFacts, TypesNow DEF StackInv
<1>4. PICK e : e = Exit(Inst.a, 0)
  OBVIOUS
<1>5. Takes(program, pc) = 0 /\ e \in Exits(program, d, pc) /\ e.to = Inst.a /\ e.gives = 0
  BY <1>2, <1>3, <1>4 DEF Takes, Exits, Exit, Arith, Compare, Logic
<1>6. top - Takes(program, pc) + e.gives = top
  BY <1>3, <1>5
<1> QED BY <1>1, <1>2, <1>5, <1>6, MoveStep

LEMMA JumpIfFalseStep ==
  ASSUME NEW d, StackInv(d), JumpIfFalse
  PROVE  StackInv(d)'
<1>1. /\ At({"if-false"})
      /\ Leaves(mem, top - 1, frame, IF Arg(1).num = 0 THEN Inst.a ELSE pc + 1)
  BY DEF JumpIfFalse
<1>2. Inst.op = "if-false" /\ Inst.op # "frame" /\ Inst.op # "call" /\ Inst.op # "push"
  BY <1>1 DEF At
<1>3. pc \in Nat /\ At0(program, pc) = Inst /\ top \in Int
  BY <1>1, <1>2, StepFacts, TypesNow DEF StackInv
<1>4. PICK e : e = Exit(IF Arg(1).num = 0 THEN Inst.a ELSE pc + 1, 0)
  OBVIOUS
<1>5. /\ Takes(program, pc) = 1 /\ e \in Exits(program, d, pc) /\ e.gives = 0
      /\ e.to = IF Arg(1).num = 0 THEN Inst.a ELSE pc + 1
  BY <1>2, <1>3, <1>4 DEF Takes, Exits, Exit, Arith, Compare, Logic
<1>6. top - Takes(program, pc) + e.gives = top - 1
  BY <1>3, <1>5
<1> QED BY <1>1, <1>2, <1>5, <1>6, MoveStep

LEMMA StoreStep ==
  ASSUME NEW d, StackInv(d), StoreLocal
  PROVE  StackInv(d)'
<1>1. At({"store"}) /\ Leaves(Set(frame + 1 + Inst.a, Arg(1)), top - 1, frame, pc + 1)
  BY DEF StoreLocal
<1>2. Inst.op = "store" /\ Inst.op # "frame" /\ Inst.op # "call" /\ Inst.op # "push"
  BY <1>1 DEF At
<1>3. /\ Running /\ pc \in Nat /\ At0(program, pc) = Inst /\ Takes(program, pc) <= d[pc].low
      /\ frame \in 0 .. (StackSize - 1) /\ frame <= top /\ d[pc].low \in Nat /\ PreValid
      /\ Inst.a \in Nat /\ Reserved(frame) \in Nat
  BY <1>1, <1>2, StepFacts
<1>4. TypeOK /\ top \in Int /\ mem \in [Memory -> Value] /\ NoFrames(mem, frame + 1, top)
      /\ top <= StackSize + Behind - 1
  BY <1>2, <1>3, FunctionRuns, TypesNow DEF StackInv
<1>5. PICK e : e = Exit(pc + 1, 0)
  OBVIOUS
<1>6. Takes(program, pc) = 1 /\ e \in Exits(program, d, pc) /\ e.to = pc + 1 /\ e.gives = 0
  BY <1>2, <1>3, <1>5 DEF Takes, Exits, Exit, Arith, Compare, Logic
<1>7. Arg(1) \in Value /\ Arg(1).type # "frame" /\ top - 1 + 1 > frame + Reserved(frame)
  BY <1>2, <1>3, <1>6, Operand
<1>8. PICK at : at = frame + 1 + Inst.a
  OBVIOUS
<1>9. Inst.a < Reserved(frame)
  BY <1>2, <1>3 DEF PreValid
<1>10. at \in (frame + 1) .. top
  BY <1>3, <1>4, <1>7, <1>8, <1>9
<1>11. PICK m : m = Set(at, Arg(1))
  OBVIOUS
<1>12. /\ m \in [Memory -> Value] /\ \A j \in Memory : j # at => m[j] = mem[j]
       /\ at \in Memory => m[at] = Arg(1)
  BY <1>4, <1>7, <1>11, SetTyped DEF Set
<1>13. \A i \in at .. (top - 1) : m[i].type # "frame"
  <2>1. ASSUME NEW i \in at .. (top - 1)
        PROVE  m[i].type # "frame"
    <3>1. i \in Memory /\ i \in (frame + 1) .. top
      BY <1>3, <1>4, <1>10, LimitsAssumption DEF Memory
    <3> QED BY <3>1, <1>4, <1>7, <1>12 DEF NoFrames
  <2> QED BY <2>1
<1>14. \A i \in Memory : i < at => m[i] = mem[i]
  BY <1>10, <1>12 DEF Memory
<1>15. at \in (frame + 1) .. (top + 1) /\ top - 1 \in Int
  BY <1>3, <1>4, <1>10
<1>16. top - 1 = top - Takes(program, pc) + e.gives
  BY <1>4, <1>6
<1>17. Leaves(m, top - 1, frame, e.to)
  BY <1>1, <1>6, <1>8, <1>11
<1> QED BY <1>1, <1>2, <1>6, <1>12, <1>13, <1>14, <1>15, <1>16, <1>17, SpreadStep

LEMMA LoadStep ==
  ASSUME NEW d, StackInv(d), LoadLocal
  PROVE  StackInv(d)'
<1>1. At({"load"}) /\ Replaces(0, mem[frame + 1 + Inst.a])
  BY DEF LoadLocal
<1>2. Inst.op = "load" /\ Inst.op # "frame" /\ Inst.op # "call" /\ Inst.op # "push"
  BY <1>1 DEF At
<1>3. /\ Running /\ pc \in Nat /\ At0(program, pc) = Inst /\ pc \in DOMAIN d
      /\ frame \in 0 .. (StackSize - 1) /\ frame <= top /\ d[pc].low \in Nat /\ PreValid
      /\ Inst.a \in Nat /\ Reserved(frame) \in Nat
  BY <1>1, <1>2, StepFacts
<1>4. /\ top \in Int /\ mem \in [Memory -> Value] /\ NoFrames(mem, frame + 1, top)
      /\ top <= StackSize + Behind - 1 /\ top >= frame + Reserved(frame) + d[pc].low
  BY <1>2, <1>3, FunctionRuns, TypesNow DEF StackInv, Inside
<1>5. Takes(program, pc) = 0 /\ Exit(pc + 1, 1) \in Exits(program, d, pc)
  BY <1>2, <1>3 DEF Takes, Exits, Arith, Compare, Logic
<1>6. Inst.a < Reserved(frame)
  BY <1>2, <1>3 DEF PreValid
<1>7. frame + 1 + Inst.a \in (frame + 1) .. top
  BY <1>3, <1>4, <1>6
<1>8. frame + 1 + Inst.a \in Memory
  BY <1>3, <1>4, <1>7, LimitsAssumption DEF Memory
<1>9. PICK v : v = mem[frame + 1 + Inst.a]
  OBVIOUS
<1>10. v \in Value /\ v.type # "frame"
  BY <1>4, <1>7, <1>8, <1>9 DEF NoFrames
<1>11. Replaces(0, v)
  BY <1>1, <1>9
<1> QED BY <1>1, <1>2, <1>5, <1>10, <1>11, ReplaceStep

\* The count on top of the stack is the one pushed before: the elements are operands.
LEMMA MakeArrayStep ==
  ASSUME NEW d, StackInv(d), MakeArray
  PROVE  StackInv(d)'
<1>1. At({"array"})
  BY DEF MakeArray
<1>2. Inst.op = "array" /\ Inst.op # "frame" /\ Inst.op # "call" /\ Inst.op # "push"
  BY <1>1 DEF At
<1>3. /\ Running /\ pc \in Nat /\ At0(program, pc) = Inst /\ Takes(program, pc) <= d[pc].low
      /\ frame \in 0 .. (StackSize - 1) /\ frame <= top /\ d[pc].low \in Nat
      /\ program' = program /\ cycles' \in 0 .. CycleLimit
  BY <1>1, <1>2, StepFacts
<1>4. Arg(1) = Pushed(program, pc) /\ Arg(1).num \in Nat
  BY <1>2, <1>3 DEF StackInv
<1>5. PICK n \in Nat : n = Arg(1).num
  BY <1>4
<1>6. Takes(program, pc) = n + 1 /\ Exit(pc + 1, 1) \in Exits(program, d, pc)
  BY <1>2, <1>3, <1>4, <1>5 DEF Takes, Exits, Arith, Compare, Logic
<1>7. /\ TypeOK /\ top \in Int /\ top <= StackSize + Behind - 1
      /\ mem \in [Memory -> Value]
  BY TypesNow DEF StackInv
<1>8. PICK s : s = [i \in 1 .. n |-> mem[top - 1 - n + i].num]
  OBVIOUS
<1>9. ASSUME NEW i \in 1 .. n
      PROVE  mem[top - 1 - n + i].num \in Int
  <2>1. n + 2 - i \in Nat \ {0} /\ n + 2 - i <= d[pc].low
    BY <1>3, <1>6
  <2>2. Arg(n + 2 - i).num \in Int
    BY <1>2, <1>3, <2>1, Operand
  <2>3. top - (n + 2 - i) + 1 = top - 1 - n + i
    BY <1>7
  <2> QED BY <2>2, <2>3 DEF Arg
<1>10. s \in Seq(Int)
  BY <1>8, <1>9
<1>11. Arr(s) \in Value /\ Arr(s).type # "frame"
  BY <1>10, Values
<1>12. CASE Replaces(n + 1, Arr(s))
  BY <1>1, <1>2, <1>6, <1>11, <1>12, ReplaceStep
<1>13. CASE Ends("oom", Num(-1005)) /\ top' = top - 1
  <2>4. 1 <= d[pc].low
    BY <1>3, <1>5, <1>6
  <2>1. top - 1 + 1 \in (frame + 1) .. top
    BY <1>2, <1>3, <2>4, Operand
  <2>2. frame <= top' /\ top' \in -1 .. (StackSize + Behind - 1)
    BY <1>3, <1>7, <1>13, <2>1, LimitsAssumption
  <2>3. Num(-1005) \in Value /\ "oom" \in Outcomes \ {"run"}
    BY Values DEF Outcomes
  <2> QED BY <1>3, <1>13, <2>2, <2>3, EndedStep
<1>14. Replaces(n + 1, Arr(s)) \/ (Ends("oom", Num(-1005)) /\ top' = top - 1)
  BY <1>5, <1>8 DEF MakeArray
<1> QED BY <1>12, <1>13, <1>14

LEMMA ArrayLengthStep ==
  ASSUME NEW d, StackInv(d), ArrayLength
  PROVE  StackInv(d)'
<1>1. At({"len"}) /\ Replaces(1, Num(Len(Arg(1).items)))
  BY DEF ArrayLength
<1>2. Inst.op = "len" /\ Inst.op # "frame" /\ Inst.op # "call" /\ Inst.op # "push"
  BY <1>1 DEF At
<1>3. /\ Running /\ pc \in Nat /\ At0(program, pc) = Inst /\ Takes(program, pc) <= d[pc].low
      /\ d[pc].low \in Nat
  BY <1>1, <1>2, StepFacts
<1>4. Takes(program, pc) = 1 /\ Exit(pc + 1, 1) \in Exits(program, d, pc)
  BY <1>2, <1>3 DEF Takes, Exits, Arith, Compare, Logic
<1>5. Arg(1).items \in Seq(Int)
  BY <1>2, <1>3, <1>4, Operand
<1>6. PICK v : v = Num(Len(Arg(1).items))
  OBVIOUS
<1>7. Len(Arg(1).items) \in Int
  BY <1>5
<1>8. v \in Value /\ v.type # "frame"
  BY <1>6, <1>7, Values
<1>9. Replaces(1, v)
  BY <1>1, <1>6
<1> QED BY <1>1, <1>2, <1>4, <1>8, <1>9, ReplaceStep

LEMMA MakeIterStep ==
  ASSUME NEW d, StackInv(d), MakeIter
  PROVE  StackInv(d)'
<1>1. At({"iter"}) /\ Replaces(1, Iter(Arg(1).items))
  BY DEF MakeIter
<1>2. Inst.op = "iter" /\ Inst.op # "frame" /\ Inst.op # "call" /\ Inst.op # "push"
  BY <1>1 DEF At
<1>3. /\ Running /\ pc \in Nat /\ At0(program, pc) = Inst /\ Takes(program, pc) <= d[pc].low
      /\ d[pc].low \in Nat
  BY <1>1, <1>2, StepFacts
<1>4. Takes(program, pc) = 1 /\ Exit(pc + 1, 1) \in Exits(program, d, pc)
  BY <1>2, <1>3 DEF Takes, Exits, Arith, Compare, Logic
<1>5. Arg(1).items \in Seq(Int)
  BY <1>2, <1>3, <1>4, Operand
<1>6. PICK v : v = Iter(Arg(1).items)
  OBVIOUS
<1>7. v \in Value /\ v.type # "frame"
  BY <1>5, <1>6, Values
<1>8. Replaces(1, v)
  BY <1>1, <1>6
<1> QED BY <1>1, <1>2, <1>4, <1>7, <1>8, ReplaceStep

LEMMA IterNextStep ==
  ASSUME NEW d, StackInv(d), IterNext
  PROVE  StackInv(d)'
<1>1. At({"iter-next"})
  BY DEF IterNext
<1>2. Inst.op = "iter-next" /\ Inst.op # "frame" /\ Inst.op # "call" /\ Inst.op # "push"
  BY <1>1 DEF At
<1>3. /\ Running /\ pc \in DOMAIN d /\ pc \in Nat /\ At0(program, pc) = Inst
      /\ Takes(program, pc) <= d[pc].low
      /\ frame \in 0 .. (StackSize - 1) /\ frame <= top /\ d[pc].low \in Nat
      /\ program' = program /\ cycles' \in 0 .. CycleLimit
  BY <1>1, <1>2, StepFacts
<1>4. /\ top \in Int /\ mem \in [Memory -> Value] /\ top <= StackSize + Behind - 1
      /\ top <= StackSize - 1 + d[pc].high /\ Disciplined(program, d)
  BY <1>3, TypesNow DEF StackInv
<1>5. Takes(program, pc) = 1
  BY <1>2, <1>3 DEF Takes, Arith, Compare, Logic
<1>6. PICK none : none = Exit(Inst.a, 0)
  OBVIOUS
<1>7. PICK one : one = Exit(pc + 1, 2)
  OBVIOUS
<1>8. /\ none \in Exits(program, d, pc) /\ one \in Exits(program, d, pc)
      /\ none.to = Inst.a /\ none.gives = 0 /\ one.to = pc + 1 /\ one.gives = 2
  BY <1>2, <1>3, <1>6, <1>7 DEF Exits, Exit, Arith, Compare, Logic
<1>9. CASE Leaves(mem, top - 1, frame, Inst.a)
  <2>1. top - 1 = top - Takes(program, pc) + none.gives
    BY <1>4, <1>5, <1>8
  <2> QED BY <1>1, <1>2, <1>5, <1>8, <1>9, <2>1, MoveStep
<1>10. CASE /\ Arg(1).items # <<>>
            /\ Leaves([mem EXCEPT ![top] = Iter(Tail(Arg(1).items)),
                                  ![top + 1] = Num(Head(Arg(1).items))],
                      top + 1, frame, pc + 1)
  <2>1. Arg(1).items \in Seq(Int) /\ top - 1 + 1 \in (frame + 1) .. top
    BY <1>2, <1>3, <1>5, Operand
  <2>2. PICK s : s = Tail(Arg(1).items)
    OBVIOUS
  <2>3. PICK x : x = Head(Arg(1).items)
    OBVIOUS
  <2>4. s \in Seq(Int) /\ x \in Int
    BY <1>10, <2>1, <2>2, <2>3
  <2>5. Iter(s) \in Value /\ Iter(s).type # "frame" /\ Num(x) \in Value /\ Num(x).type # "frame"
    BY <2>4, Values
  <2>6. PICK n : n = [mem EXCEPT ![top] = Iter(s)]
    OBVIOUS
  <2>7. PICK m : m = [n EXCEPT ![top + 1] = Num(x)]
    OBVIOUS
  <2>8. top \in Memory /\ top + 1 \in Memory
    <3>1. Follows(program, d, pc, one) /\ d[pc].high \in Nat
      BY <1>3, <1>4, <1>8, ExitCounts, NotesTyped
    <3>2. d[pc].high - 1 + 2 <= Behind
      BY <3>1, <1>5, <1>8 DEF Follows
    <3>3. Behind \in Int
      BY LimitsAssumption
    <3>4. d[pc].high + 0 <= Behind /\ d[pc].high + 1 <= Behind
      BY <3>1, <3>2, <3>3
    <3>5. top + 0 >= 0 /\ top + 1 >= 0 /\ top + 0 = top
      BY <1>3, <1>4
    <3>6. top + 0 \in Memory
      BY ONLY <1>4, <3>1, <3>4, <3>5, PlaceFits
    <3>7. top + 1 \in Memory
      BY ONLY <1>4, <3>1, <3>4, <3>5, PlaceFits
    <3> QED BY <3>5, <3>6, <3>7
  <2>9. n \in [Memory -> Value] /\ n[top] = Iter(s) /\ \A i \in Memory : i # top => n[i] = mem[i]
    BY <1>4, <2>5, <2>6, <2>8, SetTyped
  <2>10. m \in [Memory -> Value] /\ m[top + 1] = Num(x)
         /\ \A i \in Memory : i # top + 1 => m[i] = n[i]
    BY <2>5, <2>7, <2>8, <2>9, SetTyped
  <2>11. \A i \in Memory : i < top => m[i] = mem[i]
    <3>1. \A i \in Memory : i \in Int
      BY LimitsAssumption DEF Memory
    <3> QED BY <3>1, <1>4, <2>9, <2>10
  <2>12. \A i \in top .. (top + 1) : m[i].type # "frame"
    <3>1. \A i \in top .. (top + 1) : i = top \/ i = top + 1
      BY <1>4
    <3>2. m[top] = Iter(s)
      BY <1>4, <2>8, <2>9, <2>10
    <3> QED BY <3>1, <3>2, <2>5, <2>10
  <2>13. Leaves(m, top + 1, frame, one.to)
    BY <1>8, <1>10, <2>2, <2>3, <2>6, <2>7
  <2>14. top + 1 = top - Takes(program, pc) + one.gives /\ top + 1 \in Int
    BY <1>4, <1>5, <1>8
  <2>15. top \in (frame + 1) .. (top + 1)
    BY <1>3, <1>4, <2>1
  <2> QED BY <1>1, <1>2, <1>8, <2>10, <2>11, <2>12, <2>13, <2>14, <2>15, SpreadStep
<1>11. CASE Ends("misread", None) /\ UNCHANGED top
  <2>1. frame <= top' /\ top' \in -1 .. (StackSize + Behind - 1)
    BY <1>3, <1>4, <1>11
  <2>2. None \in Value /\ "misread" \in Outcomes \ {"run"}
    BY Values DEF Outcomes
  <2> QED BY <1>3, <1>11, <2>1, <2>2, EndedStep
<1> QED BY <1>9, <1>10, <1>11 DEF IterNext

LEMMA CallNativeStep ==
  ASSUME NEW d, StackInv(d), CallNative
  PROVE  StackInv(d)'
<1>1. At({"native"})
  BY DEF CallNative
<1>2. Inst.op = "native" /\ Inst.op # "frame" /\ Inst.op # "call" /\ Inst.op # "push"
  BY <1>1 DEF At
<1>3. /\ pc \in Nat /\ At0(program, pc) = Inst /\ Inst.a \in Nat /\ top \in Int
  BY <1>1, <1>2, StepFacts, TypesNow DEF StackInv
<1>4. Takes(program, pc) = Inst.a /\ Exit(pc + 1, Inst.b) \in Exits(program, d, pc)
  BY <1>2, <1>3 DEF Takes, Exits, Arith, Compare, Logic
<1>5. CASE Inst.b = 0 /\ Leaves(mem, top - Inst.a, frame, pc + 1)
  <2>1. PICK e : e = Exit(pc + 1, 0)
    OBVIOUS
  <2>2. e \in Exits(program, d, pc) /\ e.to = pc + 1 /\ e.gives = 0
    BY <1>4, <1>5, <2>1 DEF Exit
  <2>3. top - Inst.a = top - Takes(program, pc) + e.gives /\ e.gives <= Takes(program, pc)
    BY <1>3, <1>4, <2>2
  <2> QED BY <1>1, <1>2, <1>5, <2>2, <2>3, MoveStep
<1>6. ASSUME NEW x \in Answers, Inst.b = 1, Replaces(Inst.a, Num(x))
      PROVE  StackInv(d)'
  <2>1. Num(x) \in Value /\ Num(x).type # "frame"
    BY Values, LimitsAssumption
  <2> QED BY <1>1, <1>2, <1>4, <1>6, <2>1, ReplaceStep
<1> QED BY <1>5, <1>6 DEF CallNative

-----------------------------------------------------------------------------
(* Ends.                                                                   *)

LEMMA EndSteps ==
  ASSUME NEW d, StackInv(d), Trap \/ Stop \/ OutOfCycles \/ Refuse
  PROVE  StackInv(d)'
<1>1. /\ top \in Int /\ top <= StackSize + Behind - 1 /\ top >= -1 /\ frame <= top
      /\ cycles \in 0 .. CycleLimit
  BY TypesNow DEF StackInv
<1>2. ASSUME NEW why \in Outcomes \ {"run"}, NEW val \in Value, Ends(why, val), UNCHANGED top,
             program' = program, cycles' \in 0 .. CycleLimit
      PROVE  StackInv(d)'
  <2>1. frame <= top' /\ top' \in -1 .. (StackSize + Behind - 1)
    BY <1>1, <1>2
  <2> QED BY <1>2, <2>1, EndedStep
<1>3. ASSUME cycles > 0
      PROVE  cycles - 1 \in 0 .. CycleLimit
  BY <1>1, <1>3, LimitsAssumption
<1>4. CASE Trap
  <2>1. /\ Ends("trap", None) /\ UNCHANGED top /\ program' = program
        /\ cycles' \in 0 .. CycleLimit
    BY <1>3, <1>4 DEF Trap, At
  <2>2. None \in Value /\ "trap" \in Outcomes \ {"run"}
    BY Values DEF Outcomes
  <2> QED BY <1>2, <2>1, <2>2
<1>5. CASE Stop
  <2>1. /\ At({"halt", "exit", "print"}) /\ UNCHANGED top
        /\ Ends(Inst.op, Num(CASE Inst.op = "halt"  -> -1002
                               [] Inst.op = "exit"  -> Inst.a
                               [] Inst.op = "print" -> -1003))
    BY <1>5 DEF Stop
  <2>2. Inst.op \in {"halt", "exit", "print"}
    BY <2>1 DEF At
  <2>3. program' = program /\ cycles' \in 0 .. CycleLimit /\ Inst.a \in Int
    BY <2>1, <2>2, StepFacts
  <2>4. PICK n : n = CASE Inst.op = "halt"  -> -1002
                       [] Inst.op = "exit"  -> Inst.a
                       [] Inst.op = "print" -> -1003
    OBVIOUS
  <2>5. n \in Int
    BY <2>2, <2>3, <2>4
  <2>6. Num(n) \in Value /\ Inst.op \in Outcomes \ {"run"}
    BY <2>2, <2>5, Values DEF Outcomes
  <2>7. Ends(Inst.op, Num(n))
    BY <2>1, <2>4
  <2> QED BY <1>2, <2>1, <2>3, <2>6, <2>7
<1>6. CASE OutOfCycles
  <2>1. Num(-1004) \in Value /\ "cycles" \in Outcomes \ {"run"}
    BY Values DEF Outcomes
  <2> QED BY <1>1, <1>2, <1>6, <2>1 DEF OutOfCycles
<1>7. CASE Refuse
  <2>1. Num(-9999) \in Value /\ "invalid" \in Outcomes \ {"run"}
    BY Values DEF Outcomes
  <2>2. /\ Ends("invalid", Num(-9999)) /\ UNCHANGED top /\ program' = program
        /\ cycles' \in 0 .. CycleLimit
    BY <1>3, <1>7 DEF Refuse
  <2> QED BY <1>2, <2>1, <2>2
<1> QED BY <1>4, <1>5, <1>6, <1>7

-----------------------------------------------------------------------------
(* Calls.                                                                  *)

\* A call pushes the address behind it; the function of the callee is still to make
\* its frame.
LEMMA CallStep ==
  ASSUME NEW d, StackInv(d), Call
  PROVE  StackInv(d)'
<1>1. At({"call"}) /\ Leaves(Set(top + 1, Num(pc + 1)), top + 1, frame, Inst.a)
  BY DEF Call
<1>2. Inst.op = "call" /\ Inst.op # "frame" /\ Inst.op \in Checked
  BY <1>1 DEF At, Checked
<1>3. /\ Running /\ pc \in DOMAIN d /\ pc \in Nat /\ At0(program, pc) = Inst
      /\ Takes(program, pc) <= d[pc].low /\ Stands(program, d, pc)
      /\ frame \in 0 .. (StackSize - 1) /\ frame <= top /\ d[pc].low \in Nat
      /\ program' = program /\ cycles' \in 0 .. CycleLimit
      /\ Reserved(frame) \in Nat
  BY <1>1, <1>2, StepFacts
<1>4. /\ TypeOK /\ top \in Int /\ mem \in [Memory -> Value] /\ top <= StackSize + Behind - 1
      /\ top <= StackSize - 1 + d[pc].high /\ Disciplined(program, d)
      /\ outcome.why \in Outcomes /\ outcome.val \in Value
  BY <1>3, TypesNow DEF StackInv
<1>5. /\ NoFrames(mem, frame + 1, top) /\ Chain(program, d, mem, frame)
      /\ d[pc].fun = FunctionOf(program, mem, frame)
      /\ top >= frame + Reserved(frame) + d[pc].low
  BY <1>2, <1>3, FunctionRuns DEF Inside
<1>6. /\ Inst.a \in DOMAIN d /\ At0(program, Inst.a).op = "frame" /\ d[pc].high + 1 <= Behind
  BY <1>2, <1>3 DEF Stands
<1>7. PICK e : e = Exit(pc + 1, d[Inst.a].result)
  OBVIOUS
<1>8. /\ Takes(program, pc) = At0(program, Inst.a).a
      /\ e \in Exits(program, d, pc) /\ e.to = pc + 1 /\ e.gives = d[Inst.a].result
  BY <1>2, <1>3, <1>7 DEF Takes, Exits, Exit, Arith, Compare, Logic
<1>9. Follows(program, d, pc, e)
  BY <1>3, <1>8, ExitCounts
<1>10. /\ pc + 1 \in DOMAIN d /\ d[pc + 1].fun = d[pc].fun
       /\ d[pc + 1].low <= d[pc].low - At0(program, Inst.a).a + d[Inst.a].result
  BY <1>8, <1>9 DEF Follows
<1>11. /\ d[pc].high \in Nat /\ d[Inst.a].high \in Nat /\ d[Inst.a].result \in Nat
       /\ At0(program, Inst.a).a \in Nat /\ d[pc + 1].low \in Nat /\ Inst.a \in Nat
  BY <1>3, <1>4, <1>6, <1>10, NotesTyped
<1>12. PICK m : m = Set(top + 1, Num(pc + 1))
  OBVIOUS
<1>13. top + 1 \in Memory /\ top + 1 <= StackSize + Behind - 1
  <2>1. top + 1 <= StackSize + Behind - 1
    BY <1>4, <1>6, <1>11, LimitsAssumption
  <2> QED BY <2>1, <1>3, <1>4, LimitsAssumption DEF Memory
<1>14. Num(pc + 1) \in Value /\ Num(pc + 1).type # "frame" /\ Num(pc + 1).num = pc + 1
  BY <1>3, Values
<1>15. /\ m \in [Memory -> Value] /\ m[top + 1] = Num(pc + 1)
       /\ \A i \in Memory : i # top + 1 => m[i] = mem[i]
  BY <1>4, <1>12, <1>13, <1>14, SetTyped DEF Set
<1>16. /\ mem' = m /\ top' = top + 1 /\ frame' = frame /\ pc' = Inst.a
       /\ outcome' = IF ~StackValid(m, top + 1, frame)
                     THEN [why |-> "invalid", val |-> Num(-9999)] ELSE outcome
  BY <1>1, <1>2, <1>12 DEF Leaves
<1>17. TypeOK'
  <2>1. outcome'.why \in Outcomes /\ outcome'.val \in Value
    BY <1>4, <1>16, Values DEF Outcomes
  <2>2. top' \in -1 .. (StackSize + Behind - 1) /\ frame' \in -1 .. top'
    BY <1>3, <1>4, <1>13, <1>16
  <2> QED BY <1>3, <1>11, <1>15, <1>16, <2>1, <2>2 DEF TypeOK
<1>18. ASSUME Running'
       PROVE  /\ pc' \in DOMAIN d
              /\ top' <= StackSize - 1 + d[pc'].high
              /\ Inst'.op = "frame"
              /\ Calling(d)'
  <2>1. StackValid(m, top + 1, frame)
    BY <1>16, <1>18 DEF Running
  <2>2. top + 1 <= StackSize - 1 + d[Inst.a].high
    BY <2>1, <1>4, <1>11, LimitsAssumption DEF StackValid
  <2>3. Inst' = At0(program, Inst.a)
    BY <1>3, <1>16 DEF Inst, At0
  <2>4. Arg(1)' = m[top + 1]
    BY <1>4, <1>16 DEF Arg
  <2>5. \A i \in 0 .. frame : m[i] = mem[i]
    <3>1. \A i \in 0 .. frame : i \in Memory /\ i # top + 1
      BY <1>3, <1>4, <1>13, LimitsAssumption DEF Memory
    <3> QED BY <3>1, <1>15
  <2>6. Chain(program, d, m, frame)
    BY <1>3, <1>5, <2>5, ChainKept
  <2>7. NoFrames(m, frame + 1, top + 1)
    <3>1. ASSUME NEW i \in (frame + 1) .. (top + 1)
          PROVE  m[i].type # "frame"
      <4>1. CASE i = top + 1
        BY <4>1, <1>14, <1>15
      <4>2. CASE i # top + 1
        <5>1. i \in Memory /\ i \in (frame + 1) .. top
          BY <4>2, <1>3, <1>4, LimitsAssumption DEF Memory
        <5> QED BY <4>2, <5>1, <1>5, <1>15 DEF NoFrames
      <4> QED BY <4>1, <4>2
    <3> QED BY <3>1 DEF NoFrames
  <2>8. m[frame] = mem[frame] /\ CountsOf(m, frame) = Reserved(frame)
        /\ FunctionOf(program, m, frame) = d[pc].fun
    BY <1>3, <1>5, <2>5 DEF CountsOf, Reserved, FunctionOf
  <2>9. PICK i \in Int : i = top + 1 - At0(program, Inst.a).a
    BY <1>4, <1>11
  <2>10. pc + 1 - 1 = pc /\ program.inst[pc + 1] = Inst
    BY <1>3 DEF Inst
  <2>11. Resumes(program, d, m, frame, i, pc + 1)
    <3>1. frame + CountsOf(m, frame) < i
      BY <1>3, <1>4, <1>5, <1>8, <1>11, <2>8, <2>9
    <3>2. frame + CountsOf(m, frame) + d[pc + 1].low <= i - 1 + d[Inst.a].result
      BY <1>3, <1>4, <1>5, <1>8, <1>10, <1>11, <2>8, <2>9
    <3> QED BY <1>2, <1>3, <1>10, <2>8, <2>10, <3>1, <3>2 DEF Resumes
  <2>12. Entering(d)'
    <3>1. Inst'.op = "frame" /\ top' - Inst'.a = i
      <4>1. Inst'.op = "frame"
        BY <1>6, <2>3
      <4>2. Inst'.a = At0(program, Inst.a).a /\ top' = top + 1
        BY <1>16, <2>3
      <4>3. top' \in Int /\ At0(program, Inst.a).a \in Int
        BY <1>4, <1>11, <1>16
      <4>4. top' - At0(program, Inst.a).a = i
        BY <1>4, <2>9, <4>2, <4>3
      <4> QED BY <4>1, <4>2, <4>4
    <3>2. Arg(1)' = Num(pc + 1) /\ Arg(1)'.num = pc + 1
      BY <1>14, <1>15, <2>4
    <3>3. program'.inst[Arg(1)'.num].a = pc'
      BY <1>3, <1>16, <2>10, <3>2
    <3>4. Resumes(program', d, mem', frame', top' - Inst'.a, Arg(1)'.num)
      BY <1>3, <1>16, <2>11, <3>1, <3>2
    <3> QED BY <3>1, <3>2, <3>3, <3>4 DEF Entering
  <2> QED BY <1>3, <1>6, <1>16, <2>2, <2>3, <2>6, <2>7, <2>12 DEF Calling
<1> QED BY <1>3, <1>4, <1>17, <1>18 DEF StackInv

LEMMA RemainderSmaller ==
  ASSUME NEW a \in Nat
  PROVE  a % Byte \in Nat /\ a % Byte <= a
BY LimitsAssumption

LEMMA FrameValue ==
  ASSUME NEW ret \in Int, NEW a \in Nat, NEW b \in Nat
  PROVE  /\ FrameVal(ret, a, b) \in Value
         /\ FrameVal(ret, a, b).type = "frame" /\ FrameVal(ret, a, b).num = ret
         /\ FrameVal(ret, a, b).items = <<a % Byte, b % Byte>>
<1>1. a % Byte \in Int /\ b % Byte \in Int
  BY RemainderSmaller
<1> QED BY <1>1 DEF FrameVal, Val, Value, Types

\* The memory that OP_MAKE_FRAME leaves: the frame is put at start, below the a
\* arguments, and b locals are put above them.
Framed(m, start, ret, a, b) ==
  [i \in Memory |->
     CASE i = start -> FrameVal(ret, a, b)
       [] i \in (start + 1) .. (start + a) -> m[i - 1]
       [] i \in (start + a + 1) .. (start + a + b) -> None
       [] OTHER -> m[i]]

LEMMA FramedMemory ==
  ASSUME NEW m \in [Memory -> Value], NEW start \in Nat, NEW ret \in Int,
         NEW a \in Nat, NEW b \in Nat, start + a \in Memory, NoFrames(m, start, start + a)
  PROVE  /\ Framed(m, start, ret, a, b) \in [Memory -> Value]
         /\ Framed(m, start, ret, a, b)[start] = FrameVal(ret, a, b)
         /\ \A i \in 0 .. (start - 1) : Framed(m, start, ret, a, b)[i] = m[i]
         /\ start + a + b \in Memory =>
              NoFrames(Framed(m, start, ret, a, b), start + 1, start + a + b)
<1> DEFINE M == Framed(m, start, ret, a, b)
<1>1. start \in Memory
  BY LimitsAssumption DEF Memory
<1>2. FrameVal(ret, a, b) \in Value
  BY FrameValue
<1>3. \A i \in (start + 1) .. (start + a) : i - 1 \in Memory /\ i - 1 \in start .. (start + a)
  BY LimitsAssumption DEF Memory
<1>4. M[start] = FrameVal(ret, a, b)
  BY <1>1 DEF Framed
<1>5. ASSUME NEW i \in Memory, i \in (start + 1) .. (start + a)
      PROVE  M[i] = m[i - 1]
  <2>1. i # start
    BY <1>5
  <2> QED BY <1>5, <2>1 DEF Framed
<1>6. ASSUME NEW i \in Memory, i \in (start + a + 1) .. (start + a + b)
      PROVE  M[i] = None
  <2>1. i # start /\ i \notin (start + 1) .. (start + a)
    BY <1>6
  <2> QED BY <1>6, <2>1 DEF Framed
<1>7. ASSUME NEW i \in Memory, i # start, i \notin (start + 1) .. (start + a),
             i \notin (start + a + 1) .. (start + a + b)
      PROVE  M[i] = m[i]
  BY <1>7 DEF Framed
<1>8. M = [i \in Memory |-> M[i]]
  BY DEF Framed
<1> HIDE DEF M
<1>9. \A i \in Memory : M[i] \in Value
  BY <1>2, <1>3, <1>4, <1>5, <1>6, <1>7, Values
<1>10. M \in [Memory -> Value]
  BY <1>8, <1>9
<1>11. ASSUME NEW i \in 0 .. (start - 1)
       PROVE  M[i] = m[i]
  <2>1. /\ i \in Memory /\ i # start /\ i \notin (start + 1) .. (start + a)
        /\ i \notin (start + a + 1) .. (start + a + b)
    BY <1>1, LimitsAssumption DEF Memory
  <2> QED BY <2>1, <1>7
<1>12. ASSUME start + a + b \in Memory, NEW i \in (start + 1) .. (start + a + b)
       PROVE  M[i].type # "frame"
  <2>1. i \in Memory
    BY <1>12, LimitsAssumption DEF Memory
  <2>2. CASE i \in (start + 1) .. (start + a)
    BY <2>1, <2>2, <1>3, <1>5 DEF NoFrames
  <2>3. CASE i \in (start + a + 1) .. (start + a + b)
    BY <2>1, <2>3, <1>6, Values
  <2> QED BY <2>2, <2>3
<1> QED BY <1>4, <1>10, <1>11, <1>12 DEF NoFrames, M

\* OP_MAKE_FRAME puts a frame under the arguments that the entry point or a call left
\* there, for the function it begins.
LEMMA MakeFrameStep ==
  ASSUME NEW d, StackInv(d), MakeFrame
  PROVE  StackInv(d)'
<1>1. /\ At({"frame"})
      /\ Leaves(Framed(mem, top - Inst.a, Arg(1).num, Inst.a, Inst.b),
                top - Inst.a + Inst.a + Inst.b, top - Inst.a, pc + 1)
  BY DEF MakeFrame, Framed
<1>2. Inst.op = "frame" /\ Inst.op \in Checked /\ Running /\ cycles > 0
      /\ cycles' = cycles - 1 /\ program' = program
  BY <1>1 DEF At, Checked
<1>3. /\ TypeOK /\ top \in Int /\ mem \in [Memory -> Value] /\ top <= StackSize + Behind - 1
      /\ top <= StackSize - 1 + d[pc].high /\ Disciplined(program, d)
      /\ outcome.why \in Outcomes /\ outcome.val \in Value
      /\ pc \in DOMAIN d /\ pc \in Nat
      /\ cycles \in 0 .. CycleLimit
  BY <1>2, TypesNow DEF StackInv
<1>4. /\ At0(program, pc) = Inst /\ Inst.a \in Nat /\ Inst.b \in Nat /\ Stands(program, d, pc)
      /\ d[pc].high \in Nat
  BY <1>3, NotesTyped, InstAt
<1>5. d[pc].fun = pc /\ d[pc].low = 0 /\ d[pc].high + Inst.b <= Behind
  BY <1>2, <1>4 DEF Stands
<1>6. PICK e : e = Exit(pc + 1, 0)
  OBVIOUS
<1>7. /\ Takes(program, pc) = 0
      /\ e \in Exits(program, d, pc) /\ e.to = pc + 1 /\ e.gives = 0
  BY <1>2, <1>4, <1>6 DEF Takes, Exits, Exit, Arith, Compare, Logic
<1>8. Follows(program, d, pc, e)
  BY <1>2, <1>7, ExitCounts
<1>9. /\ pc + 1 \in DOMAIN d /\ d[pc + 1].fun = pc /\ d[pc + 1].low <= 0
      /\ At0(program, pc + 1).op # "frame" /\ At0(program, pc + 1).op # "array"
  BY <1>2, <1>4, <1>5, <1>7, <1>8 DEF Follows
<1>10. d[pc + 1].low \in Nat /\ d[pc + 1].high \in Nat
  BY <1>3, <1>9, NotesTyped
<1>11. PICK start \in Int : start = top - Inst.a
  BY <1>3, <1>4
<1>12. start + Inst.a = top /\ Arg(1) = mem[top]
  <2>1. top - 1 + 1 = top
    BY <1>3
  <2> QED BY <2>1, <1>3, <1>4, <1>11 DEF Arg
<1>13. Starting \/ (Calling(d) /\ Entering(d))
  BY <1>2 DEF StackInv, Calling, Inside
<1>14. start \in Nat /\ top \in Memory /\ NoFrames(mem, start, top)
  <2>1. CASE Starting
    <3>1. Inst.a = Len(program.args) /\ top = Len(program.args)
      BY <2>1, <1>3, <1>4 DEF Starting, Disciplined
    <3>2. start = 0
      BY <1>3, <1>11, <3>1
    <3> QED BY <2>1, <3>1, <3>2, <1>3, <1>4 DEF Starting, Memory
  <2>2. CASE Calling(d) /\ Entering(d)
    <3>1. /\ frame \in Nat /\ NoFrames(mem, frame + 1, top) /\ Chain(program, d, mem, frame)
          /\ frame + CountsOf(mem, frame) < start
      BY <2>2, <1>11 DEF Calling, Entering, Resumes
    <3>2. CountsOf(mem, frame) \in Nat
      BY <1>3, <3>1, CountsNat
    <3>3. start \in (frame + 1) .. top /\ start \in Nat
      BY <1>3, <1>4, <1>11, <3>1, <3>2
    <3>4. NoFrames(mem, start, top)
      BY <3>1, <3>3 DEF NoFrames
    <3>5. top \in Memory
      BY <1>3, <3>1, <3>3 DEF Memory
    <3> QED BY <3>3, <3>4, <3>5
  <2> QED BY <1>13, <2>1, <2>2
<1>15. PICK ret \in Int : ret = Arg(1).num
  BY <1>3, <1>12, <1>14, ValueFields
<1>16. PICK m : m = Framed(mem, start, ret, Inst.a, Inst.b)
  OBVIOUS
<1>17. PICK t \in Int : t = top + Inst.b
  BY <1>3, <1>4
<1>18. t = start + Inst.a + Inst.b /\ t \in Memory /\ t >= start /\ t \in -1 .. (StackSize + Behind - 1)
  <2>1. t <= StackSize + Behind - 1
    BY <1>3, <1>4, <1>5, <1>17, LimitsAssumption
  <2>2. t >= top /\ top >= start
    BY <1>3, <1>4, <1>11, <1>17
  <2>3. t = start + Inst.a + Inst.b
    BY <1>3, <1>4, <1>11, <1>17
  <2> QED BY <1>14, <2>1, <2>2, <2>3, LimitsAssumption DEF Memory
<1>19. /\ m \in [Memory -> Value] /\ m[start] = FrameVal(ret, Inst.a, Inst.b)
       /\ \A i \in 0 .. (start - 1) : m[i] = mem[i]
       /\ NoFrames(m, start + 1, t)
  <2>1. start + Inst.a \in Memory /\ NoFrames(mem, start, start + Inst.a)
    BY <1>12, <1>14
  <2>2. start + Inst.a + Inst.b \in Memory
    BY <1>18
  <2>3. mem \in [Memory -> Value] /\ start \in Nat /\ Inst.a \in Nat /\ Inst.b \in Nat
    BY <1>3, <1>4, <1>14
  <2>4. /\ m \in [Memory -> Value] /\ m[start] = FrameVal(ret, Inst.a, Inst.b)
        /\ \A i \in 0 .. (start - 1) : m[i] = mem[i]
        /\ NoFrames(m, start + 1, start + Inst.a + Inst.b)
    <3>1. ret \in Int
      OBVIOUS
    <3>2. /\ Framed(mem, start, ret, Inst.a, Inst.b) \in [Memory -> Value]
          /\ Framed(mem, start, ret, Inst.a, Inst.b)[start] = FrameVal(ret, Inst.a, Inst.b)
          /\ \A i \in 0 .. (start - 1) : Framed(mem, start, ret, Inst.a, Inst.b)[i] = mem[i]
          /\ start + Inst.a + Inst.b \in Memory =>
               NoFrames(Framed(mem, start, ret, Inst.a, Inst.b), start + 1, start + Inst.a + Inst.b)
      BY ONLY <2>1, <2>3, <3>1, FramedMemory, Zenon
    <3> QED BY ONLY <1>16, <2>2, <3>2, Zenon
  <2> QED BY <1>18, <2>4
<1>20. /\ m[start].type = "frame" /\ m[start].num = ret
       /\ m[start].items = <<Inst.a % Byte, Inst.b % Byte>>
  <2>1. /\ FrameVal(ret, Inst.a, Inst.b).type = "frame"
        /\ FrameVal(ret, Inst.a, Inst.b).num = ret
        /\ FrameVal(ret, Inst.a, Inst.b).items = <<Inst.a % Byte, Inst.b % Byte>>
    BY DEF FrameVal, Val
  <2> QED BY <1>19, <2>1
<1>21. /\ mem' = m /\ top' = t /\ frame' = start /\ pc' = pc + 1
       /\ outcome' = IF ~StackValid(m, t, start)
                     THEN [why |-> "invalid", val |-> Num(-9999)] ELSE outcome
  <2>1. Leaves(m, t, start, pc + 1)
    BY <1>1, <1>11, <1>15, <1>16, <1>18
  <2> QED BY <2>1, <1>2 DEF Leaves
<1>22. TypeOK'
  <2>1. outcome'.why \in Outcomes /\ outcome'.val \in Value
    BY <1>3, <1>21, Values DEF Outcomes
  <2>2. top' \in -1 .. (StackSize + Behind - 1) /\ frame' \in -1 .. top'
    BY <1>14, <1>18, <1>21
  <2>3. cycles' \in 0 .. CycleLimit /\ pc' \in Nat
    BY <1>2, <1>3, <1>21, LimitsAssumption
  <2> QED BY <1>19, <1>21, <2>1, <2>2, <2>3 DEF TypeOK
<1>23. Made(program, m, start, pc)
  BY <1>2, <1>4, <1>20 DEF Made
<1>24. Chain(program, d, m, start) /\ FunctionOf(program, m, start) = pc
  <2>1. CASE Starting
    <3>1. start = 0 /\ ret = -1 /\ pc = program.entry
      <4>1. Inst.a = Len(program.args) /\ top = Len(program.args)
        BY <2>1, <1>3, <1>4 DEF Starting, Disciplined
      <4>2. start = 0
        BY <1>3, <1>11, <4>1
      <4>3. Num(-1).num = -1
        BY Values
      <4> QED BY <2>1, <4>2, <4>3, <1>12, <1>15 DEF Starting
    <3> QED BY <3>1, <1>20, <1>23 DEF Chain, FunctionOf
  <2>2. CASE Calling(d) /\ Entering(d)
    <3>1. /\ frame \in Nat /\ NoFrames(mem, frame + 1, top) /\ Chain(program, d, mem, frame)
          /\ Resumes(program, d, mem, frame, start, ret) /\ program.inst[ret].a = pc
      BY <2>2, <1>11, <1>15 DEF Calling, Entering
    <3>2. frame + CountsOf(mem, frame) < start /\ CountsOf(mem, frame) \in Nat
      BY <1>3, <3>1, CountsNat DEF Resumes
    <3>3. frame < start /\ \A i \in 0 .. frame : m[i] = mem[i]
      BY <1>19, <3>1, <3>2
    <3>4. Chain(program, d, m, frame) /\ m[frame] = mem[frame]
      BY <3>1, <3>3, ChainKept
    <3>5. \A h \in (frame + 1) .. (start - 1) : m[h].type # "frame"
      <4>1. \A h \in (frame + 1) .. (start - 1) : h \in (frame + 1) .. top /\ h \in 0 .. (start - 1)
        BY <1>3, <1>4, <1>11, <3>1
      <4> QED BY <4>1, <1>19, <3>1 DEF NoFrames
    <3>6. Resumes(program, d, m, frame, start, m[start].num)
      BY <1>20, <3>1, <3>4 DEF Resumes, FunctionOf, CountsOf
    <3>7. Awaits(program, d, m, frame, start)
      BY <1>20, <1>23, <3>1, <3>4, <3>5, <3>6 DEF Awaits, Chain
    <3>8. Chain(program, d, m, start)
      BY <1>14, <1>20, <3>1, <3>3, <3>4, <3>7, ChainUp
    <3>9. FunctionOf(program, m, start) = pc
      BY <1>20, <3>1, <3>3 DEF FunctionOf
    <3> QED BY <3>8, <3>9
  <2> QED BY <1>13, <2>1, <2>2
<1>25. ASSUME Running'
       PROVE  /\ pc' \in DOMAIN d
              /\ top' <= StackSize - 1 + d[pc'].high
              /\ Inst'.op # "array"
              /\ Calling(d)'
  <2>1. StackValid(m, t, start)
    BY <1>21, <1>25 DEF Running
  <2>2. t <= StackSize - 1 + d[pc + 1].high /\ start \in 0 .. (StackSize - 1)
    BY <2>1, <1>10, <1>14, <1>18, LimitsAssumption DEF StackValid
  <2>3. Inst' = At0(program, pc + 1)
    BY <1>2, <1>21 DEF Inst, At0
  <2>4. CountsOf(m, start) <= Inst.a + Inst.b /\ CountsOf(m, start) \in Nat
    BY <1>4, <1>20, RemainderSmaller DEF CountsOf
  <2>5. Reserved(frame)' = CountsOf(m, start)
    BY <1>21 DEF Reserved, CountsOf
  <2>6. t >= start + CountsOf(m, start) + d[pc + 1].low
    BY <1>4, <1>9, <1>10, <1>14, <1>18, <2>4
  <2>7. Inside(d)'
    BY <1>2, <1>9, <1>21, <1>24, <2>3, <2>5, <2>6 DEF Inside
  <2> QED BY <1>2, <1>9, <1>19, <1>21, <1>24, <2>2, <2>3, <2>7 DEF Calling
<1> QED BY <1>2, <1>3, <1>22, <1>25 DEF StackInv

-----------------------------------------------------------------------------
(* Returns.                                                                *)

\* The entry point's frame, and no other, ends the program when it returns.
LEMMA OutermostIsLowest ==
  ASSUME NEW d, StackInv(d), Running, Inst.op # "frame"
  PROVE  Outermost <=> frame = 0
<1>1. frame \in Nat /\ Chain(program, d, mem, frame) /\ Disciplined(program, d)
  BY FunctionRuns DEF StackInv
<1>2. CASE frame = 0
  BY <1>1, <1>2 DEF Outermost, Chain
<1>3. CASE frame # 0
  <2>1. PICK j \in 0 .. (frame - 1) : Awaits(program, d, mem, j, frame)
    BY <1>1, <1>3, ChainDown
  <2>2. mem[frame].num \in DOMAIN d
    BY <2>1 DEF Awaits, Resumes
  <2>3. mem[frame].num \in Nat
    BY <1>1, <2>2, NotesTyped
  <2> QED BY <1>1, <1>3, <2>3 DEF Outermost
<1> QED BY <1>2, <1>3

LEMMA OutermostStep ==
  ASSUME NEW d, NEW ops, StackInv(d), At(ops), Inst.op # "frame", Outermost,
         NEW val \in Value, Ends("return", val), top' = 0
  PROVE  StackInv(d)'
<1>1. Running /\ program' = program /\ cycles' \in 0 .. CycleLimit
  BY StepFacts
<1>2. frame = 0
  BY <1>1, OutermostIsLowest
<1>3. frame <= top' /\ top' \in -1 .. (StackSize + Behind - 1)
  BY <1>2, LimitsAssumption
<1>4. "return" \in Outcomes \ {"run"}
  BY DEF Outcomes
<1> QED BY <1>1, <1>3, <1>4, EndedStep

\* A call that returns leaves its caller with what the note behind the call promises.
LEMMA ReturnsStep ==
  ASSUME NEW d, StackInv(d), Running, ~Outermost,
         Inst.op \in {"return-value", "return-nothing"},
         program' = program, cycles' \in 0 .. CycleLimit,
         NEW v \in {<<>>, <<Arg(1)>>}, ReturnsWith(v),
         v = <<>> => d[pc].result = 0,
         v # <<>> => Arg(1) \in Value /\ Arg(1).type # "frame"
  PROVE  StackInv(d)'
<1>1. Inst.op # "frame" /\ Inst.op \notin Checked
  BY DEF Checked, Arith, Compare, Logic
<1>2. /\ pc \in DOMAIN d /\ frame \in 0 .. (StackSize - 1)
      /\ Chain(program, d, mem, frame) /\ NoFrames(mem, frame + 1, top) /\ Inside(d)
  BY <1>1, FunctionRuns
<1>3. /\ TypeOK /\ Disciplined(program, d) /\ mem \in [Memory -> Value] /\ top \in Int
      /\ frame <= top /\ top <= StackSize + Behind - 1
      /\ outcome.why \in Outcomes /\ outcome.val \in Value
  BY <1>2, TypesNow DEF StackInv
<1>4. frame # 0
  BY <1>1, OutermostIsLowest
<1>5. frame \in Nat \ {0}
  BY <1>2, <1>4
<1>6. PICK j \in 0 .. (frame - 1) : Awaits(program, d, mem, j, frame) /\ Chain(program, d, mem, j)
  BY <1>2, <1>5, ChainDown
<1>7. PICK r : r = mem[frame].num
  OBVIOUS
<1>8. /\ mem[j].type = "frame"
      /\ \A h \in (j + 1) .. (frame - 1) : mem[h].type # "frame"
      /\ Resumes(program, d, mem, j, frame, r)
  BY <1>6, <1>7 DEF Awaits
<1>9. /\ r - 1 \in DOMAIN d /\ r \in DOMAIN d /\ program.inst[r].op = "call"
      /\ d[r].fun = FunctionOf(program, mem, j)
      /\ j + CountsOf(mem, j) < frame
      /\ j + CountsOf(mem, j) + d[r].low <= frame - 1 + d[program.inst[r].a].result
  BY <1>8 DEF Resumes
<1>10. r \in Nat /\ r - 1 \in Nat /\ d[r].low \in Nat /\ d[r].high \in Nat
  BY <1>3, <1>9, NotesTyped
<1>11. At0(program, r - 1) = program.inst[r]
  BY <1>10 DEF At0
<1>12. At0(program, r).op # "frame" /\ At0(program, r).op # "array"
  <2>1. PICK e : e = Exit(r, d[program.inst[r].a].result)
    OBVIOUS
  <2>2. r - 1 + 1 = r
    BY <1>10
  <2>3. e \in Exits(program, d, r - 1) /\ e.to = r
    BY <1>9, <1>11, <2>1, <2>2 DEF Exits, Exit, Arith, Compare, Logic
  <2>4. Follows(program, d, r - 1, e)
    BY <1>3, <1>9, <2>3, ExitFollows
  <2> QED BY <1>9, <1>11, <2>3, <2>4 DEF Follows
<1>13. d[program.inst[r].a].result = d[pc].result /\ d[pc].result \in Nat
  <2>1. d[pc].fun = program.inst[r].a
    BY <1>2, <1>4, <1>7 DEF Inside, FunctionOf
  <2>2. d[d[pc].fun].result = d[pc].result
    BY <1>2, <1>3 DEF Disciplined
  <2>3. d[pc].result \in Nat
    BY <1>2, <1>3, NotesTyped
  <2> QED BY <2>1, <2>2, <2>3
<1>14. PICK m : m = IF v = <<>> THEN mem ELSE Set(frame, v[1])
  OBVIOUS
<1>15. PICK t \in Int : t = frame - 1 + Len(v)
  <2>1. CASE v = <<>>
    <3>1. frame - 1 + Len(v) \in Int
      BY <1>5, <2>1
    <3> QED BY <3>1
  <2>2. CASE v = <<Arg(1)>>
    <3>1. frame - 1 + Len(v) \in Int
      BY <1>5, <2>2
    <3> QED BY <3>1
  <2> QED BY <2>1, <2>2
<1>16. /\ t \in (frame - 1) .. frame
       /\ t >= frame - 1 + d[pc].result
       /\ m \in [Memory -> Value]
       /\ \A i \in 0 .. (frame - 1) : m[i] = mem[i]
       /\ t = frame => m[frame].type # "frame"
  <2>1. frame \in Memory
    BY <1>2, LimitsAssumption DEF Memory
  <2>2. \A i \in 0 .. (frame - 1) : i \in Memory /\ i # frame
    BY <1>2, LimitsAssumption DEF Memory
  <2>3. CASE v = <<>>
    <3>1. Len(v) = 0 /\ m = mem /\ d[pc].result = 0
      BY <1>14, <2>3
    <3>2. t = frame - 1
      BY <1>5, <1>15, <3>1
    <3> QED BY <1>3, <1>5, <3>1, <3>2
  <2>4. CASE v = <<Arg(1)>>
    <3>1. Len(v) = 1 /\ v # <<>> /\ v[1] = Arg(1)
      BY <2>4
    <3>2. m = Set(frame, Arg(1)) /\ Arg(1) \in Value /\ Arg(1).type # "frame"
      BY <1>14, <3>1
    <3>3. /\ m \in [Memory -> Value] /\ m[frame] = Arg(1)
          /\ \A i \in Memory : i # frame => m[i] = mem[i]
      BY <1>3, <2>1, <3>2, SetTyped DEF Set
    <3>4. t = frame
      BY <1>5, <1>15, <3>1
    <3>5. d[pc].result <= 1
      BY <1>2, <1>3, NotesTyped
    <3> QED BY <1>5, <1>13, <2>2, <3>2, <3>3, <3>4, <3>5
  <2> QED BY <2>3, <2>4
<1>17. m[j] = mem[j] /\ NoFrames(m, j + 1, t)
  <2>1. ASSUME NEW i \in (j + 1) .. t
        PROVE  m[i].type # "frame"
    <3>1. CASE i = frame
      BY <3>1, <1>5, <1>16
    <3>2. CASE i # frame
      <4>1. i \in (j + 1) .. (frame - 1) /\ i \in 0 .. (frame - 1)
        BY <3>2, <1>5, <1>16
      <4> QED BY <4>1, <1>8, <1>16
    <3> QED BY <3>1, <3>2
  <2> QED BY <2>1, <1>16 DEF NoFrames
<1>18. j \in 0 .. t /\ j \in Nat /\ j < frame
  BY <1>5, <1>16
<1>19. FrameBelow(m, t) = j
  BY <1>8, <1>17, <1>18, FrameBelowFinds
<1>20. mem' = m /\ top' = t /\ frame' = j /\ pc' = r /\ outcome' = outcome
  BY <1>1, <1>7, <1>14, <1>15, <1>19 DEF ReturnsWith, Leaves
<1>21. Chain(program, d, m, j)
  <2>1. \A i \in 0 .. j : m[i] = mem[i]
    BY <1>16, <1>18, <1>5
  <2> QED BY <1>6, <1>18, <2>1, ChainKept
<1>22. TypeOK'
  <2>1. top' \in -1 .. (StackSize + Behind - 1) /\ frame' \in -1 .. top'
    BY <1>2, <1>16, <1>18, <1>20, LimitsAssumption
  <2> QED BY <1>3, <1>10, <1>16, <1>20, <2>1 DEF TypeOK
<1>23. top' <= StackSize - 1 + d[pc'].high
  <2>1. StackSize \in Int /\ d[r].high \in Nat /\ t <= frame /\ frame <= StackSize - 1
    BY <1>2, <1>10, <1>16, LimitsAssumption
  <2>2. t <= StackSize - 1 + d[r].high
    BY <2>1, <1>2
  <2> QED BY <1>20, <2>2
<1>24. Inst' = At0(program, r)
  BY <1>20 DEF Inst, At0
<1>25. Inside(d)'
  <2>1. FunctionOf(program, m, j) = FunctionOf(program, mem, j)
    BY <1>17 DEF FunctionOf
  <2>2. Reserved(frame)' = CountsOf(mem, j) /\ CountsOf(mem, j) \in Nat
    BY <1>3, <1>6, <1>17, <1>18, <1>20, CountsNat DEF Reserved, CountsOf
  <2>3. t >= j + CountsOf(mem, j) + d[r].low
    BY <1>5, <1>9, <1>10, <1>13, <1>16, <1>18, <2>2
  <2> QED BY <1>9, <1>12, <1>20, <1>24, <2>1, <2>2, <2>3 DEF Inside
<1>26. Calling(d)'
  <2>1. j \in 0 .. (StackSize - 1)
    BY <1>2, <1>18, LimitsAssumption
  <2> QED BY <1>17, <1>20, <1>21, <1>25, <2>1 DEF Calling
<1> QED BY <1>3, <1>9, <1>12, <1>20, <1>22, <1>23, <1>24, <1>26 DEF StackInv

LEMMA ReturnStep ==
  ASSUME NEW d, StackInv(d), ReturnNothing \/ ReturnValue
  PROVE  StackInv(d)'
<1>1. CASE ReturnNothing
  <2>1. At({"return-nothing"})
    BY <1>1 DEF ReturnNothing
  <2>2. Inst.op = "return-nothing" /\ Inst.op # "frame"
    BY <2>1 DEF At
  <2>3. /\ Running /\ program' = program /\ cycles' \in 0 .. CycleLimit
        /\ At0(program, pc) = Inst /\ Stands(program, d, pc)
    BY <2>1, <2>2, StepFacts
  <2>4. d[pc].result = 0
    BY <2>2, <2>3 DEF Stands
  <2>5. CASE Outermost /\ Ends("return", None) /\ top' = 0
    BY <2>1, <2>2, <2>5, Values, OutermostStep
  <2>6. CASE ~Outermost /\ ReturnsWith(<<>>)
    BY <2>2, <2>3, <2>4, <2>6, ReturnsStep
  <2> QED BY <1>1, <2>5, <2>6 DEF ReturnNothing
<1>2. CASE ReturnValue
  <2>1. At({"return-value"})
    BY <1>2 DEF ReturnValue
  <2>2. Inst.op = "return-value" /\ Inst.op # "frame"
    BY <2>1 DEF At
  <2>3. /\ Running /\ program' = program /\ cycles' \in 0 .. CycleLimit
        /\ At0(program, pc) = Inst /\ Stands(program, d, pc) /\ pc \in DOMAIN d
        /\ d[pc].low \in Nat /\ Reserved(frame) \in Nat
    BY <2>1, <2>2, StepFacts
  <2>4. /\ frame \in 0 .. (StackSize - 1) /\ NoFrames(mem, frame + 1, top)
        /\ top >= frame + Reserved(frame) + d[pc].low
        /\ mem \in [Memory -> Value] /\ top \in Int /\ top <= StackSize + Behind - 1
        /\ Disciplined(program, d)
    BY <2>2, <2>3, FunctionRuns, TypesNow DEF StackInv, Inside
  <2>5. d[pc].low >= d[pc].result /\ d[pc].result \in Nat
    BY <2>2, <2>3, <2>4, NotesTyped DEF Stands
  <2>6. Arg(1) = mem[top] /\ top \in Memory
    <3>1. top - 1 + 1 = top /\ top \in Memory
      BY <2>3, <2>4, LimitsAssumption DEF Memory
    <3> QED BY <3>1 DEF Arg
  <2>7. Arg(1) \in Value
    BY <2>4, <2>6
  <2>8. CASE Outermost /\ Ends("return", Arg(1)) /\ top' = 0
    BY <2>1, <2>2, <2>7, <2>8, OutermostStep
  <2>9. CASE ~Outermost /\ top > frame + Reserved(frame) /\ ReturnsWith(<<Arg(1)>>)
    <3>1. Arg(1).type # "frame"
      <4>1. top \in (frame + 1) .. top
        BY <2>3, <2>4, <2>9
      <4> QED BY <2>4, <2>6, <4>1 DEF NoFrames
    <3>2. PICK v : v = <<Arg(1)>>
      OBVIOUS
    <3>3. v # <<>> /\ v \in {<<>>, <<Arg(1)>>} /\ ReturnsWith(v)
      BY <2>9, <3>2
    <3> QED BY <2>2, <2>3, <2>7, <2>9, <3>1, <3>3, ReturnsStep
  <2>10. CASE ~Outermost /\ ~(top > frame + Reserved(frame)) /\ ReturnsWith(<<>>)
    <3>1. d[pc].result = 0
      BY <2>3, <2>4, <2>5, <2>10
    <3> QED BY <2>2, <2>3, <2>10, <3>1, ReturnsStep
  <2> QED BY <1>2, <2>8, <2>9, <2>10 DEF ReturnValue
<1> QED BY <1>1, <1>2

-----------------------------------------------------------------------------
(* The invariant and what it implies.                                      *)

LEMMA HeapValue == HeapVal \in Value
BY DEF HeapVal, Val, Value, Types

LEMMA StackInvInit ==
  ASSUME NEW d, Init, Disciplined(program, d)
  PROVE  StackInv(d)
<1>1. /\ program.entry \in DOMAIN d /\ At0(program, program.entry).op = "frame"
      /\ Len(program.args) < StackSize
      /\ program.args \in Seq(Value)
      /\ \A i \in DOMAIN program.args : program.args[i].type # "frame"
  BY DEF Disciplined
<1>2. program.entry \in Nat /\ d[program.entry].high \in Nat
  BY <1>1, NotesTyped
<1>3. PICK n \in Nat : n = Len(program.args)
  BY <1>1
<1>4. n < StackSize /\ n \in Memory
  BY <1>1, <1>3, LimitsAssumption DEF Memory
<1>5. program.inst[program.entry + 1].op = "frame"
  BY <1>1 DEF At0
<1>6. /\ top = n - 1 + 1
      /\ mem = [i \in Memory |-> CASE i < n -> program.args[i + 1]
                                   [] i = n -> Num(-1)
                                   [] IsHeap(i) -> HeapVal
                                   [] OTHER -> None]
      /\ frame = -1 /\ pc = program.entry /\ cycles = CycleLimit
      /\ outcome = [why |-> "run", val |-> None]
  BY <1>3, <1>5 DEF Init
<1>7. top = n
  BY <1>6
<1>8. \A i \in 0 .. (n - 1) : program.args[i + 1] \in Value /\ program.args[i + 1].type # "frame"
  BY <1>1, <1>3, ElementOf
<1>9. ASSUME NEW i \in Memory
      PROVE  /\ mem[i] \in Value
             /\ i <= n => mem[i].type # "frame"
             /\ i = n => mem[i] = Num(-1)
  <2>1. i \in Nat
    BY LimitsAssumption DEF Memory
  <2>2. CASE i < n
    <3>1. mem[i] = program.args[i + 1] /\ i \in 0 .. (n - 1)
      BY <1>4, <1>6, <2>1, <2>2, LimitsAssumption DEF IsHeap
    <3> QED BY <3>1, <1>8, <2>2
  <2>3. CASE i = n
    <3>1. mem[i] = Num(-1)
      BY <1>4, <1>6, <2>1, <2>3, LimitsAssumption DEF IsHeap
    <3> QED BY <3>1, <2>3, Values
  <2>4. CASE i > n
    <3>1. mem[i] = HeapVal \/ mem[i] = None
      BY <1>6, <2>1, <2>4
    <3> QED BY <2>1, <2>4, <3>1, Values, HeapValue
  <2> QED BY <2>1, <2>2, <2>3, <2>4
<1>10. mem \in [Memory -> Value]
  <2>1. mem = [i \in Memory |-> mem[i]]
    BY <1>6
  <2> QED BY <2>1, <1>9
<1>11. TypeOK
  <2>1. top \in -1 .. (StackSize + Behind - 1) /\ frame \in -1 .. top
    BY <1>4, <1>6, <1>7, LimitsAssumption
  <2>2. cycles \in 0 .. CycleLimit
    BY <1>6, LimitsAssumption
  <2>3. outcome.why \in Outcomes /\ outcome.val \in Value
    BY <1>6, Values DEF Outcomes
  <2> QED BY <1>2, <1>6, <1>10, <2>1, <2>2, <2>3 DEF TypeOK
<1>12. Starting
  <2>1. \A i \in 0 .. n : i \in Memory
    BY <1>4, LimitsAssumption DEF Memory
  <2> QED BY <1>3, <1>4, <1>6, <1>7, <1>9, <2>1 DEF Starting, NoFrames
<1>13. top <= StackSize - 1 + d[pc].high /\ pc \in DOMAIN d
  BY <1>1, <1>2, <1>4, <1>6, <1>7, LimitsAssumption
<1>14. Inst.op # "array"
  BY <1>5, <1>6 DEF Inst
<1> QED BY <1>11, <1>12, <1>13, <1>14 DEF StackInv

LEMMA StackInvStep ==
  ASSUME NEW d, StackInv(d), [Next]_vars
  PROVE  StackInv(d)'
<1>1. CASE PushValue
  BY <1>1, PushStep
<1>2. CASE Pop
  BY <1>2, PopStep
<1>3. CASE Arithmetic
  BY <1>3, ArithmeticStep
<1>4. CASE Comparison
  BY <1>4, ComparisonStep
<1>5. CASE Logical
  BY <1>5, LogicalStep
<1>6. CASE Unary
  BY <1>6, UnaryStep
<1>7. CASE Duplicate
  BY <1>7, DuplicateStep
<1>8. CASE Rotate
  BY <1>8, RotateStep
<1>9. CASE Trap \/ Stop \/ OutOfCycles \/ Refuse
  BY <1>9, EndSteps
<1>10. CASE Jump
  BY <1>10, JumpStep
<1>11. CASE JumpIfFalse
  BY <1>11, JumpIfFalseStep
<1>12. CASE Call
  BY <1>12, CallStep
<1>13. CASE MakeFrame
  BY <1>13, MakeFrameStep
<1>14. CASE ReturnNothing \/ ReturnValue
  BY <1>14, ReturnStep
<1>15. CASE StoreLocal
  BY <1>15, StoreStep
<1>16. CASE LoadLocal
  BY <1>16, LoadStep
<1>17. CASE MakeArray
  BY <1>17, MakeArrayStep
<1>18. CASE ArrayLength
  BY <1>18, ArrayLengthStep
<1>19. CASE MakeIter
  BY <1>19, MakeIterStep
<1>20. CASE IterNext
  BY <1>20, IterNextStep
<1>21. CASE CallNative
  BY <1>21, CallNativeStep
<1>22. CASE UNCHANGED vars
  BY <1>22 DEF vars, StackInv, TypeOK, Running, Inst, Arg, Starting, Calling, Inside, Entering,
               Reserved
<1> QED BY <1>1, <1>2, <1>3, <1>4, <1>5, <1>6, <1>7, <1>8, <1>9, <1>10, <1>11, <1>12, <1>13,
           <1>14, <1>15, <1>16, <1>17, <1>18, <1>19, <1>20, <1>21, <1>22 DEF Next

\* In a program with notes the stack is the chain of its calls, the topmost of which
\* has the variables and operands that the note at the next instruction promises.
THEOREM StackKept ==
  ASSUME NEW CONSTANT d
  PROVE  Spec /\ Disciplined(program, d) => []StackInv(d)
<1>1. Init /\ Disciplined(program, d) => StackInv(d)
  BY StackInvInit
<1>2. StackInv(d) /\ [Next]_vars => StackInv(d)'
  BY StackInvStep
<1> QED BY <1>1, <1>2, PTL DEF Spec

\* The interpreter keeps inside the memory it has, and its registers inside the stack:
\* whatever a disciplined program does, no top, no frame and no address that
\* vm_execute goes on with is out of range.
THEOREM DisciplinedTypeCorrect ==
  ASSUME NEW CONSTANT d
  PROVE  Spec /\ Disciplined(program, d) => []TypeOK
<1>1. StackInv(d) => TypeOK
  BY DEF StackInv
<1> QED BY <1>1, StackKept, PTL

LEMMA FramesBelow ==
  ASSUME NEW d, StackInv(d), Running
  PROVE  \/ frame = -1 /\ Frames = {}
         \/ /\ Chain(program, d, mem, frame) /\ frame \in Nat
            /\ frame \in Frames /\ \A i \in Frames : i \in 0 .. frame
<1>1. top \in Int /\ frame <= top /\ (Starting \/ Calling(d))
  BY TypesNow DEF StackInv
<1>2. CASE Starting
  BY <1>2 DEF Starting, NoFrames, Frames
<1>3. CASE Calling(d)
  <2>1. /\ frame \in Nat /\ Chain(program, d, mem, frame) /\ NoFrames(mem, frame + 1, top)
        /\ top \in Int /\ frame <= top
    BY <1>3, TypesNow DEF Calling, StackInv
  <2>2. frame \in Frames
    BY <2>1 DEF Frames, Chain
  <2>3. \A i \in Frames : i \in 0 .. frame
    BY <2>1 DEF Frames, NoFrames
  <2> QED BY <2>1, <2>2, <2>3
<1> QED BY <1>1, <1>2, <1>3

\* The frame that OP_RETURN_* finds by its scan down the stack is always the caller's:
\* between the current frame and the top there is no other frame value.
THEOREM DisciplinedFrameTopmost ==
  ASSUME NEW CONSTANT d
  PROVE  Spec /\ Disciplined(program, d) => []FrameIsTopmost
<1>1. ASSUME StackInv(d), Running
      PROVE  /\ frame = -1 <=> Frames = {}
             /\ frame # -1 => frame \in Frames /\ \A i \in Frames : i <= frame
  BY <1>1, FramesBelow
<1>2. StackInv(d) => FrameIsTopmost
  BY <1>1 DEF FrameIsTopmost
<1> QED BY <1>2, StackKept, PTL

\* Every frame on the stack but the lowest returns behind an OP_CALL of the function
\* that made it and has that function's counts; the lowest ends vm_execute.
THEOREM DisciplinedCallChain ==
  ASSUME NEW CONSTANT d
  PROVE  Spec /\ Disciplined(program, d) => []CallChain
<1>1. ASSUME StackInv(d), Running, NEW i \in Frames
      PROVE  IF \E j \in Frames : j < i
             THEN /\ program.inst[mem[i].num].op = "call"
                  /\ MadeBy(i, program.inst[mem[i].num].a)
             ELSE mem[i].num = -1 /\ MadeBy(i, program.entry)
  <2>1. /\ Chain(program, d, mem, frame) /\ frame \in Nat /\ i \in 0 .. frame
        /\ \A j \in Frames : j \in 0 .. frame
    BY <1>1, FramesBelow
  <2>2. \A k : Made(program, mem, i, k) => MadeBy(i, k)
    BY DEF Made, MadeBy, At0
  <2>3. CASE i = 0
    <3>1. ~ \E j \in Frames : j < i
      BY <2>1, <2>3
    <3>2. mem[i].num = -1 /\ MadeBy(i, program.entry)
      BY <2>1, <2>2, <2>3 DEF Chain
    <3> QED BY <3>1, <3>2
  <2>4. CASE i # 0
    <3>1. i \in 1 .. frame /\ mem[i].type = "frame"
      BY <1>1, <2>1, <2>4 DEF Frames
    <3>2. PICK j \in 0 .. (i - 1) : Awaits(program, d, mem, j, i)
      BY <2>1, <3>1 DEF Chain
    <3>3. /\ mem[j].type = "frame" /\ program.inst[mem[i].num].op = "call"
          /\ MadeBy(i, program.inst[mem[i].num].a)
      BY <2>2, <3>2 DEF Awaits, Resumes
    <3>4. j \in Frames /\ j < i
      <4>1. i \in 0 .. top /\ top \in Int
        BY <1>1, TypesNow DEF Frames, StackInv
      <4> QED BY <3>2, <3>3, <4>1 DEF Frames
    <3> QED BY <3>3, <3>4
  <2> QED BY <2>3, <2>4
<1>2. StackInv(d) => CallChain
  BY <1>1 DEF CallChain
<1> QED BY <1>2, StackKept, PTL

-----------------------------------------------------------------------------
(* How functions are entered.                                              *)

\* Where a function goes on there is no function's beginning.
LEMMA ExitInside ==
  ASSUME NEW d, StackInv(d), Running, program' = program,
         NEW e \in Exits(program, d, pc), pc' = e.to
  PROVE  Inst'.op # "frame"
<1>1. At0(program, e.to).op # "frame"
  BY ExitCounts DEF Follows
<1> QED BY <1>1 DEF Inst, At0

Straight == Arith \union Compare \union Logic \union
            {"push", "load", "store", "neg", "not", "pop1", "pop2", "dup1", "dup2", "rot2",
             "array", "len", "iter", "native", "frame", "if-false", "iter-next"}

LEMMA StraightOn ==
  ASSUME NEW d, StackInv(d), NEW ops, ops \subseteq Straight, At(ops), pc' = pc + 1
  PROVE  Inst'.op # "frame"
<1>1. Running /\ Inst.op \in Straight /\ program' = program
  BY DEF At
<1>2. At0(program, pc) = Inst
  BY InstAt, TypesNow DEF StackInv
<1>3. PICK e \in Exits(program, d, pc) : e.to = pc + 1
  BY <1>1, <1>2 DEF Exits, Exit, Straight, Arith, Compare, Logic
<1> QED BY <1>1, <1>3, ExitInside

LEMMA JumpsOn ==
  ASSUME NEW d, StackInv(d), At({"jump", "if-false", "iter-next"}), pc' = Inst.a
  PROVE  Inst'.op # "frame"
<1>1. Running /\ Inst.op \in {"jump", "if-false", "iter-next"} /\ program' = program
  BY DEF At
<1>2. At0(program, pc) = Inst
  BY InstAt, TypesNow DEF StackInv
<1>3. PICK e \in Exits(program, d, pc) : e.to = Inst.a
  BY <1>1, <1>2 DEF Exits, Exit, Arith, Compare, Logic
<1> QED BY <1>1, <1>3, ExitInside

LEMMA ReturnsInside ==
  ASSUME NEW d, StackInv(d), Running, ~Outermost, Inst.op # "frame", program' = program,
         pc' = mem[frame].num
  PROVE  Inst'.op # "frame"
<1>1. frame \in Nat /\ Chain(program, d, mem, frame) /\ Disciplined(program, d)
  BY FunctionRuns DEF StackInv
<1>2. frame \in Nat \ {0}
  BY <1>1, OutermostIsLowest
<1>3. PICK j \in 0 .. (frame - 1) : Awaits(program, d, mem, j, frame)
  BY <1>1, <1>2, ChainDown
<1>4. PICK r : r = mem[frame].num
  OBVIOUS
<1>5. r - 1 \in DOMAIN d /\ r \in DOMAIN d /\ program.inst[r].op = "call"
  BY <1>3, <1>4 DEF Awaits, Resumes
<1>6. r \in Nat /\ r - 1 + 1 = r
  BY <1>1, <1>5, NotesTyped
<1>7. At0(program, r - 1) = program.inst[r]
  BY <1>6 DEF At0
<1>8. PICK e : e = Exit(r, d[program.inst[r].a].result)
  OBVIOUS
<1>9. e \in Exits(program, d, r - 1) /\ e.to = r
  BY <1>5, <1>6, <1>7, <1>8 DEF Exits, Exit, Arith, Compare, Logic
<1>10. At0(program, r).op # "frame"
  BY <1>1, <1>5, <1>9, ExitFollows DEF Follows
<1> QED BY <1>4, <1>10 DEF Inst, At0

LEMMA EnteredStep ==
  ASSUME NEW d, StackInv(d), EnteredByCall, [Next]_vars
  PROVE  EnteredByCall'
<1> SUFFICES ASSUME Running', Inst'.op = "frame"
             PROVE  lastOp' \in {"none", "call"}
  BY DEF EnteredByCall
<1>1. ASSUME NEW why, NEW val, why # "run", Ends(why, val)
      PROVE  FALSE
  BY <1>1 DEF Ends, Running
<1>2. CASE PushValue \/ Pop \/ Arithmetic \/ Comparison \/ Logical \/ Unary \/ Duplicate \/ Rotate
  <2>1. ASSUME NEW ops, ops \subseteq Straight, At(ops), NEW k, NEW v, Replaces(k, v)
        PROVE  FALSE
    BY <2>1, StraightOn DEF Replaces, Leaves
  <2>2. ASSUME NEW ops, ops \subseteq Straight, At(ops), NEW m, NEW t, Leaves(m, t, frame, pc + 1)
        PROVE  FALSE
    BY <2>2, StraightOn DEF Leaves
  <2> QED BY <1>2, <2>1, <2>2 DEF PushValue, Pop, Arithmetic, Comparison, Logical, Unary,
                                  Duplicate, Rotate, Straight
<1>3. CASE Jump \/ JumpIfFalse
  <2>1. /\ At({"jump"}) \/ At({"if-false"})
        /\ pc' = Inst.a \/ (At({"if-false"}) /\ pc' = pc + 1)
    BY <1>3 DEF Jump, JumpIfFalse, Leaves
  <2>2. At({"jump", "if-false", "iter-next"})
    BY <2>1 DEF At
  <2> QED BY <2>1, <2>2, JumpsOn, StraightOn DEF Straight
<1>4. CASE Trap \/ Stop
  <2>1. At({"halt", "exit", "print"}) => Inst.op # "run"
    BY DEF At
  <2> QED BY <1>1, <1>4, <2>1 DEF Trap, Stop
<1>5. CASE Call
  BY <1>5 DEF Call, At
<1>6. CASE MakeFrame
  <2>1. At({"frame"}) /\ pc' = pc + 1
    BY <1>6 DEF MakeFrame, Leaves
  <2> QED BY <2>1, StraightOn DEF Straight
<1>7. CASE ReturnNothing \/ ReturnValue
  <2>1. Running /\ Inst.op # "frame" /\ program' = program
    BY <1>7 DEF ReturnNothing, ReturnValue, At
  <2>2. ~Outermost /\ pc' = mem[frame].num
    BY <1>1, <1>7 DEF ReturnNothing, ReturnValue, ReturnsWith, Leaves
  <2> QED BY <2>1, <2>2, ReturnsInside
<1>8. CASE StoreLocal \/ LoadLocal \/ MakeArray \/ ArrayLength \/ MakeIter \/ CallNative
  <2>1. ASSUME NEW ops, ops \subseteq Straight, At(ops), NEW k, NEW v, Replaces(k, v)
        PROVE  FALSE
    BY <2>1, StraightOn DEF Replaces, Leaves
  <2>2. ASSUME NEW ops, ops \subseteq Straight, At(ops), NEW m, NEW t, Leaves(m, t, frame, pc + 1)
        PROVE  FALSE
    BY <2>2, StraightOn DEF Leaves
  <2> QED BY <1>1, <1>8, <2>1, <2>2 DEF StoreLocal, LoadLocal, MakeArray, ArrayLength, MakeIter,
                                        CallNative, Straight
<1>9. CASE IterNext
  <2>1. At({"iter-next"}) /\ (pc' = Inst.a \/ pc' = pc + 1)
    BY <1>1, <1>9 DEF IterNext, Leaves
  <2>2. At({"jump", "if-false", "iter-next"})
    BY <2>1 DEF At
  <2> QED BY <2>1, <2>2, JumpsOn, StraightOn DEF Straight
<1>10. CASE OutOfCycles \/ Refuse
  BY <1>1, <1>10 DEF OutOfCycles, Refuse
<1>11. CASE UNCHANGED vars
  BY <1>11 DEF vars, Running, Inst, EnteredByCall
<1> QED BY <1>2, <1>3, <1>4, <1>5, <1>6, <1>7, <1>8, <1>9, <1>10, <1>11 DEF Next

\* A function is entered by a call only, or as the program's entry point: no path
\* through a disciplined program runs on into the next function's code.
THEOREM DisciplinedEntered ==
  ASSUME NEW CONSTANT d
  PROVE  Spec /\ Disciplined(program, d) => []EnteredByCall
<1>1. Init => EnteredByCall
  BY DEF Init, EnteredByCall
<1>2. StackInv(d) /\ EnteredByCall /\ [Next]_vars => EnteredByCall'
  BY EnteredStep
<1> QED BY <1>1, <1>2, StackKept, PTL DEF Spec
=============================================================================
