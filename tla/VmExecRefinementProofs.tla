----------------------- MODULE VmExecRefinementProofs -----------------------
(***************************************************************************)
(* A disciplined program's calls keep out of one another: every step of    *)
(* VmExec is a step of Activations, in the cells that the frames cut out   *)
(* of the one stack.                                                       *)
(***************************************************************************)
EXTENDS VmExecProofs, VmExecRefinement, WellFoundedInduction, SequenceTheorems

-----------------------------------------------------------------------------
(* The cells of a call.                                                    *)

Descent == {ss \in Nat \X Nat : ss[1] < ss[2]}

LEMMA LeastNatural ==
  ASSUME NEW S, S \subseteq Nat, S # {}
  PROVE  \E a \in S : \A b \in S : a <= b
<1>1. IsWellFoundedOn(Descent, Nat)
  BY Zenon, NatLessThanWellFounded DEF OpToRel, Descent
<1>2. PICK a \in S : \A b \in S : <<b, a>> \notin Descent
  BY <1>1, WFMin, Zenon
<1>3. ASSUME NEW b \in S PROVE a <= b
  <2>1. a \in Nat /\ b \in Nat
    OBVIOUS
  <2>2. b < a => <<b, a>> \in Descent
    BY <2>1 DEF Descent
  <2> QED BY <2>1, <2>2, <1>2
<1> QED BY <1>3

\* There is one least frame above a call.
LEMMA ChooseAbove ==
  ASSUME NEW F, F \subseteq Nat, NEW i, NEW j \in F, j > i, \A h \in F : h > i => j <= h
  PROVE  (CHOOSE g \in F : g > i /\ \A h \in F : h > i => g <= h) = j
<1> DEFINE P(g) == g > i /\ \A h \in F : h > i => g <= h
<1>1. j \in F /\ P(j)
  OBVIOUS
<1>2. \A g \in F : P(g) => g = j
  <2> SUFFICES ASSUME NEW g \in F, P(g) PROVE g = j
    OBVIOUS
  <2>1. g <= j /\ j <= g
    OBVIOUS
  <2> QED BY <2>1
<1> HIDE DEF P
<1>3. (CHOOSE g \in F : P(g)) = j
  BY <1>1, <1>2
<1> QED BY <1>3 DEF P

\* What is known of the calls.
LEMMA CallsKnown ==
  ASSUME NEW d, StackInv(d), Running
  PROVE  /\ frame \in Int /\ frame >= -1 /\ top \in Int /\ frame <= top
         /\ top <= StackSize + Behind - 1
         /\ Frames \subseteq Nat /\ frame \in Calls
         /\ \A i \in Frames : i <= frame
         /\ \A i \in Calls : i \in Int /\ i >= -1 /\ i <= frame
         /\ \A i \in Calls : i # -1 => i \in Frames
<1>1. /\ frame \in Int /\ frame >= -1 /\ top \in Int /\ frame <= top
      /\ top <= StackSize + Behind - 1
  BY TypesNow, LimitsAssumption DEF StackInv
<1>2. Frames \subseteq Nat
  BY DEF Frames
<1>3. CASE frame = -1 /\ Frames = {}
  BY <1>1, <1>3 DEF Calls
<1>4. CASE frame \in Nat /\ frame \in Frames /\ \A i \in Frames : i \in 0 .. frame
  <2>1. \A i \in Frames : i <= frame /\ i \in Int /\ i >= -1
    BY <1>4
  <2>2. frame \in Calls
    BY <1>4 DEF Calls
  <2> QED BY <1>1, <1>2, <1>4, <2>1, <2>2 DEF Calls
<1> QED BY <1>3, <1>4, FramesBelow

\* The cells of a call: its variables lie above its frame, and under the frame of the
\* call it waits for.
LEMMA CallCells ==
  ASSUME NEW d, StackInv(d), Running, NEW i \in Calls, i # frame
  PROVE  \E j \in Frames :
           /\ j > i /\ \A h \in Frames : h > i => j <= h
           /\ j \in Nat /\ j <= frame
           /\ LastCell(i) = j - 1
           /\ LastVar(i) \in Int /\ i <= LastVar(i) /\ LastVar(i) <= j - 1
<1>1. /\ Frames \subseteq Nat /\ frame \in Int /\ i \in Int /\ i >= -1 /\ i < frame
      /\ i # -1 => i \in Frames
      /\ frame \in Frames
  BY CallsKnown
<1>2. PICK S : S = {h \in Frames : h > i}
  OBVIOUS
<1>3. S \subseteq Nat /\ frame \in S
  BY <1>1, <1>2
<1>4. PICK j \in S : \A h \in S : j <= h
  BY <1>3, LeastNatural
<1>5. j \in Frames /\ j > i /\ \A h \in Frames : h > i => j <= h
  BY <1>2, <1>4
<1>6. j \in Nat /\ j <= frame
  BY <1>1, <1>5
<1>7. LastCell(i) = j - 1
  <2>1. (CHOOSE g \in Frames : g > i /\ \A h \in Frames : h > i => g <= h) = j
    BY <1>1, <1>5, ChooseAbove
  <2> QED BY <1>5, <2>1 DEF LastCell, IsAbove
<1>8. LastVar(i) \in Int /\ i <= LastVar(i) /\ LastVar(i) <= j - 1
  <2>1. CASE i = -1
    BY <2>1, <1>6 DEF LastVar
  <2>2. CASE i # -1
    <3>1. /\ Chain(program, d, mem, frame) /\ frame \in Nat /\ Disciplined(program, d)
          /\ top \in Int /\ frame <= top
      BY <1>1, FramesBelow, CallsKnown DEF StackInv
    <3>2. i \in Nat /\ i \in 0 .. frame /\ mem[i].type = "frame"
      BY <1>1, <2>2 DEF Frames
    <3>3. j \in 1 .. frame /\ mem[j].type = "frame"
      BY <1>1, <1>5, <1>6, <3>2 DEF Frames
    <3>4. PICK g \in 0 .. (j - 1) : Awaits(program, d, mem, g, j)
      BY <3>1, <3>3 DEF Chain
    <3>5. /\ mem[g].type = "frame" /\ \A h \in (g + 1) .. (j - 1) : mem[h].type # "frame"
          /\ g + CountsOf(mem, g) < j
      BY <3>4 DEF Awaits, Resumes
    <3>6. i = g
      <4>1. ~(g > i)
        <5>1. g \in Frames
          BY <3>1, <3>3, <3>4, <3>5 DEF Frames
        <5> QED BY <5>1, <1>5, <3>3, <3>4
      <4>2. ~(i > g)
        BY <1>5, <3>2, <3>3, <3>4, <3>5
      <4> QED BY <4>1, <4>2, <3>2, <3>4
    <3>7. CountsOf(mem, i) \in Nat
      <4>1. Chain(program, d, mem, g)
        <5>1. \A h \in 1 .. g : h \in 1 .. frame
          BY <3>1, <3>3, <3>4
        <5> QED BY <3>1, <3>5, <5>1 DEF Chain
      <4> QED BY <3>1, <3>2, <3>6, <4>1, CountsNat
    <3>8. LastVar(i) = i + CountsOf(mem, i)
      BY <2>2 DEF LastVar, Reserved, CountsOf
    <3> QED BY <3>2, <3>3, <3>5, <3>6, <3>7, <3>8
  <2> QED BY <2>1, <2>2
<1> QED BY <1>5, <1>6, <1>7, <1>8

\* The innermost call has the stack up to the top.
LEMMA InnermostCells ==
  ASSUME NEW d, StackInv(d), Running
  PROVE  LastCell(frame) = top
<1>1. frame \in Int /\ Frames \subseteq Nat /\ \A i \in Frames : i <= frame
  BY CallsKnown
<1>2. ~ \E j \in Frames : j > frame
  BY <1>1
<1> QED BY <1>2 DEF LastCell

-----------------------------------------------------------------------------
(* Activations, of the memory m.                                           *)

Cells(m, lo, hi) == [k \in 1 .. (hi - lo + 1) |-> m[lo + k - 1]]

ActivationIn(m, i, var, last) ==
  [resume |-> IF i = -1 THEN -1 ELSE m[i].num,
   vars   |-> Cells(m, i + 1, var),
   ops    |-> Cells(m, var + 1, last)]

LEMMA ActivationNow ==
  ASSUME NEW i
  PROVE  /\ Activation(i) = ActivationIn(mem, i, LastVar(i), LastCell(i))
         /\ Activation(i)' = ActivationIn(mem', i, LastVar(i)', LastCell(i)')
BY DEF Activation, ActivationIn, Between, Cells

LEMMA CellsSame ==
  ASSUME NEW m, NEW n, NEW lo \in Nat, NEW hi \in Int, NEW top1 \in Int, hi <= top1,
         \A k \in 0 .. top1 : n[k] = m[k]
  PROVE  Cells(n, lo, hi) = Cells(m, lo, hi)
<1>1. \A k \in 1 .. (hi - lo + 1) : n[lo + k - 1] = m[lo + k - 1]
  <2> TAKE k \in 1 .. (hi - lo + 1)
  <2>1. lo + k - 1 \in 0 .. top1
    OBVIOUS
  <2> QED BY <2>1
<1> QED BY <1>1 DEF Cells

\* An activation depends on nothing above its topmost cell.
LEMMA ActivationSame ==
  ASSUME NEW m, NEW n, NEW i \in Int, i >= -1, NEW var \in Int, i <= var,
         NEW last \in Int, var <= last, \A k \in 0 .. last : n[k] = m[k]
  PROVE  ActivationIn(n, i, var, last) = ActivationIn(m, i, var, last)
<1>1. Cells(n, i + 1, var) = Cells(m, i + 1, var)
  <2>1. i + 1 \in Nat
    OBVIOUS
  <2> QED BY <2>1, CellsSame
<1>2. Cells(n, var + 1, last) = Cells(m, var + 1, last)
  <2>1. var + 1 \in Nat /\ last <= last
    OBVIOUS
  <2>2. PICK lo \in Nat : lo = var + 1
    BY <2>1
  <2>3. Cells(n, lo, last) = Cells(m, lo, last)
    BY <2>1, CellsSame
  <2> QED BY <2>2, <2>3
<1>3. i # -1 => i \in 0 .. last
  OBVIOUS
<1> QED BY <1>1, <1>2, <1>3 DEF ActivationIn

LEMMA CellsSequence ==
  ASSUME NEW m, NEW lo \in Int, NEW hi \in Int, hi >= lo - 1
  PROVE  /\ DOMAIN Cells(m, lo, hi) = 1 .. (hi - lo + 1)
         /\ Len(Cells(m, lo, hi)) = hi - lo + 1
         /\ \A k \in 1 .. (hi - lo + 1) : Cells(m, lo, hi)[k] = m[lo + k - 1]
<1>1. hi - lo + 1 \in Nat
  OBVIOUS
<1> QED BY <1>1 DEF Cells

LEMMA PartOf ==
  ASSUME NEW s, NEW lo \in Int, NEW hi \in Int, hi >= lo - 1
  PROVE  SubSeq(s, lo, hi) = [k \in 1 .. (hi - lo + 1) |-> s[lo + k - 1]]
<1>1. PICK S : S = {s[i] : i \in lo .. hi}
  OBVIOUS
<1>2. /\ SubSeq(s, lo, hi) \in Seq(S)
      /\ Len(SubSeq(s, lo, hi)) = IF lo <= hi THEN hi - lo + 1 ELSE 0
      /\ \A k \in 1 .. (hi - lo + 1) : SubSeq(s, lo, hi)[k] = s[lo + k - 1]
  <2>1. \A i \in lo .. hi : s[i] \in S
    BY <1>1
  <2> QED BY <2>1, SubSeqProperties
<1>3. Len(SubSeq(s, lo, hi)) = hi - lo + 1
  BY <1>2
<1> QED BY <1>2, <1>3

-----------------------------------------------------------------------------
(* The mapped state.                                                       *)

LEMMA ActsKnown ==
  /\ Running  => DOMAIN ActiveCalls = Calls /\ \A i \in Calls : ActiveCalls[i] = Activation(i)
  /\ Running' => /\ DOMAIN ActiveCalls' = Calls'
                 /\ \A i \in Calls' : ActiveCalls'[i] = Activation(i)'
BY DEF ActiveCalls

LEMMA InnermostKnown ==
  ASSUME NEW d, StackInv(d), Running
  PROVE  Abstract!Innermost = frame /\ Abstract!Callers = Calls \ {frame}
         /\ Abstract!Current = Activation(frame)
<1>1. DOMAIN ActiveCalls = Calls /\ \A i \in Calls : ActiveCalls[i] = Activation(i)
  BY ActsKnown
<1>2. frame \in Calls /\ \A i \in Calls : i \in Int /\ i <= frame
  BY CallsKnown
<1>3. Abstract!Innermost = CHOOSE c \in Calls : \A i \in Calls : i <= c
  BY <1>1 DEF Abstract!Innermost
<1>4. \A c \in Calls : (\A i \in Calls : i <= c) => c = frame
  BY <1>2
<1>5. Abstract!Innermost = frame
  BY <1>2, <1>3, <1>4
<1> QED BY <1>1, <1>2, <1>5 DEF Abstract!Callers, Abstract!Current

\* The calls below the frame at f are the same if nothing up to it changes.
LEMMA CallersKept ==
  ASSUME NEW d, StackInv(d), Running, NEW f \in Frames, NEW i \in Calls, i < f,
         \A k \in 0 .. f : mem'[k] = mem[k], top' \in Int, f <= top'
  PROVE  i \in Calls' /\ Activation(i)' = Activation(i)
<1>1. /\ frame \in Int /\ i \in Int /\ i >= -1
      /\ i # -1 => i \in Frames
      /\ f \in Nat /\ f <= frame /\ i # frame /\ top \in Int /\ frame <= top
  BY CallsKnown
<1>2. PICK j \in Frames :
        /\ j > i /\ \A h \in Frames : h > i => j <= h
        /\ j \in Nat /\ j <= frame
        /\ LastCell(i) = j - 1
        /\ LastVar(i) \in Int /\ i <= LastVar(i) /\ LastVar(i) <= j - 1
  BY <1>1, CallCells
<1>3. j <= f
  BY <1>2
<1>4. \A h \in 0 .. f : h \in Frames' <=> h \in Frames
  BY <1>1 DEF Frames
<1>5. Frames' \subseteq Nat
  BY DEF Frames
<1>6. j \in Frames' /\ \A h \in Frames' : h > i => j <= h
  <2>1. j \in 0 .. f
    BY <1>1, <1>2, <1>3
  <2>2. ASSUME NEW h \in Frames', h > i
        PROVE  j <= h
    <3>1. CASE h <= f
      BY <3>1, <2>2, <1>1, <1>2, <1>4, <1>5
    <3>2. CASE h > f
      BY <3>2, <1>1, <1>2, <1>3, <1>5
    <3> QED BY <3>1, <3>2, <1>1, <1>5
  <2> QED BY <2>1, <2>2, <1>4
<1>7. LastCell(i)' = j - 1
  <2>1. (CHOOSE g \in Frames' : g > i /\ \A h \in Frames' : h > i => g <= h) = j
    BY <1>2, <1>5, <1>6, ChooseAbove
  <2> QED BY <1>2, <1>6, <2>1 DEF LastCell, IsAbove
<1>8. LastVar(i)' = LastVar(i)
  <2>1. i # -1 => mem'[i] = mem[i]
    BY <1>1
  <2> QED BY <2>1 DEF LastVar, Reserved
<1>9. \A k \in 0 .. (j - 1) : mem'[k] = mem[k]
  BY <1>1, <1>2, <1>3
<1>10. PICK var \in Int : var = LastVar(i)
  BY <1>2
<1>11. ActivationIn(mem', i, var, j - 1) = ActivationIn(mem, i, var, j - 1)
  BY <1>1, <1>2, <1>9, <1>10, ActivationSame
<1>12. i \in Calls'
  BY <1>1, <1>4 DEF Calls
<1> QED BY <1>2, <1>7, <1>8, <1>10, <1>11, <1>12, ActivationNow

\* A program that stops takes its calls with it.
LEMMA StopMaps ==
  ASSUME Running, ~Running'
  PROVE  Abstract!ActNext
BY DEF Abstract!ActNext, Abstract!Stop, ActiveCalls, Running

\* After a step that leaves the frames as they are, there is no other frame.
LEMMA FramesKept ==
  ASSUME NEW d, StackInv(d), StackInv(d)', Running, Running', frame \in Nat, frame' = frame,
         \A k \in 0 .. frame : mem'[k] = mem[k]
  PROVE  Frames' = Frames /\ top' \in Int /\ frame <= top'
<1>1. /\ top' \in Int /\ frame' <= top'
  BY DEF StackInv, TypeOK
<1>2. NoFrames(mem, frame + 1, top)' /\ frame' \in Nat
  BY DEF StackInv, Starting, Calling
<1>3. \A k \in (frame + 1) .. top' : mem'[k].type # "frame"
  BY <1>2 DEF NoFrames
<1>4. \A i \in Frames : i \in 0 .. frame
  BY CallsKnown
<1>5. top \in Int /\ frame <= top
  BY CallsKnown
<1>6. ASSUME NEW i \in Frames'
      PROVE  i \in Frames
  <2>1. i \in 0 .. top' /\ mem'[i].type = "frame"
    BY <1>6 DEF Frames
  <2>2. i \in 0 .. frame
    BY <2>1, <1>3
  <2> QED BY <1>5, <2>1, <2>2 DEF Frames
<1>7. ASSUME NEW i \in Frames
      PROVE  i \in Frames'
  BY <1>1, <1>4, <1>7 DEF Frames
<1> QED BY <1>1, <1>6, <1>7

\* A step that leaves all cells up to the frame works on the current call.
LEMMA WorkMaps ==
  ASSUME NEW d, StackInv(d), StackInv(d)', Running, frame \in Nat, frame' = frame,
         \A k \in 0 .. frame : mem'[k] = mem[k]
  PROVE  Abstract!ActNext
<1>1. CASE ~Running'
  BY <1>1, StopMaps
<1>2. CASE Running'
  <2>1. Frames' = Frames /\ top' \in Int /\ frame <= top'
    BY <1>2, FramesKept
  <2>2. Calls' = Calls
    BY <2>1 DEF Calls
  <2>3. frame \in Calls /\ frame \in Frames /\ \A i \in Calls : i \in Int /\ i <= frame
    BY CallsKnown
  <2>4. \A i \in Calls \ {frame} : Activation(i)' = Activation(i)
    <3> TAKE i \in Calls \ {frame}
    <3>1. i < frame
      BY <2>3
    <3> QED BY <2>1, <2>3, <3>1, CallersKept
  <2>5. Activation(frame)'.resume = Activation(frame).resume
    BY DEF Activation
  <2>6. Len(Activation(frame)'.vars) = Len(Activation(frame).vars)
    <3>1. CountsOf(mem, frame) \in Nat
      BY <2>3, FramesBelow, CountsNat DEF StackInv
    <3>2. PICK var \in Int : var = frame + CountsOf(mem, frame)
      BY <3>1
    <3>3. LastVar(frame) = var /\ LastVar(frame)' = var
      <4>1. mem'[frame] = mem[frame]
        OBVIOUS
      <4> QED BY <3>2, <4>1 DEF LastVar, Reserved, CountsOf
    <3>4. /\ Len(Cells(mem, frame + 1, var)) = var - frame
          /\ Len(Cells(mem', frame + 1, var)) = var - frame
      BY <3>1, <3>2, CellsSequence
    <3> QED BY <3>3, <3>4, ActivationNow DEF ActivationIn
  <2>7. /\ Abstract!Innermost = frame /\ Abstract!Callers = Calls \ {frame}
        /\ Abstract!Current = Activation(frame)
    BY InnermostKnown
  <2>8. /\ DOMAIN ActiveCalls = Calls /\ \A i \in Calls : ActiveCalls[i] = Activation(i)
        /\ DOMAIN ActiveCalls' = Calls /\ \A i \in Calls : ActiveCalls'[i] = Activation(i)'
    BY <1>2, <2>2, ActsKnown
  <2>9. Abstract!Work
    BY <1>2, <2>3, <2>4, <2>5, <2>6, <2>7, <2>8 DEF Abstract!Work, Running
  <2> QED BY <2>9 DEF Abstract!ActNext
<1> QED BY <1>1, <1>2

-----------------------------------------------------------------------------
(* Instructions that stay in their call.                                   *)

BelowKept == frame' = frame /\ \A k \in 0 .. frame : mem'[k] = mem[k]

\* Operands lie above the frame, and so does what is pushed.
LEMMA AboveFrame ==
  ASSUME NEW d, StackInv(d), Running, Inst.op # "frame", NEW k \in Nat, k <= d[pc].low
  PROVE  top - k + 1 > frame /\ frame \in Nat /\ top \in Int
<1>1. /\ pc \in DOMAIN d /\ frame \in Nat /\ Chain(program, d, mem, frame)
      /\ top >= frame + Reserved(frame) + d[pc].low
  BY FunctionRuns DEF Inside
<1>2. Disciplined(program, d) /\ top \in Int
  BY TypesNow DEF StackInv
<1>3. d[pc].low \in Nat /\ Reserved(frame) \in Nat
  BY <1>1, <1>2, NotesTyped, CountsNat DEF Reserved, CountsOf
<1> QED BY <1>1, <1>2, <1>3

LEMMA ReplacesKeeps ==
  ASSUME NEW d, StackInv(d), Running, Inst.op # "frame", NEW k \in Nat, k <= d[pc].low,
         NEW v, Replaces(k, v)
  PROVE  BelowKept
<1>1. top - k + 1 > frame /\ frame \in Nat /\ top \in Int /\ mem \in [Memory -> Value]
  BY AboveFrame, TypesNow DEF StackInv
<1>2. mem' = [mem EXCEPT ![top - k + 1] = v] /\ frame' = frame
  BY DEF Replaces, Leaves, Set
<1> QED BY <1>1, <1>2 DEF BelowKept

LEMMA MovesKeep ==
  ASSUME NEW t, NEW p, Leaves(mem, t, frame, p)
  PROVE  BelowKept
BY DEF Leaves, BelowKept

LEMMA EndsKeep ==
  ASSUME NEW why, NEW val, Ends(why, val)
  PROVE  BelowKept
BY DEF Ends, BelowKept

LEMMA OperandsKeep ==
  ASSUME NEW d, StackInv(d),
         PushValue \/ Arithmetic \/ Comparison \/ Logical \/ Unary \/ LoadLocal
  PROVE  BelowKept
<1>1. ASSUME NEW ops, At(ops), NEW k \in Nat, NEW v, Replaces(k, v),
             ops \subseteq Arith \union Compare \union Logic \union {"push", "load", "neg", "not"},
             k = IF ops \subseteq {"push", "load"} THEN 0
                 ELSE IF ops \subseteq {"neg", "not"} THEN 1 ELSE 2,
             ops \subseteq {"push", "load"} \/ ops \subseteq {"neg", "not"}
               \/ ops \subseteq Arith \union Compare \union Logic
      PROVE  BelowKept
  <2>1. Inst.op \in ops
    BY <1>1 DEF At
  <2>2. Inst.op # "frame"
    BY <1>1, <2>1 DEF Arith, Compare, Logic
  <2>3. /\ Running /\ At0(program, pc) = Inst /\ Takes(program, pc) <= d[pc].low
        /\ d[pc].low \in Nat
    BY <1>1, <2>2, StepFacts
  <2>4. k <= Takes(program, pc) /\ Takes(program, pc) \in Nat
    BY <1>1, <2>1, <2>3 DEF Takes, Arith, Compare, Logic
  <2>5. k <= d[pc].low
    BY <2>3, <2>4
  <2> QED BY <1>1, <2>2, <2>3, <2>5, ReplacesKeeps
<1>2. CASE PushValue
  <2>1. At({"push"}) /\ Replaces(0, program.cons[Inst.a + 1])
    BY <1>2 DEF PushValue
  <2> QED BY <2>1, <1>1
<1>3. CASE Arithmetic
  <2>1. PICK v : At(Arith) /\ Replaces(2, v)
    BY <1>3 DEF Arithmetic
  <2> QED BY <2>1, <1>1 DEF Arith
<1>4. CASE Comparison
  <2>1. PICK v : At(Compare) /\ Replaces(2, v)
    BY <1>4 DEF Comparison
  <2> QED BY <2>1, <1>1 DEF Compare
<1>5. CASE Logical
  <2>1. PICK v : At(Logic) /\ Replaces(2, v)
    BY <1>5 DEF Logical
  <2> QED BY <2>1, <1>1 DEF Logic
<1>6. CASE Unary
  <2>1. PICK v : (At({"neg"}) \/ At({"not"})) /\ Replaces(1, v)
    BY <1>6 DEF Unary
  <2> QED BY <2>1, <1>1
<1>7. CASE LoadLocal
  <2>1. At({"load"}) /\ Replaces(0, mem[frame + 1 + Inst.a])
    BY <1>7 DEF LoadLocal
  <2> QED BY <2>1, <1>1
<1> QED BY <1>2, <1>3, <1>4, <1>5, <1>6, <1>7

LEMMA ControlKeeps ==
  ASSUME NEW d, StackInv(d), Pop \/ Jump \/ JumpIfFalse \/ Call \/ StoreLocal
  PROVE  BelowKept
<1>1. CASE Pop
  BY <1>1, MovesKeep DEF Pop
<1>2. CASE Jump
  BY <1>2, MovesKeep DEF Jump
<1>3. CASE JumpIfFalse
  BY <1>3, MovesKeep DEF JumpIfFalse
<1>4. CASE Call
  <2>1. At({"call"}) /\ Leaves(Set(top + 1, Num(pc + 1)), top + 1, frame, Inst.a)
    BY <1>4 DEF Call
  <2>2. Inst.op # "frame"
    BY <2>1 DEF At
  <2>3. frame \in 0 .. (StackSize - 1) /\ frame <= top /\ top \in Int /\ mem \in [Memory -> Value]
    BY <2>1, <2>2, StepFacts, TypesNow DEF StackInv
  <2>4. mem' = [mem EXCEPT ![top + 1] = Num(pc + 1)] /\ frame' = frame
    BY <2>1 DEF Leaves, Set
  <2> QED BY <2>3, <2>4 DEF BelowKept
<1>5. CASE StoreLocal
  <2>1. At({"store"}) /\ Leaves(Set(frame + 1 + Inst.a, Arg(1)), top - 1, frame, pc + 1)
    BY <1>5 DEF StoreLocal
  <2>2. Inst.op # "frame"
    BY <2>1 DEF At
  <2>3. frame \in 0 .. (StackSize - 1) /\ Inst.a \in Nat /\ mem \in [Memory -> Value]
    BY <2>1, <2>2, StepFacts, TypesNow DEF StackInv
  <2>4. mem' = [mem EXCEPT ![frame + 1 + Inst.a] = Arg(1)] /\ frame' = frame
    BY <2>1 DEF Leaves, Set
  <2>5. \A k \in 0 .. frame : k # frame + 1 + Inst.a /\ k \in Nat
    BY <2>3
  <2> QED BY <2>3, <2>4, <2>5 DEF BelowKept
<1> QED BY <1>1, <1>2, <1>3, <1>4, <1>5

LEMMA DataKeeps ==
  ASSUME NEW d, StackInv(d), MakeArray \/ ArrayLength \/ MakeIter \/ CallNative
  PROVE  BelowKept
<1>1. CASE MakeArray
  <2>1. /\ At({"array"})
        /\ (\E v : Replaces(Arg(1).num + 1, v)) \/ Ends("oom", Num(-1005))
    BY <1>1 DEF MakeArray
  <2>2. Inst.op = "array"
    BY <2>1 DEF At
  <2>3. /\ Running /\ At0(program, pc) = Inst /\ Takes(program, pc) <= d[pc].low
        /\ d[pc].low \in Nat
    BY <2>1, <2>2, StepFacts
  <2>4. Arg(1) = Pushed(program, pc) /\ Arg(1).num \in Nat
    BY <2>2, <2>3 DEF StackInv
  <2>5. Takes(program, pc) = Arg(1).num + 1
    BY <2>2, <2>3, <2>4 DEF Takes, Arith, Compare, Logic
  <2>6. PICK k \in Nat : k = Arg(1).num + 1
    BY <2>4
  <2>7. CASE \E v : Replaces(k, v)
    BY <2>2, <2>3, <2>5, <2>6, <2>7, ReplacesKeeps
  <2> QED BY <2>1, <2>6, <2>7, EndsKeep
<1>2. ASSUME NEW ops \in {{"len"}, {"iter"}}, At(ops), NEW v, Replaces(1, v)
      PROVE  BelowKept
  <2>1. Inst.op \in {"len", "iter"}
    BY <1>2 DEF At
  <2>2. /\ Running /\ At0(program, pc) = Inst /\ Takes(program, pc) <= d[pc].low
    BY <1>2, <2>1, StepFacts
  <2>3. Takes(program, pc) = 1
    BY <2>1, <2>2 DEF Takes, Arith, Compare, Logic
  <2> QED BY <1>2, <2>1, <2>2, <2>3, ReplacesKeeps
<1>3. CASE ArrayLength
  BY <1>2, <1>3 DEF ArrayLength
<1>4. CASE MakeIter
  BY <1>2, <1>4 DEF MakeIter
<1>5. CASE CallNative
  <2>1. /\ At({"native"})
        /\ \/ Leaves(mem, top - Inst.a, frame, pc + 1)
           \/ \E v : Replaces(Inst.a, v)
    BY <1>5 DEF CallNative
  <2>2. Inst.op = "native"
    BY <2>1 DEF At
  <2>3. /\ Running /\ At0(program, pc) = Inst /\ Takes(program, pc) <= d[pc].low
        /\ Inst.a \in Nat
    BY <2>1, <2>2, StepFacts
  <2>4. Takes(program, pc) = Inst.a
    BY <2>2, <2>3 DEF Takes, Arith, Compare, Logic
  <2>5. CASE \E v : Replaces(Inst.a, v)
    BY <2>2, <2>3, <2>4, <2>5, ReplacesKeeps
  <2> QED BY <2>1, <2>5, MovesKeep
<1> QED BY <1>1, <1>3, <1>4, <1>5

LEMMA SpreadKeeps ==
  ASSUME NEW d, StackInv(d), Duplicate \/ Rotate \/ IterNext
  PROVE  BelowKept
<1>1. ASSUME NEW op \in {"dup1", "dup2", "rot2", "iter-next"}, At({op})
      PROVE  /\ Running /\ Inst.op # "frame" /\ mem \in [Memory -> Value]
             /\ frame \in Nat /\ top \in Int /\ top > frame
             /\ op \in {"dup2", "rot2"} => top - 1 > frame
  <2>1. Inst.op = op
    BY <1>1 DEF At
  <2>2. /\ Running /\ At0(program, pc) = Inst /\ Takes(program, pc) <= d[pc].low
        /\ d[pc].low \in Nat
    BY <1>1, <2>1, StepFacts
  <2>3. Takes(program, pc) = IF op \in {"dup2", "rot2"} THEN 2 ELSE 1
    BY <2>1, <2>2 DEF Takes, Arith, Compare, Logic
  <2>4. 1 <= d[pc].low /\ (op \in {"dup2", "rot2"} => 2 <= d[pc].low)
    BY <2>2, <2>3
  <2>5. top - 1 + 1 > frame /\ frame \in Nat /\ top \in Int
    BY <2>1, <2>2, <2>4, AboveFrame
  <2>6. op \in {"dup2", "rot2"} => top - 2 + 1 > frame
    BY <2>1, <2>2, <2>4, AboveFrame
  <2> QED BY <2>1, <2>2, <2>5, <2>6, TypesNow DEF StackInv
<1>2. CASE At({"dup1"}) /\ Replaces(0, Arg(1))
  <2>1. Running /\ Inst.op # "frame" /\ d[pc].low \in Nat
    BY <1>2, <1>1, StepFacts
  <2> QED BY <1>2, <2>1, ReplacesKeeps
<1>3. ASSUME NEW op \in {"dup2", "rot2", "iter-next"}, At({op}),
             NEW i \in {top - 1, top, top + 1}, NEW j \in {top, top + 1, top + 2}, NEW v, NEW w,
             NEW t, NEW p, i = top - 1 => op \in {"dup2", "rot2"},
             Leaves([mem EXCEPT ![i] = v, ![j] = w], t, frame, p)
      PROVE  BelowKept
  <2>1. \A k \in 0 .. frame : k \in Memory
    <3>1. Inst.op # "frame"
      BY <1>3 DEF At
    <3>2. frame \in 0 .. (StackSize - 1)
      BY <1>3, <3>1, StepFacts
    <3> QED BY <3>2, LimitsAssumption DEF Memory
  <2>2. op \in {"dup1", "dup2", "rot2", "iter-next"}
    OBVIOUS
  <2>3. /\ mem \in [Memory -> Value] /\ frame \in Nat /\ top \in Int /\ top > frame
        /\ op \in {"dup2", "rot2"} => top - 1 > frame
    BY <1>1, <1>3, <2>2
  <2>4. i > frame /\ j > frame /\ i \in Int /\ j \in Int
    BY <1>3, <2>3
  <2>5. mem' = [mem EXCEPT ![i] = v, ![j] = w] /\ frame' = frame
    BY <1>3 DEF Leaves
  <2>6. \A k \in 0 .. frame : k # i /\ k # j
    BY <2>4, <2>3
  <2>7. ASSUME NEW k \in 0 .. frame
        PROVE  mem'[k] = mem[k]
    <3>1. k # i /\ k # j /\ k \in Memory
      BY <2>6, <2>1
    <3> QED BY <2>5, <2>3, <3>1
  <2> QED BY <2>5, <2>6, <2>7 DEF BelowKept
<1>4. CASE /\ At({"dup2"})
           /\ Leaves([mem EXCEPT ![top + 1] = Arg(2), ![top + 2] = Arg(1)], top + 2, frame, pc + 1)
  BY <1>3, <1>4
<1>5. CASE Rotate
  BY <1>3, <1>5 DEF Rotate
<1>6. CASE IterNext
  <2>1. /\ At({"iter-next"})
        /\ \/ Leaves(mem, top - 1, frame, Inst.a)
           \/ Leaves([mem EXCEPT ![top] = Iter(Tail(Arg(1).items)),
                                 ![top + 1] = Num(Head(Arg(1).items))], top + 1, frame, pc + 1)
           \/ Ends("misread", None)
    BY <1>6 DEF IterNext
  <2>2. CASE Leaves([mem EXCEPT ![top] = Iter(Tail(Arg(1).items)),
                                ![top + 1] = Num(Head(Arg(1).items))], top + 1, frame, pc + 1)
    <3>1. top = top - 1 => FALSE
      BY <1>1, <2>1
    <3> QED BY <1>3, <2>1, <2>2, <3>1
  <2> QED BY <2>1, <2>2, MovesKeep, EndsKeep
<1> QED BY <1>2, <1>4, <1>5, <1>6 DEF Duplicate

\* Every instruction but OP_MAKE_FRAME and the returns stays in its call.
LEMMA WorkStep ==
  ASSUME NEW d, StackInv(d), StackInv(d)', Running, Inst.op # "frame", BelowKept
  PROVE  Abstract!ActNext
<1>1. frame \in Nat
  BY FunctionRuns
<1> QED BY <1>1, WorkMaps DEF BelowKept

-----------------------------------------------------------------------------
(* OP_MAKE_FRAME.                                                          *)

\* What OP_MAKE_FRAME leaves: the call at start has the arguments that lay there and
\* the locals, and the cells below it are its callers'.
Framing(start, a, b) ==
  /\ start \in Nat /\ a \in Nat /\ b \in Nat
  /\ frame < start /\ top = start + a
  /\ LastVar(frame) \in Int /\ frame <= LastVar(frame) /\ LastVar(frame) < start
  /\ frame' = start /\ top' = start + a + b /\ pc' = pc + 1
  /\ \A k \in 0 .. (start - 1) : mem'[k] = mem[k]
  /\ mem'[start].type = "frame" /\ mem'[start].num = mem[top].num
  /\ \A k \in 1 .. a : mem'[start + k] = mem[start + k - 1]
  /\ Reserved(start)' = a + b

LEMMA FramingDone ==
  ASSUME NEW d, StackInv(d), StackInv(d)', CountsFit(program), MakeFrame, Running'
  PROVE  \E start, a, b : Framing(start, a, b)
<1>1. /\ At({"frame"})
      /\ Leaves(Framed(mem, top - Inst.a, Arg(1).num, Inst.a, Inst.b),
                top - Inst.a + Inst.a + Inst.b, top - Inst.a, pc + 1)
  BY DEF MakeFrame, Framed
<1>2. Inst.op = "frame" /\ Running
  BY <1>1 DEF At
<1>3. /\ top \in Int /\ mem \in [Memory -> Value] /\ top <= StackSize + Behind - 1
      /\ Disciplined(program, d) /\ pc \in DOMAIN d /\ pc \in Nat
  BY <1>2, TypesNow DEF StackInv
<1>4. At0(program, pc) = Inst /\ Inst.a \in Nat /\ Inst.b \in Nat /\ pc + 1 \in DOMAIN program.inst
  BY <1>3, NotesTyped, InstAt
<1>5. PICK a \in Nat, b \in Nat : a = Inst.a /\ b = Inst.b
  BY <1>4
<1>6. a < Byte /\ b < Byte
  BY <1>2, <1>4, <1>5 DEF CountsFit, Inst
<1>7. a % Byte = a /\ b % Byte = b
  BY <1>6, LimitsAssumption
<1>8. PICK start \in Int : start = top - a
  BY <1>3, <1>5
<1>9. /\ top = start + a /\ Arg(1) = mem[top]
  <2>1. top - 1 + 1 = top
    BY <1>3
  <2> QED BY <2>1, <1>3, <1>5, <1>8 DEF Arg
<1>10. Starting \/ (Calling(d) /\ Entering(d))
  BY <1>2 DEF StackInv, Calling, Inside
<1>11. /\ start \in Nat /\ top \in Memory /\ NoFrames(mem, start, top) /\ frame < start
       /\ LastVar(frame) \in Int /\ frame <= LastVar(frame) /\ LastVar(frame) < start
  <2>1. CASE Starting
    <3>1. Inst.a = Len(program.args) /\ top = Len(program.args) /\ frame = -1
      BY <2>1, <1>3, <1>4 DEF Starting, Disciplined
    <3>2. start = 0
      BY <1>3, <1>5, <1>8, <3>1
    <3>3. LastVar(frame) = -1
      BY <3>1 DEF LastVar
    <3> QED BY <2>1, <3>1, <3>2, <3>3, <1>3, <1>4 DEF Starting, Memory
  <2>2. CASE Calling(d) /\ Entering(d)
    <3>1. /\ frame \in Nat /\ NoFrames(mem, frame + 1, top) /\ Chain(program, d, mem, frame)
          /\ frame + CountsOf(mem, frame) < start
      BY <2>2, <1>5, <1>8 DEF Calling, Entering, Resumes
    <3>2. CountsOf(mem, frame) \in Nat
      BY <1>3, <3>1, CountsNat
    <3>3. start \in (frame + 1) .. top /\ start \in Nat
      BY <1>3, <1>5, <1>8, <3>1, <3>2
    <3>4. NoFrames(mem, start, top)
      BY <3>1, <3>3 DEF NoFrames
    <3>5. top \in Memory
      BY <1>3, <3>1, <3>3 DEF Memory
    <3>6. LastVar(frame) = frame + CountsOf(mem, frame)
      BY <3>1 DEF LastVar, Reserved, CountsOf
    <3> QED BY <3>1, <3>2, <3>3, <3>4, <3>5, <3>6
  <2> QED BY <1>10, <2>1, <2>2
<1>12. PICK ret \in Int : ret = mem[top].num
  BY <1>3, <1>11, ValueFields
<1>13. PICK m : m = Framed(mem, start, ret, a, b)
  OBVIOUS
<1>14. mem' = m /\ top' = start + a + b /\ frame' = start /\ pc' = pc + 1
  BY <1>1, <1>3, <1>5, <1>8, <1>9, <1>12, <1>13 DEF Leaves
<1>15. start + a + b <= StackSize + Behind - 1
  <2>1. top' <= StackSize + Behind - 1
    BY LimitsAssumption DEF StackInv, TypeOK
  <2> QED BY <1>14, <2>1
<1>16. m[start] = FrameVal(ret, a, b) /\ \A k \in 0 .. (start - 1) : m[k] = mem[k]
  <2>1. start + a \in Memory /\ NoFrames(mem, start, start + a)
    BY <1>9, <1>11
  <2>2. /\ Framed(mem, start, ret, a, b)[start] = FrameVal(ret, a, b)
        /\ \A k \in 0 .. (start - 1) : Framed(mem, start, ret, a, b)[k] = mem[k]
    BY <1>3, <1>11, <2>1, FramedMemory
  <2> QED BY <1>13, <2>2
<1>17. ASSUME NEW k \in 1 .. a
       PROVE  m[start + k] = mem[start + k - 1]
  <2>1. start + k \in Memory /\ start + k # start /\ start + k \in (start + 1) .. (start + a)
    BY <1>5, <1>11, <1>15, LimitsAssumption DEF Memory
  <2> QED BY <1>13, <2>1 DEF Framed
<1>18. /\ m[start].type = "frame" /\ m[start].num = ret /\ m[start].items = <<a, b>>
  BY <1>5, <1>7, <1>12, <1>16, FrameValue
<1>19. Reserved(start)' = a + b
  BY <1>14, <1>18 DEF Reserved
<1>20. Framing(start, a, b)
  BY <1>5, <1>9, <1>11, <1>12, <1>14, <1>16, <1>17, <1>18, <1>19 DEF Framing
<1> QED BY <1>20

LEMMA FramingCalls ==
  ASSUME NEW d, StackInv(d), StackInv(d)', Running, Running',
         NEW start, NEW a, NEW b, Framing(start, a, b), NEW f, f = frame
  PROVE  /\ Calls' = Calls \union {start}
         /\ LastCell(f)' = start - 1 /\ LastCell(start)' = start + a + b
<1>1. /\ frame \in Int /\ Frames \subseteq Nat /\ top \in Int /\ frame <= top
      /\ \A i \in Frames : i <= frame /\ i \in 0 .. top
      /\ \A i \in Calls : i # -1 => i \in Frames
      /\ frame \in Calls
  BY CallsKnown DEF Frames
<1>2. /\ start \in Nat /\ a \in Nat /\ b \in Nat /\ frame < start
      /\ top = start + a /\ top' = start + a + b /\ frame' = start
      /\ mem'[start].type = "frame" /\ \A k \in 0 .. (start - 1) : mem'[k] = mem[k]
  BY DEF Framing
<1>3. \A k \in (start + 1) .. top' : mem'[k].type # "frame"
  BY <1>2 DEF StackInv, Starting, Calling, NoFrames
<1>4. ASSUME NEW i \in Frames'
      PROVE  i \in Frames \union {start}
  <2>1. i \in 0 .. top' /\ mem'[i].type = "frame"
    BY <1>4 DEF Frames
  <2>2. i \in 0 .. (start - 1) \/ i = start
    BY <1>2, <1>3, <2>1
  <2> QED BY <1>1, <1>2, <2>1, <2>2 DEF Frames
<1>5. ASSUME NEW i \in Frames
      PROVE  i \in Frames'
  <2>1. i \in 0 .. (start - 1) /\ i \in 0 .. top'
    BY <1>1, <1>2
  <2> QED BY <1>2, <1>5, <2>1 DEF Frames
<1>6. start \in Frames'
  BY <1>2 DEF Frames
<1>7. Frames' = Frames \union {start}
  BY <1>4, <1>5, <1>6
<1>8. LastCell(f)' = start - 1
  <2>1. f < start /\ \A h \in Frames' : h > f => start <= h
    BY <1>1, <1>2, <1>7
  <2>2. Frames' \subseteq Nat
    BY DEF Frames
  <2>3. (CHOOSE g \in Frames' : g > f /\ \A h \in Frames' : h > f => g <= h) = start
    BY <1>6, <2>1, <2>2, ChooseAbove
  <2> QED BY <1>1, <1>2, <1>6, <2>1, <2>3 DEF LastCell, IsAbove
<1>9. LastCell(start)' = start + a + b
  <2>1. ~ \E j \in Frames' : j > start
    BY <1>1, <1>2, <1>7
  <2> QED BY <1>2, <2>1 DEF LastCell
<1> QED BY <1>7, <1>8, <1>9 DEF Calls

\* A call takes its arguments and the address to return to from its caller's operands.
LEMMA EnterMaps ==
  ASSUME NEW d, StackInv(d), StackInv(d)', Running, Running',
         NEW start, NEW a, NEW b, Framing(start, a, b)
  PROVE  Abstract!ActNext
<1>1. /\ start \in Nat /\ a \in Nat /\ b \in Nat /\ frame < start /\ top = start + a
      /\ LastVar(frame) \in Int /\ frame <= LastVar(frame) /\ LastVar(frame) < start
      /\ frame' = start /\ top' = start + a + b /\ pc' = pc + 1
      /\ \A k \in 0 .. (start - 1) : mem'[k] = mem[k]
      /\ mem'[start].type = "frame" /\ mem'[start].num = mem[top].num
      /\ \A k \in 1 .. a : mem'[start + k] = mem[start + k - 1]
      /\ Reserved(start)' = a + b
  BY DEF Framing
<1>2. PICK f \in Int : f = frame
  BY CallsKnown
<1>3. /\ f \in Calls /\ f >= -1 /\ \A i \in Calls : i \in Int /\ i <= f
      /\ Calls' = Calls \union {start}
      /\ LastCell(f)' = start - 1 /\ LastCell(start)' = start + a + b
      /\ LastCell(f) = top
  BY <1>2, CallsKnown, FramingCalls, InnermostCells
<1>4. PICK var \in Int : var = LastVar(f)
  BY <1>1, <1>2
<1>5. f <= var /\ var < start /\ LastVar(f)' = var
  <2>1. f # -1 => mem'[f] = mem[f]
    BY <1>1, <1>2, <1>3
  <2> QED BY <1>1, <1>2, <1>4, <2>1 DEF LastVar, Reserved
<1>6. LastVar(start)' = start + a + b
  BY <1>1 DEF LastVar
<1>7. \A i \in Calls \ {f} : Activation(i)' = Activation(i)
  <2> TAKE i \in Calls \ {f}
  <2>1. i < f /\ f \in Frames
    BY <1>2, <1>3, CallsKnown
  <2>2. top' \in Int /\ f <= top' /\ \A k \in 0 .. f : mem'[k] = mem[k]
    BY <1>1, <1>2
  <2> QED BY <2>1, <2>2, CallersKept
<1>8. PICK old : old = ActivationIn(mem, f, var, top)
  OBVIOUS
<1>9. PICK kept : kept = ActivationIn(mem', f, var, start - 1)
  OBVIOUS
<1>10. PICK new : new = ActivationIn(mem', start, start + a + b, start + a + b)
  OBVIOUS
<1>11. Activation(f) = old /\ Activation(f)' = kept /\ Activation(start)' = new
  BY <1>3, <1>4, <1>5, <1>6, <1>8, <1>9, <1>10, ActivationNow
<1>12. PICK n \in Nat : n = top - var
  BY <1>1, <1>4, <1>5
<1>13. /\ Len(old.ops) = n /\ DOMAIN old.ops = 1 .. n
       /\ \A k \in 1 .. n : old.ops[k] = mem[var + k]
  <2>1. top >= var + 1 - 1 /\ var + 1 \in Int /\ top \in Int
    BY <1>1, <1>4, <1>5
  <2>2. /\ DOMAIN Cells(mem, var + 1, top) = 1 .. (top - (var + 1) + 1)
        /\ Len(Cells(mem, var + 1, top)) = top - (var + 1) + 1
        /\ \A k \in 1 .. (top - (var + 1) + 1) : Cells(mem, var + 1, top)[k] = mem[var + 1 + k - 1]
    BY <2>1, CellsSequence
  <2>3. top - (var + 1) + 1 = n /\ \A k \in 1 .. n : var + 1 + k - 1 = var + k
    BY <1>12, <2>1
  <2>4. old.ops = Cells(mem, var + 1, top)
    BY <1>8 DEF ActivationIn
  <2> QED BY <2>2, <2>3, <2>4
<1>14. a \in 0 .. (n - 1)
  BY <1>1, <1>5, <1>12
<1>15. kept = [old EXCEPT !.ops = Abstract!Front(@, a + 1)]
  <2>1. kept.resume = old.resume /\ kept.vars = old.vars
    <3>1. f # -1 => mem'[f] = mem[f]
      BY <1>1, <1>2, <1>3
    <3>2. Cells(mem', f + 1, var) = Cells(mem, f + 1, var)
      <4>1. f + 1 \in Nat /\ var \in Int /\ start - 1 \in Int /\ var <= start - 1
        BY <1>1, <1>3, <1>5
      <4>2. PICK g \in Nat, h \in Int : g = f + 1 /\ h = start - 1
        BY <4>1
      <4>3. Cells(mem', g, var) = Cells(mem, g, var)
        <5>1. \A k \in 0 .. h : mem'[k] = mem[k]
          BY <1>1, <4>2
        <5>2. var <= h
          BY <4>1, <4>2
        <5> QED BY <5>1, <5>2, CellsSame
      <4> QED BY <4>2, <4>3
    <3> QED BY <3>1, <3>2, <1>8, <1>9 DEF ActivationIn
  <2>2. kept.ops = Abstract!Front(old.ops, a + 1)
    <3>1. kept.ops = [k \in 1 .. (start - 1 - var) |-> mem'[var + k]]
      <4>1. start - 1 - (var + 1) + 1 = start - 1 - var
        BY <1>1
      <4>2. \A k \in 1 .. (start - 1 - var) : var + 1 + k - 1 = var + k
        BY <1>1
      <4> QED BY <1>9, <4>1, <4>2 DEF ActivationIn, Cells
    <3>2. \A k \in 1 .. (start - 1 - var) : mem'[var + k] = mem[var + k]
      <4> TAKE k \in 1 .. (start - 1 - var)
      <4>1. var + k \in 0 .. (start - 1)
        BY <1>1, <1>3, <1>5
      <4> QED BY <1>1, <4>1
    <3>3. n - (a + 1) = start - 1 - var /\ start - 1 - var \in Nat /\ start - 1 - var <= n
      BY <1>1, <1>5, <1>12
    <3>4. SubSeq(old.ops, 1, n - (a + 1)) = [k \in 1 .. (start - 1 - var) |-> old.ops[k]]
      <4>1. PICK hi \in Nat : hi = start - 1 - var
        BY <3>3
      <4>2. SubSeq(old.ops, 1, hi) = [k \in 1 .. (hi - 1 + 1) |-> old.ops[1 + k - 1]]
        BY <4>1, PartOf
      <4>3. hi - 1 + 1 = hi /\ \A k \in 1 .. hi : 1 + k - 1 = k
        OBVIOUS
      <4> QED BY <3>3, <4>1, <4>2, <4>3
    <3>5. \A k \in 1 .. (start - 1 - var) : old.ops[k] = mem[var + k]
      BY <1>13, <3>3
    <3>6. Abstract!Front(old.ops, a + 1) = SubSeq(old.ops, 1, n - (a + 1))
      BY <1>13 DEF Abstract!Front
    <3>7. PICK S : S = 1 .. (start - 1 - var)
      OBVIOUS
    <3>8. [k \in S |-> mem'[var + k]] = [k \in S |-> old.ops[k]]
      BY <3>2, <3>5, <3>7
    <3> QED BY <3>1, <3>4, <3>6, <3>7, <3>8
  <2>3. /\ old = [resume |-> old.resume, vars |-> old.vars, ops |-> old.ops]
        /\ kept = [resume |-> kept.resume, vars |-> kept.vars, ops |-> kept.ops]
    BY <1>8, <1>9 DEF ActivationIn
  <2> QED BY <2>1, <2>2, <2>3
<1>16. new.resume = old.ops[n].num
  <2>1. old.ops[n] = mem[top]
    BY <1>1, <1>12, <1>13, <1>14
  <2> QED BY <1>1, <1>10, <2>1 DEF ActivationIn
<1>17. /\ Len(new.vars) = a + b
       /\ \A k \in 1 .. (a + b) : new.vars[k] = mem'[start + k]
       /\ new.ops = <<>>
  <2>1. PICK hi \in Int : hi = start + a + b
    BY <1>1
  <2>2. /\ Len(Cells(mem', start + 1, hi)) = hi - (start + 1) + 1
        /\ \A k \in 1 .. (hi - (start + 1) + 1) : Cells(mem', start + 1, hi)[k] = mem'[start + 1 + k - 1]
    <3>1. PICK lo \in Int : lo = start + 1
      BY <1>1
    <3>2. hi >= lo - 1
      BY <1>1, <2>1, <3>1
    <3>3. /\ Len(Cells(mem', lo, hi)) = hi - lo + 1
          /\ \A k \in 1 .. (hi - lo + 1) : Cells(mem', lo, hi)[k] = mem'[lo + k - 1]
      BY <3>2, CellsSequence
    <3> QED BY <3>1, <3>3
  <2>3. hi - (start + 1) + 1 = a + b /\ \A k \in 1 .. (a + b) : start + 1 + k - 1 = start + k
    BY <1>1, <2>1
  <2>4. new.vars = Cells(mem', start + 1, hi) /\ new.ops = Cells(mem', hi + 1, hi)
    BY <1>10, <2>1 DEF ActivationIn
  <2>5. Cells(mem', hi + 1, hi) = <<>>
    BY DEF Cells
  <2> QED BY <2>2, <2>3, <2>4, <2>5
<1>18. SubSeq(new.vars, 1, a) = SubSeq(old.ops, n - a, n - 1)
  <2>1. SubSeq(new.vars, 1, a) = [k \in 1 .. a |-> new.vars[k]]
    <3>1. SubSeq(new.vars, 1, a) = [k \in 1 .. (a - 1 + 1) |-> new.vars[1 + k - 1]]
      BY <1>1, PartOf
    <3>2. a - 1 + 1 = a /\ \A k \in 1 .. a : 1 + k - 1 = k
      BY <1>1
    <3> QED BY <3>1, <3>2
  <2>2. SubSeq(old.ops, n - a, n - 1) = [k \in 1 .. a |-> old.ops[n - a + k - 1]]
    <3>1. PICK lo \in Int, hi \in Int : lo = n - a /\ hi = n - 1
      BY <1>1
    <3>2. hi - lo + 1 = a /\ hi >= lo - 1
      BY <1>1, <3>1
    <3>3. SubSeq(old.ops, lo, hi) = [k \in 1 .. (hi - lo + 1) |-> old.ops[lo + k - 1]]
      BY <3>2, PartOf
    <3> QED BY <3>1, <3>2, <3>3
  <2>3. \A k \in 1 .. a : new.vars[k] = old.ops[n - a + k - 1]
    <3> TAKE k \in 1 .. a
    <3>1. k \in 1 .. (a + b) /\ n - a + k - 1 \in 1 .. n
      BY <1>1, <1>14
    <3>2. new.vars[k] = mem[start + k - 1]
      BY <1>1, <1>17, <3>1
    <3>3. old.ops[n - a + k - 1] = mem[var + (n - a + k - 1)]
      BY <1>13, <3>1
    <3>4. var + (n - a + k - 1) = start + k - 1
      BY <1>1, <1>12
    <3> QED BY <3>2, <3>3, <3>4
  <2> QED BY <2>1, <2>2, <2>3
<1>19. /\ Abstract!Innermost = f /\ Abstract!Callers = Calls \ {f} /\ Abstract!Current = old
  BY <1>2, <1>11, InnermostKnown
<1>20. /\ DOMAIN ActiveCalls = Calls /\ \A i \in Calls : ActiveCalls[i] = Activation(i)
       /\ DOMAIN ActiveCalls' = Calls \union {start}
       /\ \A i \in Calls \union {start} : ActiveCalls'[i] = Activation(i)'
  BY <1>3, ActsKnown
<1>21. start \in DOMAIN ActiveCalls' /\ \A i \in DOMAIN ActiveCalls : i < start
  <2>1. \A i \in Calls : i < start
    BY <1>1, <1>2, <1>3
  <2> QED BY <2>1, <1>20
<1>22. /\ ActiveCalls'[start] = new /\ ActiveCalls'[f] = kept
       /\ \A i \in Calls \ {f} : ActiveCalls'[i] = ActiveCalls[i]
  BY <1>3, <1>7, <1>11, <1>20
<1>23. Len(new.vars) >= a
  BY <1>1, <1>17
<1>24. Abstract!Enter
  BY <1>1, <1>13, <1>14, <1>15, <1>16, <1>17, <1>18, <1>19, <1>20, <1>21, <1>22, <1>23
     DEF Abstract!Enter, Running
<1> QED BY <1>24 DEF Abstract!ActNext

-----------------------------------------------------------------------------
(* OP_RETURN_*.                                                            *)

\* What a return leaves: the caller's call at j is the innermost one, the cells below
\* the frame at f, which was, are as they were, and v lies on them.
Returning(j, f, v) ==
  /\ f = frame /\ f \in Nat /\ j \in Frames /\ j < f
  /\ \A h \in (j + 1) .. (f - 1) : mem[h].type # "frame"
  /\ frame' = j /\ top' = f - 1 + Len(v) /\ pc' = mem[f].num
  /\ \A k \in 0 .. (f - 1) : mem'[k] = mem[k]
  /\ v \in {<<>>, Abstract!LastOf(Activation(f).ops)}
  /\ v # <<>> => v = <<mem'[f]>> /\ mem'[f].type # "frame"

LEMMA LengthOne ==
  ASSUME NEW v, NEW x, v # <<>> => v = <<x>>
  PROVE  Len(v) = IF v = <<>> THEN 0 ELSE 1
<1>1. Len(<<>>) = 0 /\ Len(<<x>>) = 1
  OBVIOUS
<1> QED BY <1>1

\* The last operand of the innermost call is the topmost value.
LEMMA LastOperand ==
  ASSUME NEW d, StackInv(d), Running, frame \in Nat, Reserved(frame) \in Nat,
         top > frame + Reserved(frame)
  PROVE  Abstract!LastOf(Activation(frame).ops) = <<mem[top]>>
<1>1. PICK var \in Int : var = frame + Reserved(frame)
  OBVIOUS
<1>2. LastVar(frame) = var /\ LastCell(frame) = top /\ top \in Int
  BY <1>1, InnermostCells, CallsKnown DEF LastVar
<1>3. PICK lo \in Int : lo = var + 1
  OBVIOUS
<1>4. Activation(frame).ops = Cells(mem, lo, top)
  BY <1>2, <1>3, ActivationNow DEF ActivationIn
<1>5. top >= lo
  BY <1>1, <1>2, <1>3
<1>6. PICK s : s = Cells(mem, lo, top)
  OBVIOUS
<1>7. DOMAIN s = 1 .. (top - lo + 1) /\ Len(s) = top - lo + 1
      /\ \A k \in 1 .. (top - lo + 1) : s[k] = mem[lo + k - 1]
  <2>1. top >= lo - 1
    BY <1>2, <1>5
  <2> QED BY <1>2, <1>6, <2>1, CellsSequence
<1>8. PICK n \in Nat \ {0} : n = top - lo + 1
  BY <1>2, <1>5
<1>9. lo + n - 1 = top
  BY <1>2, <1>8
<1>10. s[Len(s)] = mem[top]
  BY <1>7, <1>8, <1>9
<1>11. s # <<>>
  BY <1>7, <1>8
<1> QED BY <1>4, <1>6, <1>10, <1>11 DEF Abstract!LastOf

LEMMA ReturnsDone ==
  ASSUME NEW d, StackInv(d), Running, ~Outermost, Inst.op # "frame",
         NEW v, ReturnsWith(v), v = <<>> \/ (v = <<Arg(1)>> /\ top > frame + Reserved(frame))
  PROVE  \E j, f : Returning(j, f, v)
<1>1. /\ frame \in 0 .. (StackSize - 1) /\ Chain(program, d, mem, frame)
      /\ NoFrames(mem, frame + 1, top)
  BY FunctionRuns
<1>2. /\ Disciplined(program, d) /\ mem \in [Memory -> Value] /\ top \in Int
      /\ frame <= top /\ top <= StackSize + Behind - 1
  BY TypesNow, CallsKnown DEF StackInv
<1>3. PICK f \in Nat \ {0} : f = frame
  BY <1>1, OutermostIsLowest
<1>4. PICK j \in 0 .. (f - 1) : Awaits(program, d, mem, j, f)
  BY <1>1, <1>3, ChainDown
<1>5. mem[j].type = "frame" /\ \A h \in (j + 1) .. (f - 1) : mem[h].type # "frame"
  BY <1>4 DEF Awaits
<1>6. j \in Frames /\ j < f /\ j \in Nat
  BY <1>2, <1>3, <1>4, <1>5 DEF Frames
<1>7. Reserved(frame) \in Nat
  BY <1>1, <1>2, <1>3, CountsNat DEF Reserved, CountsOf
<1>8. v # <<>> => v = <<mem[top]>> /\ mem[top].type # "frame"
  <2>1. top - 1 + 1 = top
    BY <1>2
  <2>2. v # <<>> => top \in (frame + 1) .. top
    BY <1>2, <1>3, <1>7
  <2> QED BY <1>1, <2>1, <2>2 DEF Arg, NoFrames
<1>9. v \in {<<>>, Abstract!LastOf(Activation(f).ops)}
  BY <1>3, <1>7, <1>8, LastOperand
<1>10. PICK m : m = IF v = <<>> THEN mem ELSE Set(frame, v[1])
  OBVIOUS
<1>11. PICK t \in Int : t = f - 1 + Len(v)
  <2>1. Len(v) = IF v = <<>> THEN 0 ELSE 1
    BY <1>8, LengthOne
  <2> QED BY <2>1
<1>12. /\ mem' = m /\ top' = t /\ frame' = FrameBelow(m, t) /\ pc' = mem[f].num
  BY <1>3, <1>10, <1>11 DEF ReturnsWith, Leaves
<1>13. \A k \in 0 .. (f - 1) : m[k] = mem[k]
  BY <1>2, <1>3, <1>10 DEF Set
<1>14. v # <<>> => v = <<m[f]>> /\ m[f].type # "frame"
  <2>1. f \in Memory
    BY <1>2, <1>3, LimitsAssumption DEF Memory
  <2> QED BY <1>2, <1>3, <1>8, <1>10, <2>1 DEF Set
<1>15. /\ v = <<>> => t = f - 1
       /\ v # <<>> => t = f
  <2>1. Len(v) = IF v = <<>> THEN 0 ELSE 1
    BY <1>8, LengthOne
  <2>2. f - 1 + 0 = f - 1 /\ f - 1 + 1 = f
    OBVIOUS
  <2> QED BY <1>11, <2>1, <2>2
<1>16. FrameBelow(m, t) = j
  <2>1. m[j].type = "frame"
    BY <1>5, <1>13
  <2>2. NoFrames(m, j + 1, t)
    BY <1>5, <1>6, <1>13, <1>14, <1>15 DEF NoFrames
  <2>3. j \in 0 .. t
    BY <1>4, <1>15
  <2> QED BY <2>1, <2>2, <2>3, FrameBelowFinds
<1>17. Returning(j, f, v)
  BY <1>3, <1>5, <1>6, <1>9, <1>11, <1>12, <1>13, <1>14, <1>16 DEF Returning
<1> QED BY <1>17

\* The call that returns is gone, the others are there, and the caller's operands
\* reach up to what it is given.
LEMMA ReturningCalls ==
  ASSUME NEW d, StackInv(d), StackInv(d)', Running, Running',
         NEW j, NEW f, NEW v, Returning(j, f, v)
  PROVE  /\ Frames' = Frames \ {f} /\ Calls' = Calls \ {f}
         /\ LastCell(j) = f - 1 /\ LastCell(j)' = f - 1 + Len(v)
<1>1. /\ f \in Frames /\ Frames \subseteq Nat /\ top \in Int /\ f <= top
      /\ \A i \in Frames : i <= f
  BY FramesBelow, CallsKnown DEF Returning
<1>2. /\ f = frame /\ f \in Nat /\ j \in Frames /\ j < f
      /\ \A h \in (j + 1) .. (f - 1) : mem[h].type # "frame"
      /\ frame' = j /\ top' = f - 1 + Len(v)
      /\ \A k \in 0 .. (f - 1) : mem'[k] = mem[k]
      /\ v # <<>> => v = <<mem'[f]>> /\ mem'[f].type # "frame"
  BY DEF Returning
<1>3. /\ v = <<>> => top' = f - 1
      /\ v # <<>> => top' = f /\ mem'[f].type # "frame"
  <2>1. Len(v) = IF v = <<>> THEN 0 ELSE 1
    BY <1>2, LengthOne
  <2>2. f - 1 + 0 = f - 1 /\ f - 1 + 1 = f
    BY <1>2
  <2> QED BY <1>2, <2>1, <2>2
<1>4. ASSUME NEW i \in Frames'
      PROVE  i \in Frames \ {f}
  <2>1. i \in 0 .. top' /\ mem'[i].type = "frame"
    BY <1>4 DEF Frames
  <2>2. i \in 0 .. (f - 1)
    BY <1>2, <1>3, <2>1
  <2> QED BY <1>1, <1>2, <2>1, <2>2 DEF Frames
<1>5. ASSUME NEW i \in Frames \ {f}
      PROVE  i \in Frames'
  <2>1. i \in 0 .. (f - 1) /\ i \in 0 .. top' /\ mem[i].type = "frame"
    BY <1>1, <1>2, <1>3, <1>5 DEF Frames
  <2> QED BY <1>2, <2>1 DEF Frames
<1>6. Frames' = Frames \ {f}
  BY <1>4, <1>5
<1>7. Calls' = Calls \ {f}
  BY <1>2, <1>6 DEF Calls
<1>8. LastCell(j) = f - 1
  <2>1. \A h \in Frames : h > j => f <= h
    <3> SUFFICES ASSUME NEW h \in Frames, h > j, ~(f <= h) PROVE FALSE
      OBVIOUS
    <3>1. h \in (j + 1) .. (f - 1) /\ mem[h].type = "frame"
      BY <1>1, <1>2 DEF Frames
    <3> QED BY <1>2, <3>1
  <2>2. (CHOOSE g \in Frames : g > j /\ \A h \in Frames : h > j => g <= h) = f
    BY <1>1, <1>2, <2>1, ChooseAbove
  <2> QED BY <1>1, <1>2, <2>2 DEF LastCell, IsAbove
<1>9. LastCell(j)' = top'
  <2>1. ~ \E i \in Frames' : i > j
    <3> SUFFICES ASSUME NEW i \in Frames', i > j PROVE FALSE
      OBVIOUS
    <3>1. i \in Frames /\ i # f
      BY <1>6
    <3>2. i \in (j + 1) .. (f - 1) /\ mem[i].type = "frame"
      BY <1>1, <1>2, <3>1 DEF Frames
    <3> QED BY <1>2, <3>2
  <2> QED BY <2>1 DEF LastCell
<1> QED BY <1>2, <1>6, <1>7, <1>8, <1>9

LEMMA CellsJoin ==
  ASSUME NEW m, NEW n, NEW lo \in Int, NEW hi \in Int, hi >= lo - 1,
         \A k \in lo .. hi : n[k] = m[k]
  PROVE  /\ Cells(m, lo, hi) \o <<>> = Cells(m, lo, hi)
         /\ Cells(n, lo, hi + 1) = Cells(m, lo, hi) \o <<n[hi + 1]>>
<1>1. PICK s : s = Cells(m, lo, hi)
  OBVIOUS
<1>2. PICK len \in Nat : len = hi - lo + 1
  OBVIOUS
<1>3. /\ DOMAIN s = 1 .. len /\ Len(s) = len
      /\ \A k \in 1 .. len : s[k] = m[lo + k - 1]
  BY <1>1, <1>2, CellsSequence
<1>4. PICK S : S = {m[k] : k \in lo .. hi} \union {n[hi + 1]}
  OBVIOUS
<1>5. s = [k \in 1 .. len |-> m[lo + k - 1]]
  BY <1>1, <1>2 DEF Cells
<1>6. s \in Seq(S)
  <2>1. \A k \in 1 .. len : lo + k - 1 \in lo .. hi
    BY <1>2
  <2>2. \A k \in 1 .. len : m[lo + k - 1] \in S
    BY <1>4, <2>1
  <2>3. s \in [1 .. len -> S]
    BY <1>5, <2>2
  <2> QED BY <1>2, <2>3
<1>7. s \o <<>> = s
  BY <1>6
<1>8. PICK x \in S : x = n[hi + 1]
  BY <1>4
<1>9. PICK r : r = s \o <<x>>
  OBVIOUS
<1>10. /\ r \in Seq(S) /\ Len(r) = len + 1
       /\ \A k \in 1 .. len : r[k] = s[k]
       /\ r[len + 1] = x
  BY <1>3, <1>6, <1>9
<1>11. r = [k \in 1 .. (len + 1) |-> r[k]]
  BY <1>10
<1>12. Cells(n, lo, hi + 1) = [k \in 1 .. (len + 1) |-> n[lo + k - 1]]
  <2>1. hi + 1 - lo + 1 = len + 1
    BY <1>2
  <2> QED BY <2>1 DEF Cells
<1>13. \A k \in 1 .. (len + 1) : r[k] = n[lo + k - 1]
  <2> TAKE k \in 1 .. (len + 1)
  <2>1. CASE k \in 1 .. len
    <3>1. lo + k - 1 \in lo .. hi
      BY <1>2, <2>1
    <3> QED BY <1>3, <1>10, <2>1, <3>1
  <2>2. CASE k = len + 1
    <3>1. lo + k - 1 = hi + 1
      BY <1>2, <2>2
    <3> QED BY <1>8, <1>10, <2>2, <3>1
  <2> QED BY <1>2, <2>1, <2>2
<1> QED BY <1>1, <1>7, <1>8, <1>9, <1>11, <1>12, <1>13

\* The caller goes on where it asked for, with its variables and operands as they
\* were, and the result.
LEMMA LeaveMaps ==
  ASSUME NEW d, StackInv(d), StackInv(d)', Running, Running',
         NEW j, NEW f, NEW v, Returning(j, f, v)
  PROVE  Abstract!ActNext
<1>1. /\ f = frame /\ f \in Nat /\ j \in Frames /\ j < f
      /\ \A h \in (j + 1) .. (f - 1) : mem[h].type # "frame"
      /\ pc' = mem[f].num /\ top' = f - 1 + Len(v)
      /\ \A k \in 0 .. (f - 1) : mem'[k] = mem[k]
      /\ v \in {<<>>, Abstract!LastOf(Activation(f).ops)}
      /\ v # <<>> => v = <<mem'[f]>>
  BY DEF Returning
<1>2. /\ Frames' = Frames \ {f} /\ Calls' = Calls \ {f}
      /\ LastCell(j) = f - 1 /\ LastCell(j)' = f - 1 + Len(v)
  BY ReturningCalls
<1>3. /\ Frames \subseteq Nat /\ f \in Calls /\ \A i \in Calls : i \in Int /\ i <= f
      /\ \A i \in Calls : i # -1 => i \in Frames
      /\ j \in Nat /\ top \in Int /\ f <= top
  BY <1>1, CallsKnown
<1>4. j \in Calls \ {f} /\ -1 \in Calls \ {f} /\ -1 < j
  BY <1>1, <1>3 DEF Calls
<1>5. ASSUME NEW i \in Calls \ {f}
      PROVE  i <= j
  <2> SUFFICES ASSUME ~(i <= j) PROVE FALSE
    OBVIOUS
  <2>1. i \in Frames /\ i \in (j + 1) .. (f - 1)
    BY <1>1, <1>3, <1>4
  <2>2. mem[i].type = "frame"
    BY <2>1 DEF Frames
  <2> QED BY <1>1, <2>1, <2>2
<1>6. Len(v) = IF v = <<>> THEN 0 ELSE 1
  BY <1>1, LengthOne
<1>7. ASSUME NEW i \in Calls \ {f, j}
      PROVE  Activation(i)' = Activation(i)
  <2>1. i < j
    BY <1>3, <1>5, <1>7
  <2>2. \A k \in 0 .. j : mem'[k] = mem[k]
    BY <1>1, <1>3
  <2>3. top' \in Int /\ j <= top'
    BY <1>1, <1>3, <1>6
  <2> QED BY <1>1, <2>1, <2>2, <2>3, CallersKept
<1>8. LastVar(j) \in Int /\ j <= LastVar(j) /\ LastVar(j) <= f - 1
  <2>1. j \in Calls /\ j # frame
    BY <1>1, <1>4
  <2>2. PICK g \in Nat : /\ LastCell(j) = g - 1
                         /\ LastVar(j) \in Int /\ j <= LastVar(j) /\ LastVar(j) <= g - 1
    BY <2>1, CallCells
  <2> QED BY <1>2, <2>2
<1>9. PICK var \in Int : var = LastVar(j)
  BY <1>8
<1>10. LastVar(j)' = var
  <2>1. mem'[j] = mem[j]
    BY <1>1, <1>3
  <2> QED BY <1>9, <2>1 DEF LastVar, Reserved
<1>11. PICK last \in Int : last = f - 1
  BY <1>1
<1>12. PICK old : old = ActivationIn(mem, j, var, last)
  OBVIOUS
<1>13. PICK new : new = ActivationIn(mem', j, var, last + Len(v))
  OBVIOUS
<1>14. Activation(j) = old /\ Activation(j)' = new
  BY <1>2, <1>9, <1>10, <1>11, <1>12, <1>13, ActivationNow
<1>15. PICK same : same = ActivationIn(mem', j, var, last)
  OBVIOUS
<1>16. same = old
  BY <1>1, <1>3, <1>8, <1>9, <1>11, <1>12, <1>15, ActivationSame
<1>17. new.resume = old.resume /\ new.vars = old.vars
  BY <1>13, <1>15, <1>16 DEF ActivationIn
<1>18. new.ops = old.ops \o v
  <2>1. PICK lo \in Int : lo = var + 1
    OBVIOUS
  <2>2. last >= lo - 1 /\ last + 1 = f /\ last + 0 = last
    BY <1>1, <1>8, <1>9, <1>11, <2>1
  <2>3. \A k \in lo .. last : mem'[k] = mem[k]
    BY <1>1, <1>3, <1>8, <1>9, <1>11, <2>1
  <2>4. /\ old.ops = Cells(mem, lo, last)
        /\ same.ops = Cells(mem', lo, last)
        /\ new.ops = Cells(mem', lo, last + Len(v))
    BY <1>12, <1>13, <1>15, <2>1 DEF ActivationIn
  <2>5. /\ Cells(mem, lo, last) \o <<>> = Cells(mem, lo, last)
        /\ Cells(mem', lo, last + 1) = Cells(mem, lo, last) \o <<mem'[last + 1]>>
    BY <2>2, <2>3, CellsJoin
  <2>6. CASE v = <<>>
    BY <1>6, <1>16, <2>2, <2>4, <2>5, <2>6
  <2>7. CASE v # <<>>
    BY <1>1, <1>6, <2>2, <2>4, <2>5, <2>7
  <2> QED BY <2>6, <2>7
<1>19. new = [old EXCEPT !.ops = @ \o v]
  <2>1. /\ old = [resume |-> old.resume, vars |-> old.vars, ops |-> old.ops]
        /\ new = [resume |-> new.resume, vars |-> new.vars, ops |-> new.ops]
    BY <1>12, <1>13 DEF ActivationIn
  <2> QED BY <1>17, <1>18, <2>1
<1>20. /\ Abstract!Callers = Calls \ {f} /\ Abstract!Current = Activation(f)
  BY <1>1, InnermostKnown
<1>21. /\ DOMAIN ActiveCalls = Calls /\ \A i \in Calls : ActiveCalls[i] = Activation(i)
       /\ DOMAIN ActiveCalls' = Calls \ {f}
       /\ \A i \in Calls \ {f} : ActiveCalls'[i] = Activation(i)'
  BY <1>2, ActsKnown
<1>22. /\ \A i \in (Calls \ {f}) \ {j} : ActiveCalls'[i] = ActiveCalls[i]
       /\ ActiveCalls[j] = old /\ ActiveCalls'[j] = new
  BY <1>4, <1>7, <1>14, <1>21
<1>23. pc' = Activation(f).resume
  BY <1>1 DEF Activation
<1>24. Abstract!Leave
  BY <1>1, <1>4, <1>5, <1>19, <1>20, <1>21, <1>22, <1>23 DEF Abstract!Leave, Running
<1> QED BY <1>24 DEF Abstract!ActNext

LEMMA ReturnMaps ==
  ASSUME NEW d, StackInv(d), StackInv(d)', ReturnNothing \/ ReturnValue
  PROVE  Abstract!ActNext
<1>1. Running /\ Inst.op # "frame"
  BY DEF ReturnNothing, ReturnValue, At
<1>2. CASE ~Running'
  BY <1>1, <1>2, StopMaps
<1>3. ASSUME NEW v, ~Outermost, ReturnsWith(v), Running',
             v = <<>> \/ (v = <<Arg(1)>> /\ top > frame + Reserved(frame))
      PROVE  Abstract!ActNext
  <2>1. PICK j, f : Returning(j, f, v)
    BY <1>1, <1>3, ReturnsDone
  <2> QED BY <1>1, <1>3, <2>1, LeaveMaps
<1>4. CASE Outermost
  BY <1>2, <1>4 DEF ReturnNothing, ReturnValue, Ends, Running
<1>5. CASE ~Outermost /\ Running'
  <2>1. CASE ReturnsWith(<<>>)
    BY <1>3, <1>5, <2>1
  <2>2. CASE top > frame + Reserved(frame) /\ ReturnsWith(<<Arg(1)>>)
    BY <1>3, <1>5, <2>2
  <2> QED BY <1>5, <2>1, <2>2 DEF ReturnNothing, ReturnValue
<1> QED BY <1>2, <1>4, <1>5

LEMMA FrameMaps ==
  ASSUME NEW d, StackInv(d), StackInv(d)', CountsFit(program), MakeFrame
  PROVE  Abstract!ActNext
<1>1. Running
  BY DEF MakeFrame, At
<1>2. CASE ~Running'
  BY <1>1, <1>2, StopMaps
<1>3. CASE Running'
  <2>1. PICK start, a, b : Framing(start, a, b)
    BY <1>3, FramingDone
  <2> QED BY <1>1, <1>3, <2>1, EnterMaps
<1> QED BY <1>2, <1>3

-----------------------------------------------------------------------------
(* The refinement.                                                         *)

LEMMA ProgramKept ==
  ASSUME [Next]_vars
  PROVE  program' = program
<1>1. ASSUME NEW ops, At(ops)
      PROVE  program' = program
  BY <1>1 DEF At
<1>2. CASE OutOfCycles \/ Refuse \/ UNCHANGED vars
  BY <1>2 DEF OutOfCycles, Refuse, vars
<1>3. CASE PushValue \/ Pop \/ Arithmetic \/ Comparison \/ Logical \/ Unary \/ Duplicate \/ Rotate
  BY <1>1, <1>3 DEF PushValue, Pop, Arithmetic, Comparison, Logical, Unary, Duplicate, Rotate
<1>4. CASE Trap \/ Jump \/ JumpIfFalse \/ Stop \/ Call \/ MakeFrame \/ ReturnNothing \/ ReturnValue
  BY <1>1, <1>4 DEF Trap, Jump, JumpIfFalse, Stop, Call, MakeFrame, ReturnNothing, ReturnValue
<1>5. CASE StoreLocal \/ LoadLocal \/ MakeArray \/ ArrayLength \/ MakeIter \/ IterNext \/ CallNative
  BY <1>1, <1>5 DEF StoreLocal, LoadLocal, MakeArray, ArrayLength, MakeIter, IterNext, CallNative
<1> QED BY <1>2, <1>3, <1>4, <1>5 DEF Next

LEMMA InitMaps ==
  ASSUME NEW d, StackInv(d), Init
  PROVE  Abstract!ActInit
<1>1. frame = -1 /\ Running
  BY DEF Init, Running
<1>2. Frames = {}
  BY <1>1, CallsKnown
<1>3. DOMAIN ActiveCalls = {-1}
  BY <1>1, <1>2 DEF Calls, ActiveCalls
<1> QED BY <1>1, <1>3 DEF Abstract!ActInit

LEMMA StepMaps ==
  ASSUME NEW d, StackInv(d), StackInv(d)', CountsFit(program), [Next]_vars
  PROVE  [Abstract!ActNext]_(Abstract!actVars)
<1>1. ASSUME NEW ops, At(ops), "frame" \notin ops, BelowKept
      PROVE  Abstract!ActNext
  <2>1. Running /\ Inst.op # "frame"
    BY <1>1 DEF At
  <2> QED BY <1>1, <2>1, WorkStep
<1>2. CASE PushValue \/ Arithmetic \/ Comparison \/ Logical \/ Unary \/ LoadLocal
  <2>1. BelowKept
    BY <1>2, OperandsKeep
  <2> QED BY <1>1, <1>2, <2>1 DEF PushValue, Arithmetic, Comparison, Logical, Unary, LoadLocal,
                               Arith, Compare, Logic
<1>3. CASE Pop \/ Jump \/ JumpIfFalse \/ Call \/ StoreLocal
  <2>1. BelowKept
    BY <1>3, ControlKeeps
  <2> QED BY <1>1, <1>3, <2>1 DEF Pop, Jump, JumpIfFalse, Call, StoreLocal
<1>4. CASE MakeArray \/ ArrayLength \/ MakeIter \/ CallNative
  <2>1. BelowKept
    BY <1>4, DataKeeps
  <2> QED BY <1>1, <1>4, <2>1 DEF MakeArray, ArrayLength, MakeIter, CallNative
<1>5. CASE Duplicate \/ Rotate \/ IterNext
  <2>1. BelowKept
    BY <1>5, SpreadKeeps
  <2> QED BY <1>1, <1>5, <2>1 DEF Duplicate, Rotate, IterNext
<1>6. CASE Trap \/ Stop \/ OutOfCycles \/ Refuse
  <2>1. Running
    BY <1>6 DEF Trap, Stop, OutOfCycles, Refuse, At
  <2>2. ~Running'
    <3>1. Inst.op \in {"halt", "exit", "print"} => Inst.op # "run"
      OBVIOUS
    <3> QED BY <1>6, <3>1 DEF Trap, Stop, OutOfCycles, Refuse, At, Ends, Running
  <2> QED BY <2>1, <2>2, StopMaps
<1>7. CASE MakeFrame
  BY <1>7, FrameMaps
<1>8. CASE ReturnNothing \/ ReturnValue
  BY <1>8, ReturnMaps
<1>9. CASE UNCHANGED vars
  <2>1. ActiveCalls' = ActiveCalls /\ pc' = pc /\ Running' = Running
    BY <1>9 DEF vars, ActiveCalls, Calls, Frames, Activation, Between, LastVar, LastCell, IsAbove,
                Reserved, Running
  <2> QED BY <2>1 DEF Abstract!actVars
<1> QED BY <1>2, <1>3, <1>4, <1>5, <1>6, <1>7, <1>8, <1>9 DEF Next

\* A disciplined program's calls keep out of one another: whatever it does on the one
\* stack, each instruction works on the variables and operands of the innermost call
\* only, a call takes from its caller the arguments and nothing else, and a return
\* gives it the result and goes on where it asked for.
THEOREM DisciplinedImplements ==
  ASSUME NEW CONSTANT d
  PROVE  Spec /\ Disciplined(program, d) /\ CountsFit(program) => ImplementsActivations
<1>1. Init /\ Disciplined(program, d) => StackInv(d)
  BY StackInvInit
<1>2. StackInv(d) /\ Init => Abstract!ActInit
  BY InitMaps
<1>3. StackInv(d) /\ [Next]_vars => StackInv(d)'
  BY StackInvStep
<1>4. CountsFit(program) /\ [Next]_vars => CountsFit(program)'
  BY ProgramKept
<1>5. StackInv(d) /\ StackInv(d)' /\ CountsFit(program) /\ [Next]_vars
        => [Abstract!ActNext]_(Abstract!actVars)
  BY StepMaps
<1> QED BY <1>1, <1>2, <1>3, <1>4, <1>5, PTL
           DEF Spec, ImplementsActivations, Abstract!ActSpec
=============================================================================
