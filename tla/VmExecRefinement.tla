-------------------------- MODULE VmExecRefinement --------------------------
(***************************************************************************)
(* VmExec implements Activations: the frames on the stack cut it into the  *)
(* active calls, which go by the cells of their frames, the host's by -1.  *)
(***************************************************************************)
EXTENDS VmExec

Calls == Frames \union {-1}

Between(lo, hi) == [i \in 1 .. (hi - lo + 1) |-> mem[lo + i - 1]]

IsAbove(j, i) == j > i /\ \A h \in Frames : h > i => j <= h

\* The topmost cell of the call i: the next frame lies on it.
LastCell(i) ==
  IF \E j \in Frames : j > i THEN (CHOOSE j \in Frames : IsAbove(j, i)) - 1 ELSE top

\* The topmost cell of its variables: the host has none.
LastVar(i) == IF i = -1 THEN -1 ELSE i + Reserved(i)

\* The call's arguments and locals, then its operands.  The values under the first
\* frame are the host's.
Activation(i) ==
  [resume |-> IF i = -1 THEN -1 ELSE mem[i].num,
   vars   |-> Between(i + 1, LastVar(i)),
   ops    |-> Between(LastVar(i) + 1, LastCell(i))]

ActiveCalls == IF Running THEN [i \in Calls |-> Activation(i)] ELSE <<>>

Abstract == INSTANCE Activations WITH acts <- ActiveCalls, at <- pc, live <- Running

\* Every instruction works on the current call only; OP_MAKE_FRAME hands over the
\* arguments and OP_RETURN_* the result, and nothing else, however frames and
\* arguments are moved about on the one stack.
ImplementsActivations == Abstract!ActSpec
=============================================================================
