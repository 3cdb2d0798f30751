---------------------------- MODULE Activations ----------------------------
(***************************************************************************)
(* What the interpreter's stack promises to every call: variables and      *)
(* operands of its own.  There is no memory here and no frame: a call is an *)
(* activation, and whatever instructions run in it, the activations of its *)
(* callers do not change until it returns, at the place its caller asked   *)
(* for.  VmExecRefinement shows that VmExec implements this specification. *)
(***************************************************************************)
EXTENDS Integers, Sequences

VARIABLES
  acts,   \* the active calls, the host's among them, by numbers that rise inward
  at,     \* the next instruction
  live    \* whether the program still runs

actVars == <<acts, at, live>>

Innermost == CHOOSE c \in DOMAIN acts : \A i \in DOMAIN acts : i <= c
Callers   == DOMAIN acts \ {Innermost}
Current   == acts[Innermost]

Front(s, k) == SubSeq(s, 1, Len(s) - k)

\* The last operand of a call, if it has one.
LastOf(ops) == IF ops = <<>> THEN <<>> ELSE <<ops[Len(ops)]>>

\* An instruction works on the variables and operands of the current call.
Work ==
  /\ live' = TRUE
  /\ DOMAIN acts' = DOMAIN acts
  /\ \A i \in Callers : acts'[i] = acts[i]
  /\ acts'[Innermost].resume = Current.resume
  /\ Len(acts'[Innermost].vars) = Len(Current.vars)

\* A call takes its arguments and the address to resume at from its caller's
\* operands.
Enter ==
  /\ live' = TRUE
  /\ \E c \in DOMAIN acts' :
       /\ \A i \in DOMAIN acts : i < c
       /\ DOMAIN acts' = DOMAIN acts \union {c}
       /\ \A i \in Callers : acts'[i] = acts[i]
       /\ LET n   == Len(Current.ops)
              new == acts'[c]
          IN  \E k \in 0 .. (n - 1) :
                /\ acts'[Innermost] = [Current EXCEPT !.ops = Front(@, k + 1)]
                /\ new.resume = Current.ops[n].num
                /\ Len(new.vars) >= k
                /\ SubSeq(new.vars, 1, k) = SubSeq(Current.ops, n - k, n - 1)
                /\ new.ops = <<>>
  /\ at' = at + 1

\* A call returns to where its caller asked for, with its last operand, if it has
\* one, or with nothing; the host's own call does not return.
Leave ==
  /\ live' = TRUE
  /\ DOMAIN acts' = Callers
  /\ \E c \in Callers :
       /\ \A i \in Callers : i <= c
       /\ \E host \in Callers : host < c
       /\ \A i \in Callers \ {c} : acts'[i] = acts[i]
       /\ \E result \in {<<>>, LastOf(Current.ops)} :
            acts'[c] = [acts[c] EXCEPT !.ops = @ \o result]
  /\ at' = Current.resume

\* The program ends, and its calls with it.
Stop == live' = FALSE /\ acts' = <<>>

ActInit ==
  /\ \E host \in DOMAIN acts : DOMAIN acts = {host}
  /\ live = TRUE

ActNext == live /\ (Work \/ Enter \/ Leave \/ Stop)

ActSpec == ActInit /\ [][ActNext]_actVars
=============================================================================
