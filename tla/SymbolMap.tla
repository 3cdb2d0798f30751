------------------------------ MODULE SymbolMap ------------------------------
(***************************************************************************)
(* What a table of symbols promises its users, the compiler's variables    *)
(* and functions and the tokenizer's keywords: a key is bound once, stays  *)
(* bound to that value until everything is cleared, and every request is   *)
(* answered by what is bound then.                                         *)
(***************************************************************************)
CONSTANTS Keys, Vals, NoVal

VARIABLES
  bound,    \* the value of every key that has one
  request,  \* what is asked and not answered yet
  starved,  \* there is no memory for what is asked
  answer    \* the last answer

symbols == <<bound, request, starved, answer>>

Requests == [op : {"none", "lookup"}, key : Keys, val : {NoVal}]
              \union [op : {"insert"}, key : Keys, val : Vals]

NoBinding == [k \in {} |-> NoVal]
Reply(is, v) == [is |-> is, val |-> v]

Init ==
  /\ bound = NoBinding
  /\ request \in [op : {"none"}, key : Keys, val : {NoVal}]
  /\ starved = FALSE
  /\ answer = Reply("none", NoVal)

Ask(r) ==
  /\ request.op = "none" /\ r.op # "none"
  /\ request' = r
  /\ starved' = FALSE
  /\ UNCHANGED <<bound, answer>>

Answer(reply) ==
  /\ answer' = reply
  /\ request' = [request EXCEPT !.op = "none", !.val = NoVal]

Starve ==
  /\ request.op = "insert"
  /\ starved' = TRUE
  /\ Answer(Reply("refused", NoVal))
  /\ UNCHANGED bound

Store ==
  /\ request.op = "insert" /\ request.key \notin DOMAIN bound
  /\ bound' = [k \in DOMAIN bound \union {request.key} |->
                 IF k = request.key THEN request.val ELSE bound[k]]
  /\ Answer(Reply("stored", NoVal))
  /\ UNCHANGED starved

Refuse ==
  /\ request.op = "insert" /\ request.key \in DOMAIN bound
  /\ Answer(Reply("refused", NoVal))
  /\ UNCHANGED <<bound, starved>>

Find ==
  /\ request.op = "lookup"
  /\ Answer(IF request.key \in DOMAIN bound THEN Reply("found", bound[request.key])
                                            ELSE Reply("absent", NoVal))
  /\ UNCHANGED <<bound, starved>>

Clear ==
  /\ request.op = "none"
  /\ bound' = NoBinding
  /\ answer' = Reply("cleared", NoVal)
  /\ UNCHANGED <<request, starved>>

Next ==
  \/ \E r \in Requests : Ask(r)
  \/ Starve \/ Store \/ Refuse \/ Find \/ Clear

Spec == Init /\ [][Next]_symbols
=============================================================================
