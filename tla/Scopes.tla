------------------------------- MODULE Scopes -------------------------------
(***************************************************************************)
(* What the type checker's contexts promise: an inner scope begins with    *)
(* what the outer one knows, a name has one type in a scope for as long as *)
(* the scope exists, what an inner scope adds is not seen outside, and     *)
(* every request is answered by what its scope knows then.                 *)
(***************************************************************************)
EXTENDS Naturals, Sequences

CONSTANTS Names, Types, NoType

VARIABLES
  known,    \* for every open scope, innermost last, the types of its names
  request,  \* what is asked and not answered yet
  starved,  \* there is no memory for what is asked
  answer    \* the last answer

scopes == <<known, request, starved, answer>>

Reply(is, type) == [is |-> is, type |-> type]

Init ==
  /\ known = <<[n \in {} |-> NoType]>>
  /\ request \in [op : {"none"}, scope : {1}, name : Names, type : {NoType}]
  /\ starved = FALSE
  /\ answer = Reply("none", NoType)

Enter ==
  /\ request.op = "none"
  /\ known' = Append(known, known[Len(known)])
  /\ UNCHANGED <<request, starved, answer>>

Leave ==
  /\ request.op = "none" /\ Len(known) > 1
  /\ known' = SubSeq(known, 1, Len(known) - 1)
  /\ UNCHANGED <<request, starved, answer>>

Ask ==
  /\ request.op = "none"
  /\ request' \in [op : {"insert"}, scope : {Len(known)}, name : Names, type : Types]
                    \union [op : {"lookup"}, scope : DOMAIN known, name : Names, type : {NoType}]
  /\ starved' = FALSE
  /\ UNCHANGED <<known, answer>>

Answer(reply) ==
  /\ answer' = reply
  /\ request' = [request EXCEPT !.op = "none", !.type = NoType, !.scope = 1]

Asked == DOMAIN known[request.scope]

Starve ==
  /\ request.op = "insert"
  /\ starved' = TRUE
  /\ Answer(Reply("refused", NoType))
  /\ UNCHANGED known

Insert ==
  /\ request.op = "insert" /\ request.name \notin Asked
  /\ known' = [known EXCEPT ![request.scope] =
                 [n \in Asked \union {request.name} |-> IF n = request.name THEN request.type ELSE @[n]]]
  /\ Answer(Reply("inserted", NoType))
  /\ UNCHANGED starved

Refuse ==
  /\ request.op = "insert" /\ request.name \in Asked
  /\ Answer(Reply("refused", NoType))
  /\ UNCHANGED <<known, starved>>

Find ==
  /\ request.op = "lookup"
  /\ Answer(IF request.name \in Asked THEN Reply("found", known[request.scope][request.name])
                                      ELSE Reply("absent", NoType))
  /\ UNCHANGED <<known, starved>>

Next == Enter \/ Leave \/ Ask \/ Starve \/ Insert \/ Refuse \/ Find

Spec == Init /\ [][Next]_scopes
=============================================================================
