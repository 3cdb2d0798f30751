------------------------------- MODULE Parser -------------------------------
(***************************************************************************)
(* The parser (adder/compiler/co_parser.c): recursive descent over the     *)
(* tokens of a text, one operator for each pa_* function, and the program  *)
(* loop of pa_parse_program as actions.                                    *)
(*                                                                         *)
(* tokens is the parser's collection and, as its last entry, what the      *)
(* memory behind the last token holds: pa_peek_token may look there.  A    *)
(* token has a type, a text, and, if it is a literal, the node it stands   *)
(* for.  Punctuation and keywords have their own text as type.             *)
(***************************************************************************)
EXTENDS SourceText

CONSTANT Texts   \* what is parsed: [tokens, source], source empty or the program written down

VARIABLES
  text,      \* the text that is parsed, never changed
  cursor,    \* index of the current token
  program,   \* the definitions parsed so far
  exported,  \* names of the functions marked for export
  status     \* "initial", "toplevel", or how parsing ended: "done", "error", "abort"

vars == <<text, cursor, program, exported, status>>

\* pa_result_t, with the cursor it leaves; group marks an expression in parentheses.
Node(n, at)  == [is |-> "node", node |-> n, at |-> at, group |-> FALSE]
Nothing      == [is |-> "nothing", node |-> <<>>, at |-> 0, group |-> FALSE]
Error        == [is |-> "error", node |-> <<>>, at |-> 0, group |-> FALSE]
Abort        == [is |-> "abort", node |-> <<>>, at |-> 0, group |-> FALSE]

Absent(r) == r.is = "nothing"

IsError(r) == r.is \in {"error", "abort"}

\* Parsing goes on behind a result that is no error.
Then(r, F(_)) == IF IsError(r) THEN r ELSE F(r)

\* pa_current_token, pa_peek_token
TypeAt(ts, at)  == ts[at].type
Peek(ts, at, k) == ts[IF at + k > Len(ts) THEN Len(ts) ELSE at + k]

\* pa_consume; pa_advance_if answers where the cursor is then
Consume(ts, at, type) == IF at < Len(ts) /\ TypeAt(ts, at) = type THEN Node(<<>>, at + 1) ELSE Error
Skip(ts, at, type)    == IF at < Len(ts) /\ TypeAt(ts, at) = type THEN at + 1 ELSE at

-----------------------------------------------------------------------------
(* Expressions.                                                            *)

UnaryOperation == [t \in {"-", "not"} |-> IF t = "-" THEN "neg" ELSE "not"]

IsBin(e) == e.tag = "binop"

\* Mutant: operators of equal precedence group to the right.
ShouldReorderStrictly(op, right) == IsBin(right) /\ Precedence[op] > Precedence[right.op]

\* should_reorder
ShouldReorder(op, right) == IsBin(right) /\ Precedence[op] >= Precedence[right.op]

\* l op rhs, where rhs took everything behind op
Combine(op, l, rhs) ==
  IF ShouldReorder(op, rhs.node) /\ ~rhs.group
  THEN Bin(rhs.node.op, Bin(op, l, rhs.node.left), rhs.node.right)
  ELSE Bin(op, l, rhs.node)

\* A prefix operator is moved to the innermost left operand of what follows it.
RECURSIVE PushUnary(_, _)
PushUnary(op, e) == IF IsBin(e) THEN [e EXCEPT !.left = PushUnary(op, @)] ELSE Un(op, e)

RECURSIVE Parse(_, _, _), ParseParts(_, _, _, _), ParseSeparated(_, _, _, _, _)

\* Constructs and tokens one after another, up to the first error; the node is
\* the sequence of their nodes.
ParseParts(ts, at, parts, nodes) ==
  IF parts = <<>> THEN Node(nodes, at)
  ELSE Then(Parse(Head(parts), ts, at), LAMBDA r :
         ParseParts(ts, r.at, Tail(parts), Append(nodes, r.node)))

\* Constructs of one kind with separators between them, up to a closing token.
ParseSeparated(ts, at, what, close, nodes) ==
  Then(Parse(what, ts, at), LAMBDA r :
    IF TypeAt(ts, r.at) = "," THEN ParseSeparated(ts, r.at + 1, what, close, Append(nodes, r.node))
    ELSE Then(Consume(ts, r.at, close), LAMBDA c : Node(Append(nodes, r.node), c.at)))

\* What follows an opening token; empty lists are tried first.
ParseContent(ts, at, close) ==
  IF TypeAt(ts, at) = close THEN Node(<<>>, at + 1)
  ELSE ParseSeparated(ts, at, "expression", close, <<>>)

\* pa_try_parse_group
TryGroup(ts, at) ==
  IF TypeAt(ts, at) # "(" THEN Nothing
  ELSE Then(Parse("expression", ts, at + 1), LAMBDA e :
         Then(Consume(ts, e.at, ")"), LAMBDA c : [e EXCEPT !.at = c.at, !.group = TRUE]))

\* pa_try_parse_func_call
TryFuncCall(ts, at) ==
  IF TypeAt(ts, at) # "symbol" \/ Peek(ts, at, 1).type # "(" THEN Nothing
  ELSE Then(ParseContent(ts, at + 2, ")"), LAMBDA es : Node(CallOf(ts[at].ref, es.node), es.at))

\* pa_try_parse_array_def
TryArray(ts, at) ==
  IF TypeAt(ts, at) # "[" THEN Nothing
  ELSE Then(ParseContent(ts, at + 1, "]"), LAMBDA es : Node(List(es.node), es.at))

\* pa_try_parse_unary_operation
TryUnary(ts, at) ==
  IF TypeAt(ts, at) \notin DOMAIN UnaryOperation THEN Nothing
  ELSE Then(Parse("expression", ts, at + 1), LAMBDA e :
         LET op == UnaryOperation[TypeAt(ts, at)]
         IN  Node(IF e.group THEN Un(op, e.node) ELSE PushUnary(op, e.node), e.at))

\* The first alternative that is there.
Either(alternatives) == LET there == SelectSeq(alternatives, LAMBDA r : ~Absent(r))
                        IN  IF there = <<>> THEN Error ELSE there[1]

\* The alternatives of pa_parse_expression, in their order.
Operand(ts, at) ==
  Either(<<TryGroup(ts, at), TryFuncCall(ts, at),
           CASE TypeAt(ts, at) = "literal" -> Node(ts[at].node, at + 1)
             [] TypeAt(ts, at) = "symbol"  -> Node(Var(ts[at].ref), at + 1)
             [] OTHER                      -> Nothing,
           TryArray(ts, at), TryUnary(ts, at)>>)

\* pa_parse_expression, and pa_try_parse_binary_operation for every operator
ParseExpression(ts, at) ==
  Then(Operand(ts, at), LAMBDA l :
    IF TypeAt(ts, l.at) \notin DOMAIN BinaryOperation THEN l
    ELSE Then(Parse("expression", ts, l.at + 1), LAMBDA r :
           Node(Combine(BinaryOperation[TypeAt(ts, l.at)], l.node, r), r.at)))

-----------------------------------------------------------------------------
(* Types.                                                                  *)

TypeNames == {"array", "bool", "char", "int", "float", "string", "void"}

Annot(name, children) == [name |-> name, children |-> children]

\* parse_type_annotation
ParseType(ts, at) ==
  CASE TypeAt(ts, at) # "symbol"     -> Error
    [] ts[at].ref \notin TypeNames   -> Error
    [] TypeAt(ts, at + 1) = "<"      ->
         Then(ParseSeparated(ts, at + 2, "type", ">", <<>>),
              LAMBDA tys : Node(Annot(ts[at].ref, tys.node), tys.at))
    [] OTHER                         -> Node(Annot(ts[at].ref, <<>>), at + 1)

\* A type is named as it is written, but for those Source has names for.
RECURSIVE TypeText(_)
TypeText(annot) ==
  annot.name \o (IF annot.children = <<>> THEN ""
                 ELSE "<" \o FoldLeft(LAMBDA t, c : t \o TypeText(c), "", annot.children) \o ">")

TypeNamed(annot) ==
  LET t == TypeText(annot)
  IN  CASE t = "int" -> "num" [] t = "void" -> "none" [] t = "array<int>" -> "array"
       [] t = "array" -> "bare array" [] OTHER -> t

\* pa_parse_vardecl
ParseVarDecl(ts, at) ==
  Then(ParseType(ts, at), LAMBDA ty :
    Then(Consume(ts, ty.at, "symbol"), LAMBDA c : Node(Param(ts[ty.at].ref, TypeNamed(ty.node)), c.at)))

RECURSIVE SeekEndOfType(_, _, _, _)

\* seek_end_of_type: how many tokens ahead the last one of a type is; -1 if there is none.
SeekEndOfType(ts, at, offs, n) ==
  LET t    == Peek(ts, at, offs)
      next == SeekEndOfType(ts, at, offs + 1, n)
  IN  CASE t.type = "<" /\ offs > 0 -> SeekEndOfType(ts, at, offs + 1, n + 1)
        [] t.type = ">" /\ offs > 0 -> IF n = 1 THEN offs ELSE SeekEndOfType(ts, at, offs + 1, n - 1)
        [] t.ref \in TypeNames      -> IF next > offs THEN next ELSE IF n = 0 THEN offs ELSE -1
        [] OTHER                    -> -1

-----------------------------------------------------------------------------
(* Statements.                                                             *)

RECURSIVE ParseStatements(_, _, _), TryIfChain(_, _)

\* The statements up to a closing brace.
ParseStatements(ts, at, found) ==
  IF TypeAt(ts, at) = "}" THEN Node(found, at + 1)
  ELSE Then(Parse("statement", ts, at), LAMBDA s : ParseStatements(ts, s.at, Append(found, s.node)))

\* pa_parse_body
ParseBody(ts, at) ==
  Then(Consume(ts, at, "{"), LAMBDA c : ParseStatements(ts, c.at, <<>>))

\* pa_try_parse_assignment: the token after the first decides, then the first one.
TryAssignment(ts, at) ==
  CASE Peek(ts, at, 1).type = "=" ->
         Then(ParseParts(ts, at, <<"symbol", "=", "expression">>, <<>>), LAMBDA p :
           Node(Assign(ts[at].ref, p.node[3]), p.at))
    [] ts[at].ref \in TypeNames ->
         Then(ParseParts(ts, at, <<"vardecl", "=", "expression">>, <<>>), LAMBDA p :
           Node(Declare(p.node[1].name, p.node[1].type, p.node[3]), p.at))
    [] OTHER -> Nothing

\* Mutant: a block behind a second condition is not kept.
ParseElseOnce(ts, at) ==
  CASE TypeAt(ts, at) # "else"     -> Node(If(<<>>, <<>>), at)
    [] TypeAt(ts, at + 1) = "if"   -> Then(TryIfChain(ts, at + 1), LAMBDA r : [r EXCEPT !.node.last = <<>>])
    [] OTHER                       -> Then(ParseBody(ts, at + 1), LAMBDA b : Node(If(<<>>, b.node), b.at))

\* What may follow a block: another link of the chain, a last block, or nothing.
ParseElse(ts, at) ==
  CASE TypeAt(ts, at) # "else"     -> Node(If(<<>>, <<>>), at)
    [] TypeAt(ts, at + 1) = "if"   -> TryIfChain(ts, at + 1)
    [] OTHER                       -> Then(ParseBody(ts, at + 1), LAMBDA b : Node(If(<<>>, b.node), b.at))

\* pa_try_parse_if_chain
TryIfChain(ts, at) ==
  IF TypeAt(ts, at) # "if" THEN Nothing
  ELSE Then(ParseParts(ts, at + 1, <<"(", "expression", ")", "body">>, <<>>), LAMBDA p :
         Then(ParseElse(ts, p.at), LAMBDA rest :
           Node(If(<<Branch(p.node[2], p.node[4])>> \o rest.node.branches, rest.node.last), rest.at)))

\* pa_try_parse_for_stmt
TryFor(ts, at) ==
  IF TypeAt(ts, at) # "for" THEN Nothing
  ELSE Then(ParseParts(ts, at + 1, <<"(", "vardecl", "in", "expression", ")", "body">>, <<>>), LAMBDA p :
         Node(For(p.node[2].name, p.node[2].type, p.node[4], p.node[6]), p.at))

\* pa_try_parse_body_return
TryReturn(ts, at) ==
  CASE TypeAt(ts, at) # "return"  -> Nothing
    [] TypeAt(ts, at + 1) = ";"   -> Node(JustReturn, at + 1)
    [] OTHER -> Then(Parse("expression", ts, at + 1), LAMBDA e : Node(Return(e.node), e.at))

\* pa_try_parse_body_break
TryBreak(ts, at) == IF TypeAt(ts, at) = "break" THEN Node(Break, at + 1) ELSE Nothing

\* The alternatives of pa_parse_statement in their order; a semicolon may follow.
ParseStatement(ts, at) ==
  Then(Either(<<TryAssignment(ts, at), TryIfChain(ts, at), TryFor(ts, at), TryFuncCall(ts, at),
                TryReturn(ts, at), TryBreak(ts, at)>>),
       LAMBDA s : [s EXCEPT !.at = Skip(ts, @, ";")])

-----------------------------------------------------------------------------
(* Definitions and the program.                                            *)

RECURSIVE ParseParams(_, _, _)

\* The parameters; a separator may follow the last one.
ParseParams(ts, at, found) ==
  IF TypeAt(ts, at) = ")" THEN Node(found, at + 1)
  ELSE Then(ParseVarDecl(ts, at), LAMBDA p :
         IF TypeAt(ts, p.at) = "," THEN ParseParams(ts, p.at + 1, Append(found, p.node))
         ELSE Then(Consume(ts, p.at, ")"), LAMBDA c : Node(Append(found, p.node), c.at)))

\* pa_parse_arglist
ParseArglist(ts, at) == Then(Consume(ts, at, "("), LAMBDA c : ParseParams(ts, c.at, <<>>))

\* pa_parse_funimportdecl: a return type, a name and parameters.
ParseHead(ts, at) ==
  Then(ParseType(ts, at), LAMBDA ty :
    Then(ParseParts(ts, ty.at, <<"symbol", "arglist">>, <<>>), LAMBDA p :
      Node(Import(TypeNamed(ty.node), ts[ty.at].ref, p.node[2]), p.at)))

\* One construct or, under any other name, one token.
Parse(what, ts, at) ==
  CASE what = "expression" -> ParseExpression(ts, at)
    [] what = "type"       -> ParseType(ts, at)
    [] what = "vardecl"    -> ParseVarDecl(ts, at)
    [] what = "statement"  -> ParseStatement(ts, at)
    [] what = "body"       -> ParseBody(ts, at)
    [] what = "arglist"    -> ParseArglist(ts, at)
    [] what = "head"       -> ParseHead(ts, at)
    [] OTHER               -> Consume(ts, at, what)

\* A definition, and whether it is exported.
Definition(d, isExported) == [def |-> d, exported |-> isExported]

\* pa_try_parse_fundecl: looks for "type name (" first.
TryFundecl(ts, at) ==
  LET eot == SeekEndOfType(ts, at, 0, 0)
  IN  IF eot < 0 \/ Peek(ts, at, eot + 1).type # "symbol" \/ Peek(ts, at, eot + 2).type # "("
      THEN Nothing
      ELSE Then(ParseParts(ts, at, <<"head", "body">>, <<>>), LAMBDA p :
             LET d == p.node[1]
             IN  Node(Definition(Fun(d.ret, d.name, d.params, p.node[2]), d.name = "main"), p.at))

\* pa_try_parse_preproc_directive; an assert expects a function behind "export".
TryDirective(ts, at) ==
  CASE TypeAt(ts, at) = "import" ->
         Then(ParseHead(ts, at + 1), LAMBDA d : Node(Definition(d.node, FALSE), Skip(ts, d.at, ";")))
    [] TypeAt(ts, at) = "export" ->
         Then(TryFundecl(ts, at + 1), LAMBDA f :
           IF Absent(f) THEN Abort ELSE Node(Definition(f.node.def, TRUE), Skip(ts, f.at, ";")))
    [] OTHER -> Nothing

\* pa_parse_toplevel_statement
ParseToplevel(ts, at) == Either(<<TryFundecl(ts, at), TryDirective(ts, at)>>)

Init ==
  /\ text \in Texts
  /\ cursor = 1
  /\ program = <<>>
  /\ exported = {}
  /\ status = "initial"

\* The tokenizer's first token.
Start ==
  /\ status = "initial"
  /\ TypeAt(text.tokens, cursor) = "initial"
  /\ cursor' = cursor + 1
  /\ status' = "toplevel"
  /\ UNCHANGED <<text, program, exported>>

\* One round of the loop: a definition, and the final token if that is next.  An
\* error ends the loop, and a failing assert the program.
ParseDefinition ==
  /\ status = "toplevel"
  /\ \E r \in {ParseToplevel(text.tokens, cursor)} :
       IF r.is = "node"
       THEN /\ program' = Append(program, r.node.def)
            /\ exported' = IF r.node.exported THEN exported \union {r.node.def.name} ELSE exported
            /\ cursor' = Skip(text.tokens, r.at, "final")
            /\ status' = IF cursor' = Len(text.tokens) THEN "done" ELSE "toplevel"
       ELSE /\ status' = r.is
            /\ UNCHANGED <<cursor, program, exported>>
  /\ UNCHANGED text

Next == Start \/ ParseDefinition

Spec == Init /\ [][Next]_vars

-----------------------------------------------------------------------------
(* Properties.                                                             *)

\* A program written down is read back: every construct, in whatever it is nested,
\* with operators grouped by their precedence and parentheses.
RoundTrip ==
  status # "initial" /\ text.source # <<>> =>
    /\ status \notin {"error", "abort"}
    /\ status = "done" => /\ program = text.source[1]
                          /\ exported = text.exports

\* What a text says but for parentheses, separators and semicolons.
Said(tokens) ==
  LET kept == SelectSeq(tokens, LAMBDA t : t.type \notin {"(", ")", ",", ";"})
  IN  FoldLeft(LAMBDA said, t : said \o t.ref, "", kept)

\* Of an accepted text no token is lost, added or moved, whatever was wrong with it.
NothingLost ==
  status = "done" => Said(Tokens(program, exported)) = Said(Front(text.tokens))
=============================================================================
