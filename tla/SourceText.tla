----------------------------- MODULE SourceText -----------------------------
(***************************************************************************)
(* Source programs as texts: tokens, and how a program is written down with *)
(* no more parentheses than it needs.  The tokens are those of             *)
(* adder/compiler/co_types.h, the order of operators the one it gives them. *)
(* The writing is no part of the code: the parser is compared with it.     *)
(***************************************************************************)
EXTENDS Source, SequencesExt

\* A token has a type, a text, and, if it is a literal, the node it stands for.
\* Punctuation and keywords have their own text as type.
Token(type, ref, node) == [type |-> type, ref |-> ref, node |-> node]
Fixed(t)      == Token(t, t, <<>>)
Symbol(x)     == Token("symbol", x, <<>>)
Literal(r, e) == Token("literal", r, e)

\* ast_binop_type_t, "ordered by precedence"
ByPrecedence == <<"mul", "div", "mod", "add", "sub", "xor", "less", "more", "less-eq", "more-eq",
                  "equal", "not-equal", "or", "and">>

\* get_precedence
Precedence ==
  [op \in ToSet(ByPrecedence) |-> 101 - (CHOOSE i \in DOMAIN ByPrecedence : ByPrecedence[i] = op)]

\* The token of an operator, and the operator of a token.
Sign == [op \in ToSet(ByPrecedence) \ {"xor"} |->
           CASE op = "mul"     -> "*"  [] op = "div"       -> "/"  [] op = "mod" -> "%"
             [] op = "add"     -> "+"  [] op = "sub"       -> "-"
             [] op = "less"    -> "<"  [] op = "more"      -> ">"
             [] op = "less-eq" -> "<=" [] op = "more-eq"   -> ">="
             [] op = "equal"   -> "==" [] op = "not-equal" -> "!="
             [] OTHER          -> op]

BinaryOperation == [t \in Range(Sign) |-> CHOOSE op \in DOMAIN Sign : Sign[op] = t]

-----------------------------------------------------------------------------
LiteralText(v) ==
  IF v.type = "bool" THEN (IF v.num = 1 THEN "true" ELSE "false") ELSE ToString(v.num)

InParens(ts) == <<Fixed("(")>> \o ts \o <<Fixed(")")>>

\* Token sequences with separators between them.
Separated(tss) ==
  FlattenSeq([i \in DOMAIN tss |-> IF i = 1 THEN tss[i] ELSE <<Fixed(",")>> \o tss[i]])

RECURSIVE ExprTokens(_)

\* An operand, in parentheses if it is an operation that binds no stronger than it must.
OperandTokens(e, atLeast) ==
  IF e.tag = "binop" /\ Precedence[e.op] < atLeast THEN InParens(ExprTokens(e)) ELSE ExprTokens(e)

ExprTokens(e) ==
  CASE e.tag = "value" -> <<Literal(LiteralText(e.val), e)>>
    [] e.tag = "var"   -> <<Symbol(e.name)>>
    [] e.tag = "unop"  -> <<Fixed(IF e.op = "neg" THEN "-" ELSE "not")>> \o OperandTokens(e.inner, 101)
    [] e.tag = "binop" -> OperandTokens(e.left, Precedence[e.op]) \o <<Fixed(Sign[e.op])>>
                          \o OperandTokens(e.right, Precedence[e.op] + 1)
    [] e.tag = "array" -> <<Fixed("[")>> \o Separated([i \in DOMAIN e.content |-> ExprTokens(e.content[i])])
                          \o <<Fixed("]")>>
    [] e.tag = "call"  -> <<Symbol(e.name)>> \o InParens(Separated([i \in DOMAIN e.args |-> ExprTokens(e.args[i])]))

TypeTokens(ty) ==
  CASE ty = "num"   -> <<Symbol("int")>>
    [] ty = "none"  -> <<Symbol("void")>>
    [] ty = "array" -> <<Symbol("array"), Fixed("<"), Symbol("int"), Fixed(">")>>
    [] ty = "array<array<int>>" -> <<Symbol("array"), Fixed("<"), Symbol("array"), Fixed("<"), Symbol("int"),
                         Fixed(">"), Fixed(">")>>
    [] ty = "bare array" -> <<Symbol("array")>>
    [] OTHER        -> <<Symbol(ty)>>

VarTokens(x, ty) == TypeTokens(ty) \o <<Symbol(x)>>

RECURSIVE StatementTokens(_)

BlockTokens(stmts) ==
  <<Fixed("{")>> \o FlattenSeq([i \in DOMAIN stmts |-> StatementTokens(stmts[i])]) \o <<Fixed("}")>>

IfTokens(s) ==
  FlattenSeq([i \in DOMAIN s.branches |->
                (IF i = 1 THEN <<>> ELSE <<Fixed("else")>>) \o <<Fixed("if")>>
                \o InParens(ExprTokens(s.branches[i].cond)) \o BlockTokens(s.branches[i].iftrue)])
  \o (IF s.last = <<>> THEN <<>> ELSE <<Fixed("else")>> \o BlockTokens(s.last))

StatementTokens(s) ==
  CASE s.tag = "assign"  -> (IF s.type = "" THEN <<Symbol(s.name)>> ELSE VarTokens(s.name, s.type))
                            \o <<Fixed("=")>> \o ExprTokens(s.value) \o <<Fixed(";")>>
    [] s.tag = "if"      -> IfTokens(s)
    [] s.tag = "foreach" -> <<Fixed("for")>>
                            \o InParens(VarTokens(s.name, s.type) \o <<Fixed("in")>> \o ExprTokens(s.collection))
                            \o BlockTokens(s.during)
    [] s.tag = "return"  -> <<Fixed("return")>> \o (IF s.result = <<>> THEN <<>> ELSE ExprTokens(s.result[1]))
                            \o <<Fixed(";")>>
    [] s.tag = "break"   -> <<Fixed("break"), Fixed(";")>>
    [] OTHER             -> ExprTokens(s) \o <<Fixed(";")>>

ParamTokens(params) ==
  InParens(Separated([i \in DOMAIN params |-> VarTokens(params[i].name, params[i].type)]))

\* A function that is exported is marked, unless its name says so.
DefinitionTokens(d, exported) ==
  (CASE d.tag = "funexdecl" -> <<Fixed("import")>>
     [] d.name \in exported \ {"main"} -> <<Fixed("export")>>
     [] OTHER -> <<>>)
  \o VarTokens(d.name, d.ret) \o ParamTokens(d.params)
  \o (IF d.tag = "funexdecl" THEN <<Fixed(";")>> ELSE BlockTokens(d.body))

Tokens(defs, exported) ==
  <<Fixed("initial")>> \o FlattenSeq([i \in DOMAIN defs |-> DefinitionTokens(defs[i], exported)])
  \o <<Fixed("final")>>
=============================================================================
