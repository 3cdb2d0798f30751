------------------------------ MODULE MCParser ------------------------------
(***************************************************************************)
(* Texts for the parser: the sources that CompiledExec runs, expressions,  *)
(* statements in statements, definitions, and texts with something wrong.  *)
(***************************************************************************)
EXTENDS Parser, SmallSources

\* What memory may hold behind the last token.
Junk == {Fixed("="), Fixed("initial")}

Written(defs) ==
  LET exports == {defs[i].name : i \in {j \in DOMAIN defs : defs[j].tag = "fundecl"}}
  IN  [tokens |-> Append(Tokens(defs, exports), Fixed("=")), source |-> <<defs>>, exports |-> exports]

\* int main(int n, array<int> a) { body }
JustMain(body) == <<Fun("num", "main", <<Param("n", "num"), Param("a", "array")>>, body)>>

\* Two operators, at both ends of the order and in its middle, with operands of
\* every kind, in parentheses where they have to be.
Operators == {"mul", "sub", "add", "less", "more-eq", "not-equal", "or", "and"}
Operands  == {n, Un("neg", n), CallOf("first", <<List(<<n, One>>), n>>)}
OneOperator == {Bin(op, l, r) : op \in Operators, l, r \in Operands}
TwoOperators ==
  UNION {{Bin(op, e, x), Bin(op, x, e)} : op \in Operators, e \in OneOperator, x \in Operands}
  \union {Un("not", e) : e \in OneOperator}
  \union {Bin("add", n, Un("neg", e)) : e \in OneOperator}

\* Statements of every kind, and blocks in blocks.
Plain ==
  {Break, JustReturn, Assign("n", n), CallOf("note", <<Two, n>>),
   Declare("y", "array<array<int>>", List(<<a, List(<<>>)>>)), Return(Un("neg", Bin("sub", n, One)))}
Blocks(stmts) ==
  {<<>>} \union {<<s>> : s \in stmts} \union {<<s, CallOf("ask", <<>>)>> : s \in stmts}
Compound(blocks, others) ==
  {If(<<Branch(n, b)>>, c) : b \in blocks, c \in others}
  \union {If(<<Branch(n, c)>>, b) : b \in blocks, c \in others}
  \union {If(<<Branch(n, b), Branch(Bin("less", n, Two), c)>>, <<Break>>) : b \in blocks, c \in others}
  \union {For("x", "float", a, b) : b \in blocks}
Inner  == Compound(Blocks(Plain), {<<>>, <<Break>>})
Nested == Compound(Blocks(Inner), {<<>>, <<JustReturn>>})

Definitions ==
  {<<Import("none", "tell", ps), Fun(ret, f, ps, b), Fun("num", "g", <<>>, <<>>), Ask>> :
     ps \in {<<>>, <<Param("n", "num")>>, <<Param("n", "bool"), Param("a", "array<array<int>>")>>},
     ret \in {"none", "array", "array<array<int>>", "char"}, f \in {"f", "main"},
     b \in {<<>>, <<Break>>}}

Sources ==
  {JustMain(b) : b \in Bodies \union {<<Return(e)>> : e \in TwoOperators} \union Blocks(Plain)
                       \union {<<s>> : s \in Inner \union Nested}}
  \union {Library} \union LongSources \union Definitions

\* export int f(array<int> a) { int y = -(n + 1) * 2; if (n < f(n, y)) { return [y]; }
\* else if (not n) { } else { n = y; } for (int x in a) { g(); break; } return; }
\* import void g();
Sample ==
  << Fun("num", "f", <<Param("a", "array")>>,
         << Declare("y", "num", Bin("mul", Un("neg", Bin("add", n, One)), Two)),
            If(<<Branch(Bin("less", n, CallOf("f", <<n, Var("y")>>)), <<Return(List(<<Var("y")>>))>>),
                 Branch(Un("not", n), <<>>)>>, <<Assign("n", Var("y"))>>),
            For("x", "num", a, <<CallOf("g", <<>>), Break>>), JustReturn >>),
     Import("none", "g", <<>>) >>

SampleTokens == Tokens(Sample, {"f"})

Slips == {Fixed(t) : t \in {"(", ")", "{", "}", "<", ">", ",", ";", "=", "-", "if", "else", "for", "in",
                             "return", "export", "import"}}
         \union {Symbol("int"), Symbol("array"), Symbol("n")}

\* One token of a text is missing, twice there, another one, or one too many.
Behind(i, k)   == SubSeq(SampleTokens, i + k, Len(SampleTokens))
Before(i)   == SubSeq(SampleTokens, 1, i - 1)
Places      == 2 .. Len(SampleTokens) - 1
WrongTokens ==
  {Before(i) \o Behind(i, 1) : i \in Places}
  \union {Append(Before(i), t) \o Behind(i, k) : i \in Places, k \in {0, 1}, t \in Slips}

WrongTexts == {[tokens |-> Append(t, j), source |-> <<>>, exports |-> {}] : t \in WrongTokens, j \in Junk}

AllTexts == {Written(s) : s \in Sources} \union WrongTexts

\* return n - n - n - n;
Minus(k) == LET e[i \in 0 .. k] == IF i = 0 THEN n ELSE Bin("sub", e[i - 1], n) IN e[k]
Chains3 == {Written(JustMain(<<Return(Minus(k))>>)) : k \in 1 .. 3}
=============================================================================
