---------------------------- MODULE SmallSources ----------------------------
(***************************************************************************)
(* Sources for the parser and the compiler: every body of a small shape    *)
(* for main, behind a few functions that it can call.                      *)
(***************************************************************************)
EXTENDS Source

n == Var("n")
a == Var("a")
One == Lit(Num(1))
Two == Lit(Num(2))

\* import void tell(int n); import int ask();
Tell == Import("none", "tell", <<Param("n", "num")>>)
Ask  == Import("num", "ask", <<>>)

\* int down(int n) { if (n < 1) { return n; } return 1 + down(n - 2); }
Down == Fun("num", "down", <<Param("n", "num")>>,
          << If(<<Branch(Bin("less", n, One), <<Return(n)>>)>>, <<>>),
             Return(Bin("add", One, CallOf("down", <<Bin("sub", n, Two)>>))) >>)

\* int first(array<int> a, int n) { for (int x in a) { if (n <= x) { return x; } } return n - 2; }
First == Fun("num", "first", <<Param("a", "array"), Param("n", "num")>>,
           << For("x", "num", a, <<If(<<Branch(Bin("less-eq", n, Var("x")), <<Return(Var("x"))>>)>>, <<>>)>>),
              Return(Bin("sub", n, Two)) >>)

\* void note(int n) { if (n > 1) { return; } tell(n); }
Note == Fun("none", "note", <<Param("n", "num")>>,
          << If(<<Branch(Bin("more", n, One), <<JustReturn>>)>>, <<>>),
             CallOf("tell", <<n>>) >>)

\* bool odd(int n) { int m = n; for (int k in [1, 2]) { m = m - 2; if (m == 1 or m == -1) { return true; } } return not (n != 1); }
Odd == Fun("bool", "odd", <<Param("n", "num")>>,
         << Declare("m", "num", n),
            For("k", "num", List(<<One, Two>>),
                << Assign("m", Bin("sub", Var("m"), Two)),
                   If(<<Branch(Bin("or", Bin("equal", Var("m"), One),
                                         Bin("equal", Var("m"), Un("neg", One))),
                               <<Return(Lit(Bool(TRUE)))>>)>>, <<>>) >>),
            Return(Un("not", Bin("not-equal", n, One))) >>)

Library == <<Tell, Ask, Down, First, Note, Odd>>

\* int main(int n, array<int> a) { body }
Main(ret, body) == Library \o <<Fun(ret, "main", <<Param("n", "num"), Param("a", "array")>>, body)>>

-----------------------------------------------------------------------------
Exprs ==
  {n, Bin("sub", n, One), Bin("sub", Two, Un("neg", n)),
   Bin("sub", CallOf("down", <<n>>), CallOf("first", <<a, n>>)),
   Bin("add", Bin("mul", n, Two), Bin("sub", CallOf("ask", <<>>), n)),
   CallOf("first", <<List(<<n, CallOf("first", <<a, Two>>)>>), CallOf("down", <<n>>)>>),
   CallOf("down", <<a>>), CallOf("first", <<n, a>>), CallOf("down", <<n, n>>), Var("x")}

Conds ==
  {Bin("less", n, Two), CallOf("odd", <<n>>),
   Bin("and", Bin("more-eq", n, One), Un("not", CallOf("odd", <<CallOf("down", <<n>>)>>))), n}

Changes == {Assign("n", e) : e \in {Bin("sub", n, One), Bin("add", n, Var("x"))}}

Simple == Changes \union
  {Declare("y", "num", Bin("mul", n, Two)), CallOf("note", <<n>>), Return(Bin("add", n, Var("x"))),
   Assign("n", Bin("add", n, Var("y")))}

Ifs(simple) ==
  {If(<<Branch(c, <<s>>)>>, last) : c \in Conds, s \in simple,
                                    last \in {<<>>, <<Assign("n", Two)>>}}

Chains ==
  {If(<<Branch(Bin("less", n, Two), <<s>>), Branch(c, <<t>>)>>, last) :
     c \in Conds, s, t \in Simple, last \in {<<>>, <<Assign("n", One)>>, <<Return(One)>>}}

Colls == {a, List(<<n, One>>), List(<<Var("x"), n>>)}

Loops ==
  {For("x", "num", l, <<s>>) : l \in Colls, s \in (Simple \union Ifs(Simple)) \ {Return(Bin("add", n, Var("x")))}}
  \union
  {For("x", "num", l, <<For("z", "num", m, <<s>>), t>>) :
     l, m \in Colls, s \in Changes \union Ifs({Return(Var("z"))}), t \in Changes}

Bodies ==
  {<<s, Return(e)>> : s \in Ifs(Simple) \union Chains \union Loops, e \in {n, Var("y")}} \union
  {<<Declare("y", "num", e), s, Return(Var("y"))>> : e \in Exprs, s \in Loops} \union
  {<<If(<<Branch(c, <<Return(e)>>)>>, <<Return(n)>>)>> : c \in Conds, e \in Exprs}

\* A program with a loop in a loop, calls, a chain of three blocks: its code is
\* longer than a byte can address.
LongSources ==
  {Main("num", << Declare("y", "num", e),
                  For("x", "num", a, <<For("z", "num", List(<<n, One>>), <<Assign("y", Var("z"))>>), s>>),
                  Return(Bin("add", Var("y"), n)) >>) :
     e \in {CallOf("down", <<n>>), CallOf("ask", <<>>)},
     s \in {If(<<Branch(CallOf("odd", <<n>>), <<CallOf("note", <<n>>)>>),
                Branch(Bin("less", n, Two), <<Assign("n", Two)>>)>>, <<Return(One)>>)}}

SmallBodies == {Main("num", b) : b \in Bodies} \union LongSources
=============================================================================
