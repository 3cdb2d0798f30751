------------------------------ MODULE SmallCode ------------------------------
(***************************************************************************)
(* Bytecode for VmExec: what gvm_compile makes of small sources, and some  *)
(* instructions it never emits.                                            *)
(***************************************************************************)
EXTENDS Values

I(op, a, b) == [op |-> op, a |-> a, b |-> b]
Op(op)      == I(op, 0, 0)

Program(args, cons, inst) ==
  [entry |-> 0, args |-> args, cons |-> cons, inst |-> inst \o <<Op("halt")>>]

\* int sum(int n) { if (n < 1) { return 0; } return n + sum(n - 1); }
Recursion(n) ==
  Program(<<Num(n)>>, <<Num(0), Num(1)>>,
    << I("frame", 1, 0), I("push", 1, 0), I("load", 0, 0), Op("less"), I("if-false", 7, 0),
       I("push", 0, 0), Op("return-value"),
       I("push", 1, 0), I("load", 0, 0), Op("sub"), I("call", 0, 0), I("load", 0, 0),
       Op("add"), Op("return-value") >>)

\* int f() { return f(); }
Endless == Program(<<>>, <<>>, << I("frame", 0, 0), I("call", 0, 0), Op("return-value") >>)

\* int f(int n) { int a = n; int b = a; return f(b); }
EndlessWithLocals ==
  Program(<<Num(1)>>, <<>>,
    << I("frame", 1, 2), I("load", 0, 0), I("store", 1, 0), I("load", 1, 0), I("store", 2, 0),
       I("load", 2, 0), I("call", 0, 0), Op("return-value") >>)

\* int total(int by) { int s = 0; for (int x in [2, 3]) { s = s + x * by; } return s; }
Loop(by) ==
  Program(<<Num(by)>>, <<Num(0), Num(2), Num(3)>>,
    << I("frame", 1, 2), I("push", 0, 0), I("store", 1, 0), I("push", 1, 0), I("push", 2, 0),
       I("push", 1, 0), Op("array"), Op("iter"), I("iter-next", 17, 0), I("store", 2, 0),
       I("load", 0, 0), I("load", 2, 0), Op("mul"), I("load", 1, 0), Op("add"),
       I("store", 1, 0), I("jump", 8, 0), I("load", 1, 0), Op("return-value") >>)

\* int f(int n) { for (int x in [n]) { return f(x); } return n; }
LoopInCalls ==
  Program(<<Num(1)>>, <<Num(1)>>,
    << I("frame", 1, 1), I("load", 0, 0), I("push", 0, 0), Op("array"), Op("iter"),
       I("iter-next", 10, 0), I("store", 1, 0), I("load", 1, 0), I("call", 0, 0),
       Op("return-value"), I("load", 0, 0), Op("return-value") >>)

\* array<int> f(array<int> a) { for (int x in a) {} return a; }
\* array<int> main() { return f([1, 2]); }
EmptyLoop ==
  [Program(<<>>, <<Num(1), Num(2)>>,
    << I("frame", 1, 1), I("load", 0, 0), Op("iter"), I("iter-next", 6, 0), I("store", 1, 0),
       I("jump", 3, 0), I("load", 0, 0), Op("return-value"),
       I("frame", 0, 0), I("push", 0, 0), I("push", 1, 0), I("push", 1, 0), Op("array"),
       I("call", 0, 0), Op("return-value") >>) EXCEPT !.entry = 8]

\* void h() {}  void g() { int y = 8; return h(); }  void main() { int x = 7; g(); }
VoidCalls ==
  [Program(<<>>, <<Num(7), Num(8)>>,
    << I("frame", 0, 0), Op("return-nothing"),
       I("frame", 0, 1), I("push", 1, 0), I("store", 0, 0), I("call", 0, 0), Op("return-value"),
       I("frame", 0, 1), I("push", 0, 0), I("store", 0, 0), I("call", 2, 0),
       Op("return-nothing") >>) EXCEPT !.entry = 7]

\* void h() {}  void main() { h(); }
VoidCall ==
  [Program(<<>>, <<>>,
    << I("frame", 0, 0), Op("return-nothing"),
       I("frame", 0, 0), I("call", 0, 0), Op("return-nothing") >>) EXCEPT !.entry = 2]

\* void g(array<int> a) { for (int x in a) { return; } }  void main() { int x = 7; g([1]); }
ReturnInLoop ==
  [Program(<<>>, <<Num(7), Num(1)>>,
    << I("frame", 1, 1), I("load", 0, 0), Op("iter"), I("iter-next", 7, 0), I("store", 1, 0),
       Op("return-nothing"), I("jump", 3, 0), Op("return-nothing"),
       I("frame", 0, 1), I("push", 0, 0), I("store", 0, 0), I("push", 1, 0), I("push", 1, 0),
       Op("array"), I("call", 0, 0), Op("return-nothing") >>) EXCEPT !.entry = 8]

\* int f(int a, int b) { return a - b; }  int main(int n) { return f(f(n, 1), f(ask(), n)); }
NestedCalls(n) ==
  [Program(<<Num(n)>>, <<Num(1)>>,
    << I("frame", 2, 0), I("load", 1, 0), I("load", 0, 0), Op("sub"), Op("return-value"),
       I("frame", 1, 0), I("load", 0, 0), I("push", 0, 0), I("call", 0, 0),
       I("native", 0, 1), I("load", 0, 0), I("call", 0, 0), I("call", 0, 0),
       Op("return-value") >>) EXCEPT !.entry = 5]

\* int f() { return 1; }  void main() { for (int x in [1, 1]) { f(); } }
CallInLoop ==
  [Program(<<>>, <<Num(1), Num(2)>>,
    << I("frame", 0, 0), I("push", 0, 0), Op("return-value"),
       I("frame", 0, 1), I("push", 0, 0), I("push", 0, 0), I("push", 1, 0), Op("array"),
       Op("iter"), I("iter-next", 13, 0), I("store", 0, 0), I("call", 0, 0), I("jump", 9, 0),
       Op("return-nothing") >>) EXCEPT !.entry = 3]

\* bool main(int a, int b) { if (a <= b and not (a == b)) { tell(-a, a % b); } return a > b or ...; }
Branches(a, b) ==
  Program(<<Num(a), Num(b)>>, <<>>,
    << I("frame", 2, 0),
       I("load", 1, 0), I("load", 0, 0), Op("equal"), Op("not"),
       I("load", 1, 0), I("load", 0, 0), Op("less-eq"), Op("and"), I("if-false", 16, 0),
       I("load", 0, 0), Op("neg"), I("load", 1, 0), I("load", 0, 0), Op("mod"),
       I("native", 2, 0),
       I("load", 1, 0), I("load", 0, 0), Op("more"),
       I("load", 1, 0), I("load", 0, 0), Op("not-equal"), Op("or"),
       I("load", 1, 0), I("load", 0, 0), Op("more-eq"), Op("or"), Op("return-value") >>)

\* Instructions that gvm_compile does not emit.
Moves ==
  Program(<<>>, <<Num(1), Num(2)>>,
    << I("frame", 0, 0), I("push", 0, 0), I("push", 1, 0), Op("dup2"), Op("pop1"), Op("rot2"),
       Op("dup1"), Op("pop2"), Op("array"), Op("len"), I("exit", 3, 0) >>)

Printing == Program(<<>>, <<Num(1)>>, << I("frame", 0, 0), I("push", 0, 0), Op("print") >>)

\* An operand of the wrong type, and an endless loop.
Mistyped == Program(<<>>, <<Num(1)>>, << I("frame", 0, 0), I("push", 0, 0), Op("not") >>)
Spinning == Program(<<>>, <<>>, << I("frame", 0, 0), I("jump", 1, 0) >>)
Halting  == Program(<<>>, <<>>, << I("frame", 0, 0) >>)

AllPrograms ==
  {Recursion(n) : n \in 0 .. 4} \union {Loop(n) : n \in -1 .. 1} \union
  {NestedCalls(n) : n \in 0 .. 2} \union {Branches(a, b) : a \in -2 .. 2, b \in -1 .. 1} \union
  {Endless, EndlessWithLocals, LoopInCalls, EmptyLoop, VoidCall, VoidCalls, ReturnInLoop, CallInLoop,
   Moves, Printing, Mistyped, Spinning, Halting}
=============================================================================
