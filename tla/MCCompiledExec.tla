--------------------------- MODULE MCCompiledExec ---------------------------
(***************************************************************************)
(* The sources of SmallSources and the bytecode of SmallCode, for          *)
(* CompiledExec and the machine under it.                                  *)
(***************************************************************************)
EXTENDS CompiledExec, VmExecRefinement, SmallSources

Code == INSTANCE SmallCode

Inputs == {<<Num(0), Arr(<<2, 1>>)>>, <<Num(1), Arr(<<2, 1>>)>>, <<Num(2), Arr(<<>>)>>}

Compiled(sources) == {Compile(s, args) : s \in {t \in sources : Accepted(t)}, args \in Inputs}

\* Bytecode that comes from no source.
Handmade == {[source |-> <<>>, made |-> TRUE, answer |-> ""] @@ p : p \in Code!AllPrograms}

AllPrograms == Compiled(SmallBodies) \union Handmade
=============================================================================
