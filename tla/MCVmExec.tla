------------------------------ MODULE MCVmExec ------------------------------
(***************************************************************************)
(* Programs for VmExec whose loops may reach the end of the stack.         *)
(***************************************************************************)
EXTENDS VmExec

Code == INSTANCE SmallCode

LoopingPrograms == {Code!LoopInCalls, Code!EmptyLoop}
=============================================================================
