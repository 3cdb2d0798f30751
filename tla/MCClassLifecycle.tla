-------------------------- MODULE MCClassLifecycle --------------------------
(***************************************************************************)
(* Sources and host functions for ClassLifecycle.                          *)
(***************************************************************************)
EXTENDS ClassLifecycle, TLC

\* Two functions; the same with another layout and an import; half a file.
Plain    == [ok |-> TRUE, imports |-> <<>>, exports |-> {"f", "g"},
             code |-> (0 :> "f") @@ (9 :> "g")]
Importer == [ok |-> TRUE, exports |-> {"g"}, code |-> (0 :> "g") @@ (14 :> "f"),
             imports |-> <<[name |-> "h", type |-> "int()"], [name |-> "print", type |-> "void(string)"]>>]
Torn     == [ok |-> FALSE]

SomeSources == {Plain, Importer, Torn}

DefaultInterface == "print" :> [type |-> "void(string)", handle |-> "xu_ffi_print"]

\* h, and h with a type nobody imports.
SomeSupplies == {[name |-> "h", type |-> "int()", handle |-> "h1"],
                 [name |-> "h", type |-> "int(int)", handle |-> "h2"]}
=============================================================================
